---------------------------- MODULE Board_proofs ----------------------------
(***************************************************************************)
(* The memory map, the clock, the I2C bus and a cartridge, for every map,  *)
(* boot ROM, clock rate, byte width, guest, bank size and file.  The       *)
(* memory's strengthening says what is in the array, not what the CPU sees *)
(* of it: under a copied address lies the ROM's byte, in the firmware the  *)
(* last byte loaded. The clock's says what a transfer has left in          *)
(* i2c_data, and what the calendar shows as a count of days. The bus's     *)
(* says, for every phase of the guest, what state the engine has counted   *)
(* to and which bits are where. The cartridge's says what both files hold; *)
(* by it cartridge_load, turn by turn, has read each as far as it was      *)
(* written.                                                                *)
(***************************************************************************)
EXTENDS MemoryBus, RtcClock, I2cBus, Cartridge, NatLemmas, SequenceTheorems

-----------------------------------------------------------------------------
(* The memory map *)

CopiedIsRom == \A a \in copied : RAM[a] = boot_rom[a]
FirmwareHeld == \A a \in Firmware : RAM[a] = loaded[a]
BusInv == TypeOK /\ CopiedIsRom /\ FirmwareHeld /\ ResetBootsFromRom

\* Whatever the CPU reads, in either state of the overlay, is a byte: ROM, RAM
\* and floating bus hold nothing else (real_read6502).
LEMMA SeenType ==
    ASSUME TypeOK, NEW m \in BOOLEAN, NEW a \in Ram \cup Unmapped
    PROVE  SeenWith(m, a) \in Byte
BY MapAssumption DEF TypeOK, SeenWith, Ram

\* Power-on: nothing is copied, the firmware is what was loaded, and the CPU
\* starts from the ROM.
LEMMA BusInit == Init => BusInv
<1> SUFFICES ASSUME Init PROVE BusInv
  OBVIOUS
<1>1. boot_rom[Vector] \in Byte /\ Vector \in Ram
  BY MapAssumption DEF Ram
<1>2. TypeOK
  BY <1>1 DEF Init, TypeOK, Ram
<1>3. CopiedIsRom /\ FirmwareHeld /\ ResetBootsFromRom
  BY DEF Init, CopiedIsRom, FirmwareHeld, ResetBootsFromRom
<1> QED
  BY <1>2, <1>3 DEF BusInv

\* Every access, from the CPU, the DMA or a reset, keeps the invariant.
LEMMA BusStep == BusInv /\ [Next]_vars => BusInv'
<1> SUFFICES ASSUME BusInv, [Next]_vars PROVE BusInv'
  OBVIOUS
<1> USE DEF BusInv
<1>1. ASSUME NEW a \in Ram \cup Unmapped, Read(a) PROVE BusInv'
  <2>1. Seen(a) \in Byte
    BY SeenType DEF TypeOK, Seen
  <2> QED
    BY <1>1, <2>1 DEF Read, TypeOK, CopiedIsRom, FirmwareHeld, ResetBootsFromRom
<1>2. ASSUME NEW a \in Ram \cup Unmapped, NEW v \in Byte, Write(a, v) PROVE BusInv'
  <2>1. Stored(a, v) \in [Ram -> Byte]
    BY DEF Stored, TypeOK
  <2>2. TypeOK'
    BY <1>2, <2>1 DEF Write, TypeOK
  <2>3. CopiedIsRom'
    BY <1>2, MapAssumption DEF Write, Stored, CopiedIsRom, TypeOK, Ram
  <2>4. FirmwareHeld'
    BY <1>2, MapAssumption DEF Write, Stored, FirmwareHeld, TypeOK, Ram
  <2>5. ResetBootsFromRom'
    BY <1>2 DEF Write, ResetBootsFromRom
  <2> QED
    BY <2>2, <2>3, <2>4, <2>5
<1>3. ASSUME NEW o \in BOOLEAN, NEW u \in BOOLEAN, NEW v \in Byte, WriteSysctl(o, u, v)
      PROVE  BusInv'
  BY <1>3 DEF WriteSysctl, TypeOK, CopiedIsRom, FirmwareHeld, ResetBootsFromRom
<1>4. ASSUME NEW a \in Ram, NEW v \in Byte, Dma(a, v) PROVE BusInv'
  <2>1. TypeOK'
    BY <1>4 DEF Dma, TypeOK
  <2>2. CopiedIsRom'
    BY <1>4, MapAssumption DEF Dma, CopiedIsRom, TypeOK, Ram
  <2>3. FirmwareHeld'
    BY <1>4, MapAssumption DEF Dma, FirmwareHeld, TypeOK, Ram
  <2>4. ResetBootsFromRom'
    BY <1>4 DEF Dma, ResetBootsFromRom
  <2> QED
    BY <2>1, <2>2, <2>3, <2>4
<1>5. CASE MachineReset
  <2>1. SeenWith(TRUE, Vector) = boot_rom[Vector] /\ boot_rom[Vector] \in Byte /\ Vector \in Ram
    BY MapAssumption DEF SeenWith, Ram
  <2> QED
    BY <1>5, <2>1 DEF MachineReset, TypeOK, CopiedIsRom, FirmwareHeld, ResetBootsFromRom
<1>6. CASE UNCHANGED vars
  BY <1>6 DEF vars, TypeOK, CopiedIsRom, FirmwareHeld, ResetBootsFromRom
<1> QED
  BY <1>1, <1>2, <1>3, <1>4, <1>5, <1>6 DEF Next

\* For every memory map and boot ROM: a boot page copied down reads the same
\* with the overlay and without it, after resets, DMA and interrupts
\* (write6502, real_read6502).
THEOREM CopyCorrect == Spec => []CopyIsSeamless
<1>1. BusInv => CopyIsSeamless
  BY MapAssumption
  DEF BusInv, CopyIsSeamless, CopiedIsRom, TypeOK, Seen, SeenWith, Ram
<1> QED
  BY <1>1, BusInit, BusStep, PTL DEF Spec

\* For every memory map and boot ROM: a reset starts from the ROM's vector,
\* whatever the program stored and unmapped, and the CPU sees the firmware the
\* loaders left (machine_reset, write6502).
THEOREM BootCorrect == Spec => []BootsAsLoaded
<1>1. BusInv => BootsAsLoaded
  BY MapAssumption
  DEF BusInv, BootsAsLoaded, FirmwareIsLoaded, FirmwareHeld, Seen, SeenWith, Ram
<1> QED
  BY <1>1, BusInit, BusStep, PTL DEF Spec

-----------------------------------------------------------------------------
(* The clock *)

\* The clock's fields, and what setting one of them leaves alone.
LEMMA ClockFields ==
    ASSUME NEW c \in TimeType
    PROVE  /\ c.running \in BOOLEAN
           /\ c.vbaten \in BOOLEAN
           /\ c.h24 \in BOOLEAN
           /\ c.clocks \in 0 .. ClocksPerSecond - 1
           /\ c.seconds \in 0 .. 59
           /\ c.minutes \in 0 .. 59
           /\ c.hours \in 0 .. 23
           /\ c.dow \in 0 .. 7
           /\ c.day \in 1 .. 31
           /\ c.month \in 1 .. 12
           /\ c.year \in 0 .. 99
BY DEF TimeType

Same(c, d, fields) == \A f \in {"running", "vbaten", "h24", "clocks", "seconds", "minutes", "hours", "dow", "day", "month", "year"} \ fields : d[f] = c[f]

LEMMA Set_clocks ==
    ASSUME NEW c \in TimeType, NEW v \in 0 .. ClocksPerSecond - 1
    PROVE  [c EXCEPT !.clocks = v] \in TimeType /\ [c EXCEPT !.clocks = v].clocks = v
           /\ Same(c, [c EXCEPT !.clocks = v], {"clocks"})
BY DEF TimeType, Same

LEMMA Set_seconds ==
    ASSUME NEW c \in TimeType, NEW v \in 0 .. 59
    PROVE  [c EXCEPT !.seconds = v] \in TimeType /\ [c EXCEPT !.seconds = v].seconds = v
           /\ Same(c, [c EXCEPT !.seconds = v], {"seconds"})
BY DEF TimeType, Same

LEMMA Set_minutes ==
    ASSUME NEW c \in TimeType, NEW v \in 0 .. 59
    PROVE  [c EXCEPT !.minutes = v] \in TimeType /\ [c EXCEPT !.minutes = v].minutes = v
           /\ Same(c, [c EXCEPT !.minutes = v], {"minutes"})
BY DEF TimeType, Same

LEMMA Set_hours ==
    ASSUME NEW c \in TimeType, NEW v \in 0 .. 23
    PROVE  [c EXCEPT !.hours = v] \in TimeType /\ [c EXCEPT !.hours = v].hours = v
           /\ Same(c, [c EXCEPT !.hours = v], {"hours"})
BY DEF TimeType, Same

LEMMA Set_dow ==
    ASSUME NEW c \in TimeType, NEW v \in 0 .. 7
    PROVE  [c EXCEPT !.dow = v] \in TimeType /\ [c EXCEPT !.dow = v].dow = v
           /\ Same(c, [c EXCEPT !.dow = v], {"dow"})
BY DEF TimeType, Same

LEMMA Set_day ==
    ASSUME NEW c \in TimeType, NEW v \in 1 .. 31
    PROVE  [c EXCEPT !.day = v] \in TimeType /\ [c EXCEPT !.day = v].day = v
           /\ Same(c, [c EXCEPT !.day = v], {"day"})
BY DEF TimeType, Same

LEMMA Set_month ==
    ASSUME NEW c \in TimeType, NEW v \in 1 .. 12
    PROVE  [c EXCEPT !.month = v] \in TimeType /\ [c EXCEPT !.month = v].month = v
           /\ Same(c, [c EXCEPT !.month = v], {"month"})
BY DEF TimeType, Same

LEMMA Set_year ==
    ASSUME NEW c \in TimeType, NEW v \in 0 .. 99
    PROVE  [c EXCEPT !.year = v] \in TimeType /\ [c EXCEPT !.year = v].year = v
           /\ Same(c, [c EXCEPT !.year = v], {"year"})
BY DEF TimeType, Same

-----------------------------------------------------------------------------
(* The calendar *)

\* The tables of months.
LEMMA Months ==
    /\ DaysBefore[1] = 0 /\ DaysBefore[12] = 334 /\ DaysPerMonth[12] = 31 /\ DaysPerMonth[2] = 28
    /\ \A m \in 1 .. 12 : DaysPerMonth[m] \in 28 .. 31 /\ DaysBefore[m] \in Nat /\ DaysBefore[m] <= 334
    /\ \A m \in 1 .. 11 : DaysBefore[m + 1] = DaysBefore[m] + DaysPerMonth[m]
<1>1. /\ DaysBefore[1] = 0 /\ DaysBefore[2] = 31 /\ DaysBefore[3] = 59 /\ DaysBefore[4] = 90
      /\ DaysBefore[5] = 120 /\ DaysBefore[6] = 151 /\ DaysBefore[7] = 181
      /\ DaysBefore[8] = 212 /\ DaysBefore[9] = 243 /\ DaysBefore[10] = 273
      /\ DaysBefore[11] = 304 /\ DaysBefore[12] = 334
  BY DEF DaysBefore
<1>2. /\ DaysPerMonth[1] = 31 /\ DaysPerMonth[2] = 28 /\ DaysPerMonth[3] = 31
      /\ DaysPerMonth[4] = 30 /\ DaysPerMonth[5] = 31 /\ DaysPerMonth[6] = 30
      /\ DaysPerMonth[7] = 31 /\ DaysPerMonth[8] = 31 /\ DaysPerMonth[9] = 30
      /\ DaysPerMonth[10] = 31 /\ DaysPerMonth[11] = 30 /\ DaysPerMonth[12] = 31
  BY DEF DaysPerMonth
<1>3. \A m \in 1 .. 12 : DaysPerMonth[m] \in 28 .. 31 /\ DaysBefore[m] \in Nat /\ DaysBefore[m] <= 334
  BY <1>1, <1>2
<1>4. \A m \in 1 .. 11 : DaysBefore[m + 1] = DaysBefore[m] + DaysPerMonth[m]
  <2> SUFFICES ASSUME NEW m \in 1 .. 11 PROVE DaysBefore[m + 1] = DaysBefore[m] + DaysPerMonth[m]
    OBVIOUS
  <2>1. m = 1 \/ m = 2 \/ m = 3 \/ m = 4 \/ m = 5 \/ m = 6 \/ m = 7 \/ m = 8 \/ m = 9 \/ m = 10
        \/ m = 11
    OBVIOUS
  <2> QED BY <1>1, <1>2, <2>1
<1> QED BY <1>1, <1>2, <1>3, <1>4

\* The days of the years before, with the leap days among them.
LEMMA Years ==
    ASSUME NEW y \in 0 .. 99
    PROVE  /\ ((y + 1) + 3) \div 4 = ((y + 3) \div 4) + If(y % 4 = 0, 1)
           /\ (y + 3) \div 4 \in 0 .. 25 /\ (y = 99 => (y + 3) \div 4 = 25 /\ y % 4 # 0)
           /\ If(y % 4 = 0, 1) \in 0 .. 1
<1>1. y = 4 * (y \div 4) + (y % 4) /\ y % 4 \in 0 .. 3 /\ y \div 4 \in Nat
  BY DivMod
<1> DEFINE q == y \div 4
           r == y % 4
<1> HIDE DEF q, r
<1>2. y = 4 * q + r /\ r \in 0 .. 3 /\ q \in Nat
  BY <1>1 DEF q, r
<1>3. CASE r = 0
  <2>1. (y + 3) \div 4 = q /\ ((y + 1) + 3) \div 4 = q + 1
    BY <1>2, <1>3
  <2> QED BY <1>2, <1>3, <2>1 DEF If, r
<1>4. CASE r # 0
  <2>1. (y + 3) \div 4 = q + 1 /\ ((y + 1) + 3) \div 4 = q + 1
    BY <1>2, <1>4
  <2> QED BY <1>2, <1>4, <2>1 DEF If, r
<1> QED BY <1>2, <1>3, <1>4

\* A date in its month, and the last of its month.
Dated(c) == c.day <= Dpm(c)

Leap(c) == If(c.year % 4 = 0, 1)
Quads(c) == (c.year + 3) \div 4

\* A date in its parts: the year, its leap days before and in it, the month with
\* the days before and in it, and the day.
Parts(c, y, q, l, m, b, k, d) ==
    /\ y = c.year /\ q = Quads(c) /\ l = Leap(c) /\ m = c.month /\ b = DaysBefore[m]
    /\ k = DaysPerMonth[m] /\ d = c.day
    /\ y = 99 => q = 25 /\ l = 0
    /\ q <= 25 /\ b <= 334 /\ b + k <= 365
    /\ Dpm(c) = k + (IF m = 2 THEN l ELSE 0)
    /\ DayNumber(c) = 365 * y + q + b + (IF m > 2 THEN l ELSE 0) + d - 1

LEMMA PartsOf ==
    ASSUME NEW c \in TimeType
    PROVE  \E y \in 0 .. 99, q \in Nat, l \in 0 .. 1, m \in 1 .. 12, b \in Nat, k \in 28 .. 31,
              d \in 1 .. 31 : Parts(c, y, q, l, m, b, k, d)
<1>1. PICK y \in 0 .. 99, m \in 1 .. 12, d \in 1 .. 31 : y = c.year /\ m = c.month /\ d = c.day
  BY ClockFields
<1>2. PICK q \in Nat, l \in 0 .. 1 :
           q = Quads(c) /\ l = Leap(c) /\ q <= 25 /\ (y = 99 => q = 25 /\ l = 0)
  BY <1>1, Years DEF Quads, Leap, If
<1>3. PICK b \in Nat, k \in 28 .. 31 : b = DaysBefore[m] /\ k = DaysPerMonth[m] /\ b <= 334
  BY Months
<1>4. b + k <= 365
  <2>1. CASE m = 12
    BY <1>3, <2>1, Months
  <2>2. CASE m # 12
    <3>1. m \in 1 .. 11 /\ m + 1 \in 1 .. 12
      BY <2>2
    <3>2. DaysBefore[m + 1] = b + k /\ DaysBefore[m + 1] <= 334
      BY <1>3, <3>1, Months
    <3> QED BY <3>2
  <2> QED BY <2>1, <2>2
<1>5. Dpm(c) = k + (IF m = 2 THEN l ELSE 0)
  <2>1. Dpm(c) = k + (IF m = 2 /\ y % 4 = 0 THEN 1 ELSE 0)
    BY <1>1, <1>3 DEF Dpm, is_leap_year, If
  <2>2. l = IF y % 4 = 0 THEN 1 ELSE 0
    BY <1>1, <1>2 DEF Leap, If
  <2> QED BY <2>1, <2>2
<1>6. DayNumber(c) = 365 * y + q + b + (IF m > 2 THEN l ELSE 0) + d - 1
  <2>1. l = IF y % 4 = 0 THEN 1 ELSE 0
    BY <1>1, <1>2 DEF Leap, If
  <2>2. (IF m > 2 /\ y % 4 = 0 THEN 1 ELSE 0) = IF m > 2 THEN l ELSE 0
    BY <2>1
  <2>3. DayNumber(c) = 365 * y + q + b + (IF m > 2 /\ y % 4 = 0 THEN 1 ELSE 0) + d - 1
    BY <1>1, <1>2, <1>3 DEF DayNumber, Quads, If
  <2> QED BY <2>2, <2>3
<1>7. Parts(c, y, q, l, m, b, k, d)
  <2>1. /\ y = c.year /\ q = Quads(c) /\ l = Leap(c) /\ m = c.month /\ b = DaysBefore[m]
        /\ k = DaysPerMonth[m] /\ d = c.day /\ (y = 99 => q = 25 /\ l = 0)
    BY <1>1, <1>2, <1>3
  <2>2. q <= 25 /\ b <= 334 /\ b + k <= 365
    BY <1>2, <1>3, <1>4
  <2> QED BY <2>1, <2>2, <1>5, <1>6 DEF Parts
<1> QED BY <1>7

LEMMA DayRange ==
    ASSUME NEW c \in TimeType, Dated(c)
    PROVE  DayNumber(c) \in Nat /\ DayNumber(c) <= 36524
<1>1. PICK y \in 0 .. 99, q \in Nat, l \in 0 .. 1, m \in 1 .. 12, b \in Nat, k \in 28 .. 31, d \in 1 .. 31 :
           Parts(c, y, q, l, m, b, k, d)
  BY PartsOf
<1>2. d <= k + (IF m = 2 THEN l ELSE 0) /\ b + k <= 365 /\ q <= 25 /\ (y = 99 => q = 25 /\ l = 0)
  BY <1>1 DEF Parts, Dated
<1>3. DayNumber(c) = 365 * y + q + b + (IF m > 2 THEN l ELSE 0) + d - 1
  BY <1>1 DEF Parts
<1> QED BY <1>2, <1>3

LEMMA NextDayCounts ==
    ASSUME NEW c \in TimeType, Dated(c)
    PROVE  /\ NextDay(c) \in TimeType /\ Dated(NextDay(c))
           /\ DayNumber(NextDay(c)) = IF DayNumber(c) = 36524 THEN 0 ELSE DayNumber(c) + 1
           /\ Same(c, NextDay(c), {"day", "month", "year"})
<1>0. PICK y \in 0 .. 99, q \in Nat, l \in 0 .. 1, m \in 1 .. 12, b \in Nat, k \in 28 .. 31, e \in 1 .. 31 :
           Parts(c, y, q, l, m, b, k, e)
  BY PartsOf
<1>1. /\ y = c.year /\ q = Quads(c) /\ l = Leap(c) /\ m = c.month /\ b = DaysBefore[m]
      /\ k = DaysPerMonth[m] /\ e = c.day /\ (y = 99 => q = 25 /\ l = 0)
  BY <1>0 DEF Parts
<1>2. /\ Dpm(c) = k + (IF m = 2 THEN l ELSE 0) /\ e <= Dpm(c)
      /\ DayNumber(c) = 365 * y + q + b + (IF m > 2 THEN l ELSE 0) + e - 1
  BY <1>0 DEF Parts, Dated
<1>3. CASE e + 1 <= Dpm(c)
  <2> DEFINE d == [c EXCEPT !.day = e + 1]
  <2>1. NextDay(c) = d
    BY <1>1, <1>3 DEF NextDay
  <2>2. e + 1 \in 1 .. 31
    <3>1. l = 1 /\ m = 2 => k = 28
      BY <1>1, Months
    <3> QED BY <1>2, <1>3, <3>1
  <2>3. d \in TimeType /\ d.day = e + 1 /\ Same(c, d, {"day"})
    BY <2>2, Set_day
  <2> HIDE DEF d
  <2>4. d.month = m /\ d.year = y /\ Same(c, d, {"day", "month", "year"})
    BY <1>1, <2>3 DEF Same
  <2>5. Dated(d)
    BY <1>1, <1>3, <2>3, <2>4 DEF Dated, Dpm, is_leap_year
  <2>6. DayNumber(d) = DayNumber(c) + 1
    <3>1. DayNumber(d) = 365 * y + q + b + (IF m > 2 THEN l ELSE 0) + (e + 1) - 1
      BY <1>1, <2>3, <2>4 DEF DayNumber, Quads, Leap, If
    <3> QED BY <1>2, <3>1
  <2>7. DayNumber(c) # 36524
    <3>1. DayNumber(d) \in Nat /\ DayNumber(d) <= 36524
      BY <2>3, <2>5, DayRange
    <3>2. DayNumber(c) \in Nat
      BY DayRange
    <3> QED BY <2>6, <3>1, <3>2
  <2> QED BY <2>1, <2>3, <2>4, <2>5, <2>6, <2>7
<1>4. CASE ~ (e + 1 <= Dpm(c)) /\ m # 12
  <2> DEFINE a == [c EXCEPT !.day = 1]
             d == [a EXCEPT !.month = m + 1]
  <2>0. 1 \in 1 .. 31 /\ m + 1 \in 1 .. 12 /\ m \in 1 .. 11
    BY <1>4
  <2>1. a \in TimeType /\ a.day = 1 /\ Same(c, a, {"day"})
    BY <2>0, Set_day
  <2>2. NextDay(c) = d
    <3>1. NextDay(c) = NextMonth(a) /\ a.month = m
      BY <1>1, <1>4, <2>1 DEF NextDay, Same
    <3>2. m + 1 <= 12
      BY <2>0
    <3> HIDE DEF a
    <3> QED BY <3>1, <3>2 DEF NextMonth
  <2> HIDE DEF a
  <2>3. d \in TimeType /\ d.month = m + 1 /\ Same(a, d, {"month"})
    BY <2>0, <2>1, Set_month
  <2> HIDE DEF d
  <2>4. d.day = 1 /\ d.year = y /\ Same(c, d, {"day", "month", "year"})
    BY <1>1, <2>1, <2>3 DEF Same
  <2>5. PICK kk \in 28 .. 31, ll \in 0 .. 1 : Dpm(d) = kk + ll
    <3>1. PICK kk \in 28 .. 31 : kk = DaysPerMonth[d.month]
      BY <2>0, <2>3, Months
    <3>2. PICK ll \in 0 .. 1 : ll = If(d.month = 2 /\ is_leap_year(d), 1)
      BY DEF If
    <3> QED BY <3>1, <3>2 DEF Dpm
  <2>6. Dated(d)
    BY <2>4, <2>5 DEF Dated
  <2>7. DayNumber(d) = DayNumber(c) + 1
    <3>1. DaysBefore[m + 1] = b + k
      BY <1>1, <2>0, Months
    <3>2. If(m + 1 > 2 /\ y % 4 = 0, 1) = (IF m = 2 THEN l ELSE 0) + (IF m > 2 THEN l ELSE 0)
      BY <1>1 DEF If, Leap
    <3>3. DayNumber(d) = 365 * y + q + (b + k)
                         + ((IF m = 2 THEN l ELSE 0) + (IF m > 2 THEN l ELSE 0)) + 1 - 1
      BY <1>1, <2>3, <2>4, <3>1, <3>2 DEF DayNumber, Quads
    <3>4. e = k + (IF m = 2 THEN l ELSE 0)
      BY <1>2, <1>4
    <3> QED BY <1>2, <3>3, <3>4
  <2>8. DayNumber(c) # 36524
    <3>1. DayNumber(d) \in Nat /\ DayNumber(d) <= 36524
      BY <2>3, <2>6, DayRange
    <3>2. DayNumber(c) \in Nat
      BY DayRange
    <3> QED BY <2>7, <3>1, <3>2
  <2> QED BY <2>2, <2>3, <2>4, <2>6, <2>7, <2>8
<1>5. CASE ~ (e + 1 <= Dpm(c)) /\ m = 12
  <2> DEFINE a == [c EXCEPT !.day = 1]
             g == [a EXCEPT !.month = 1]
             z == IF y + 1 = 100 THEN 0 ELSE y + 1
             d == [g EXCEPT !.year = z]
  <2>0. 1 \in 1 .. 31 /\ 1 \in 1 .. 12
    OBVIOUS
  <2>1. a \in TimeType /\ a.day = 1 /\ Same(c, a, {"day"})
    BY <2>0, Set_day
  <2>2. NextDay(c) = NextMonth(a) /\ a.month = m
    BY <1>1, <1>5, <2>1 DEF NextDay, Same
  <2> HIDE DEF a
  <2>3. g \in TimeType /\ g.month = 1 /\ Same(a, g, {"month"})
    BY <2>0, <2>1, Set_month
  <2>4. NextMonth(a) = NextYear(g) /\ g.year = y
    BY <1>1, <1>5, <2>1, <2>2, <2>3 DEF NextMonth, Same
  <2> HIDE DEF g
  <2>5. NextDay(c) = d
    BY <2>2, <2>4 DEF NextYear
  <2>6. z \in 0 .. 99
    OBVIOUS
  <2> HIDE DEF z
  <2>7. d \in TimeType /\ d.year = z /\ Same(g, d, {"year"})
    BY <2>3, <2>6, Set_year
  <2> HIDE DEF d
  <2>8. d.day = 1 /\ d.month = 1 /\ Same(c, d, {"day", "month", "year"})
    BY <2>1, <2>3, <2>7 DEF Same
  <2>9. Dated(d)
    BY <2>8, Months DEF Dated, Dpm, If
  <2>10. DayNumber(d) = IF DayNumber(c) = 36524 THEN 0 ELSE DayNumber(c) + 1
    <3>1. k = 31 /\ b = 334 /\ e = 31
      <4>1. k = 31 /\ b = 334
        BY <1>1, <1>5, Months
      <4> QED BY <1>2, <1>5, <4>1
    <3>2. DayNumber(c) = 365 * y + q + l + 364
      BY <1>2, <1>5, <3>1
    <3>3. DayNumber(d) = 365 * z + ((z + 3) \div 4)
      <4>1. PICK w \in Int : w = (z + 3) \div 4
        BY <2>6
      <4>2. DaysBefore[1] = 0 /\ If(1 > 2 /\ z % 4 = 0, 1) = 0
        BY Months DEF If
      <4>3. DayNumber(d) = 365 * z + w + 0 + 0 + 1 - 1
        BY <2>7, <2>8, <4>1, <4>2 DEF DayNumber
      <4> QED BY <2>6, <4>1, <4>3
    <3>4. CASE y = 99
      <4>1. z = 0 /\ q = 25 /\ l = 0
        BY <1>1, <3>4 DEF z
      <4> QED BY <3>2, <3>3, <3>4, <4>1
    <3>5. CASE y # 99
      <4>1. z = y + 1 /\ y \in 0 .. 98
        BY <3>5 DEF z
      <4>2. (z + 3) \div 4 = q + l
        BY <1>1, <4>1, Years DEF Quads, Leap
      <4>3. DayNumber(d) = DayNumber(c) + 1
        BY <3>2, <3>3, <4>1, <4>2
      <4>4. DayNumber(d) \in Nat /\ DayNumber(d) <= 36524 /\ DayNumber(c) \in Nat
        BY <2>7, <2>9, DayRange
      <4> QED BY <4>3, <4>4
    <3> QED BY <3>4, <3>5
  <2> QED BY <2>5, <2>7, <2>8, <2>9, <2>10
<1> QED BY <1>3, <1>4, <1>5

-----------------------------------------------------------------------------
(* Seconds *)

LEMMA ModNext ==
    ASSUME NEW a \in Nat, NEW b \in Nat \ {0}
    PROVE  IF a % b = b - 1
           THEN (a + 1) % b = 0 /\ (a + 1) \div b = (a \div b) + 1
           ELSE (a + 1) % b = (a % b) + 1 /\ (a + 1) \div b = a \div b
<1>1. PICK q \in Nat, r \in 0 .. b - 1 : q = a \div b /\ r = a % b /\ a = b * q + r
  BY DivMod
<1>2. CASE r = b - 1
  <2>1. a + 1 = b * (q + 1) + 0 /\ q + 1 \in Nat /\ 0 \in 0 .. b - 1 /\ a + 1 \in Nat
    BY <1>1, <1>2
  <2>2. (a + 1) \div b = q + 1 /\ (a + 1) % b = 0
    BY <2>1, DivUnique
  <2> QED BY <1>1, <1>2, <2>2
<1>3. CASE r # b - 1
  <2>1. a + 1 = b * q + (r + 1) /\ r + 1 \in 0 .. b - 1 /\ a + 1 \in Nat
    BY <1>1, <1>3
  <2>2. (a + 1) \div b = q /\ (a + 1) % b = r + 1
    BY <2>1, DivUnique
  <2> QED BY <1>1, <1>3, <2>2
<1> QED BY <1>2, <1>3

NextDow(w) == IF w + 1 > 7 THEN 1 ELSE w + 1
DayAfter(n) == IF n = 36524 THEN 0 ELSE n + 1

\* One second on: the next of the day, or the first of the next day.
SecondOn(c, d) ==
    /\ d \in TimeType /\ Dated(d)
    /\ Same(c, d, {"seconds", "minutes", "hours", "dow", "day", "month", "year"})
    /\ IF SecondOfDay(c) = 86399
       THEN SecondOfDay(d) = 0 /\ DayNumber(d) = DayAfter(DayNumber(c)) /\ d.dow = NextDow(c.dow)
       ELSE SecondOfDay(d) = SecondOfDay(c) + 1 /\ DayNumber(d) = DayNumber(c) /\ d.dow = c.dow

LEMMA SameDate ==
    ASSUME NEW c, NEW d, d.day = c.day, d.month = c.month, d.year = c.year
    PROVE  (Dated(c) => Dated(d)) /\ DayNumber(d) = DayNumber(c)
BY DEF Dated, Dpm, is_leap_year, DayNumber

LEMMA NextSecondCounts ==
    ASSUME NEW c \in TimeType, Dated(c)
    PROVE  SecondOn(c, NextSecond(c))
<1>0. PICK h \in 0 .. 23, m \in 0 .. 59, s \in 0 .. 59 : h = c.hours /\ m = c.minutes /\ s = c.seconds
  BY ClockFields
<1>1. SecondOfDay(c) = 3600 * h + 60 * m + s
  BY <1>0 DEF SecondOfDay
<1>2. CASE s # 59
  <2> DEFINE d == [c EXCEPT !.seconds = s + 1]
  <2>1. NextSecond(c) = d /\ s + 1 \in 0 .. 59
    BY <1>0, <1>2 DEF NextSecond
  <2>2. d \in TimeType /\ d.seconds = s + 1 /\ Same(c, d, {"seconds"})
    BY <2>1, Set_seconds
  <2> HIDE DEF d
  <2>3. d.hours = h /\ d.minutes = m /\ d.day = c.day /\ d.month = c.month /\ d.year = c.year
        /\ d.dow = c.dow
        /\ Same(c, d, {"seconds", "minutes", "hours", "dow", "day", "month", "year"})
    BY <1>0, <2>2 DEF Same
  <2>4. Dated(d) /\ DayNumber(d) = DayNumber(c)
    BY <2>3, SameDate
  <2>5. SecondOfDay(d) = 3600 * h + 60 * m + (s + 1)
    BY <2>2, <2>3 DEF SecondOfDay
  <2>6. SecondOfDay(c) # 86399 /\ SecondOfDay(d) = SecondOfDay(c) + 1
    BY <1>1, <1>2, <2>5
  <2> QED BY <2>1, <2>2, <2>3, <2>4, <2>6 DEF SecondOn
<1>3. CASE s = 59 /\ m # 59
  <2> DEFINE a == [c EXCEPT !.seconds = 0]
             d == [a EXCEPT !.minutes = m + 1]
  <2>0. 0 \in 0 .. 59 /\ m + 1 \in 0 .. 59
    BY <1>3
  <2>1. a \in TimeType /\ a.seconds = 0 /\ Same(c, a, {"seconds"})
    BY <2>0, Set_seconds
  <2>2. NextSecond(c) = NextMinute(a) /\ a.minutes = m
    <3>1. ~ (c.seconds + 1 < 60) /\ c.minutes = m
      BY <1>0, <1>3
    <3> QED BY <2>1, <3>1 DEF NextSecond, Same
  <2> HIDE DEF a
  <2>3. NextMinute(a) = d
    BY <1>3, <2>2 DEF NextMinute
  <2>4. d \in TimeType /\ d.minutes = m + 1 /\ Same(a, d, {"minutes"})
    BY <2>0, <2>1, Set_minutes
  <2> HIDE DEF d
  <2>5. d.hours = h /\ d.seconds = 0 /\ d.day = c.day /\ d.month = c.month /\ d.year = c.year
        /\ d.dow = c.dow
        /\ Same(c, d, {"seconds", "minutes", "hours", "dow", "day", "month", "year"})
    BY <1>0, <2>1, <2>4 DEF Same
  <2>6. Dated(d) /\ DayNumber(d) = DayNumber(c)
    BY <2>5, SameDate
  <2>7. SecondOfDay(d) = 3600 * h + 60 * (m + 1) + 0
    BY <2>4, <2>5 DEF SecondOfDay
  <2>8. SecondOfDay(c) # 86399 /\ SecondOfDay(d) = SecondOfDay(c) + 1
    BY <1>1, <1>3, <2>7
  <2> QED BY <2>2, <2>3, <2>4, <2>5, <2>6, <2>8 DEF SecondOn
<1>4. CASE s = 59 /\ m = 59
  <2> DEFINE a == [c EXCEPT !.seconds = 0]
             b == [a EXCEPT !.minutes = 0]
  <2>0. 0 \in 0 .. 59 /\ 0 \in 0 .. 23
    OBVIOUS
  <2>1. a \in TimeType /\ a.seconds = 0 /\ Same(c, a, {"seconds"})
    BY <2>0, Set_seconds
  <2>2. NextSecond(c) = NextMinute(a) /\ a.minutes = m
    <3>1. ~ (c.seconds + 1 < 60) /\ c.minutes = m
      BY <1>0, <1>4
    <3> QED BY <2>1, <3>1 DEF NextSecond, Same
  <2> HIDE DEF a
  <2>3. NextMinute(a) = NextHour(b)
    BY <1>4, <2>2 DEF NextMinute
  <2>4. b \in TimeType /\ b.minutes = 0 /\ Same(a, b, {"minutes"})
    BY <2>0, <2>1, Set_minutes
  <2> HIDE DEF b
  <2>5. b.hours = h /\ b.seconds = 0 /\ b.day = c.day /\ b.month = c.month /\ b.year = c.year
        /\ b.dow = c.dow /\ Same(c, b, {"seconds", "minutes"})
    BY <1>0, <2>1, <2>4 DEF Same
  <2>6. CASE h # 23
    <3> DEFINE d == [b EXCEPT !.hours = h + 1]
    <3>0. h + 1 \in 0 .. 23
      BY <2>6
    <3>1. NextHour(b) = d
      BY <2>5, <3>0 DEF NextHour
    <3>2. d \in TimeType /\ d.hours = h + 1 /\ Same(b, d, {"hours"})
      BY <2>4, <3>0, Set_hours
    <3> HIDE DEF d
    <3>3. d.minutes = 0 /\ d.seconds = 0 /\ d.day = c.day /\ d.month = c.month /\ d.year = c.year
          /\ d.dow = c.dow
          /\ Same(c, d, {"seconds", "minutes", "hours", "dow", "day", "month", "year"})
      BY <2>4, <2>5, <3>2 DEF Same
    <3>4. Dated(d) /\ DayNumber(d) = DayNumber(c)
      BY <3>3, SameDate
    <3>5. SecondOfDay(d) = 3600 * (h + 1) + 60 * 0 + 0
      BY <3>2, <3>3 DEF SecondOfDay
    <3>6. SecondOfDay(c) # 86399 /\ SecondOfDay(d) = SecondOfDay(c) + 1
      BY <1>1, <1>4, <2>6, <3>5
    <3> QED BY <2>2, <2>3, <3>1, <3>2, <3>3, <3>4, <3>6 DEF SecondOn
  <2>7. CASE h = 23
    <3> DEFINE e == [b EXCEPT !.hours = 0]
               w == NextDow(c.dow)
               f == [e EXCEPT !.dow = w]
               d == NextDay(f)
    <3>1. e \in TimeType /\ e.hours = 0 /\ Same(b, e, {"hours"})
      BY <2>0, <2>4, Set_hours
    <3>2. NextHour(b) = NextDay(NextWeekday(e)) /\ e.dow = c.dow
      BY <2>5, <2>7, <3>1 DEF NextHour, Same
    <3> HIDE DEF e
    <3>3. NextWeekday(e) = f
      BY <3>2 DEF NextWeekday, NextDow
    <3>4. w \in 0 .. 7
      <4>1. PICK v \in 0 .. 7 : v = c.dow
        BY ClockFields
      <4> QED BY <4>1 DEF NextDow
    <3> HIDE DEF w
    <3>5. f \in TimeType /\ f.dow = w /\ Same(e, f, {"dow"})
      BY <3>1, <3>4, Set_dow
    <3> HIDE DEF f
    <3>6. f.hours = 0 /\ f.minutes = 0 /\ f.seconds = 0 /\ f.day = c.day /\ f.month = c.month
          /\ f.year = c.year /\ Same(c, f, {"seconds", "minutes", "hours", "dow"})
      BY <2>4, <2>5, <3>1, <3>5 DEF Same
    <3>7. Dated(f) /\ DayNumber(f) = DayNumber(c)
      BY <3>6, SameDate
    <3>8. /\ d \in TimeType /\ Dated(d) /\ DayNumber(d) = DayAfter(DayNumber(c))
          /\ Same(f, d, {"day", "month", "year"})
      BY <3>5, <3>7, NextDayCounts DEF DayAfter
    <3> HIDE DEF d
    <3>9. d.hours = 0 /\ d.minutes = 0 /\ d.seconds = 0 /\ d.dow = w
          /\ Same(c, d, {"seconds", "minutes", "hours", "dow", "day", "month", "year"})
      BY <3>5, <3>6, <3>8 DEF Same
    <3>10. SecondOfDay(d) = 0 /\ SecondOfDay(c) = 86399
      BY <1>1, <1>4, <2>7, <3>9 DEF SecondOfDay
    <3>11. NextSecond(c) = d
      BY <2>2, <2>3, <3>2, <3>3 DEF d
    <3> QED BY <3>8, <3>9, <3>10, <3>11 DEF SecondOn, w
  <2> QED BY <2>6, <2>7
<1> QED BY <1>2, <1>3, <1>4

-----------------------------------------------------------------------------
(* The clocks of an instruction *)

LEMMA SteppedCounts ==
    ASSUME RtcAssumption, NEW c \in TimeType, Dated(c), NEW n \in 1 .. ClocksPerSecond
    PROVE  /\ Stepped(c, n) \in TimeType
           /\ \/ /\ c.clocks + n < ClocksPerSecond
                 /\ Stepped(c, n).clocks = c.clocks + n
                 /\ Same(c, Stepped(c, n), {"clocks"})
              \/ /\ c.clocks + n >= ClocksPerSecond
                 /\ Stepped(c, n).clocks = c.clocks + n - ClocksPerSecond
                 /\ \E b : /\ SecondOn(b, Stepped(c, n)) /\ Same(c, b, {"clocks"})
                          /\ b \in TimeType
<1>0. ClocksPerSecond \in Nat \ {0} /\ c.clocks \in 0 .. ClocksPerSecond - 1
  BY ClockFields DEF RtcAssumption
<1>1. CASE c.clocks + n < ClocksPerSecond
  <2>1. c.clocks + n \in 0 .. ClocksPerSecond - 1
    BY <1>0, <1>1
  <2>2. Stepped(c, n) = [c EXCEPT !.clocks = c.clocks + n]
    BY <1>1 DEF Stepped
  <2> QED BY <1>1, <2>1, <2>2, Set_clocks
<1>2. CASE ~ (c.clocks + n < ClocksPerSecond)
  <2> DEFINE v == c.clocks + n - ClocksPerSecond
             b == [c EXCEPT !.clocks = v]
  <2>1. v \in 0 .. ClocksPerSecond - 1 /\ c.clocks + n >= ClocksPerSecond
    BY <1>0, <1>2
  <2>2. Stepped(c, n) = NextSecond(b)
    BY <1>2 DEF Stepped
  <2> HIDE DEF v
  <2>3. b \in TimeType /\ b.clocks = v /\ Same(c, b, {"clocks"})
    BY <2>1, Set_clocks
  <2> HIDE DEF b
  <2>4. Dated(b)
    <3>1. b.day = c.day /\ b.month = c.month /\ b.year = c.year
      BY <2>3 DEF Same
    <3> QED BY <3>1, SameDate
  <2>5. SecondOn(b, NextSecond(b))
    BY <2>3, <2>4, NextSecondCounts
  <2>6. NextSecond(b) \in TimeType /\ NextSecond(b).clocks = v
    BY <2>3, <2>5 DEF SecondOn, Same
  <2> QED BY <2>1, <2>2, <2>3, <2>5, <2>6 DEF v
<1> QED BY <1>1, <1>2

\* The date a clock shows when it was set to the host's time.
LEMMA HostTimeIn ==
    ASSUME RtcAssumption, NEW x \in Starts
    PROVE  /\ HostTime(x) \in TimeType /\ Dated(HostTime(x))
           /\ HostTime(x).dow >= 1 /\ HostTime(x).clocks = 0
<1> DEFINE c == [running |-> TRUE, vbaten |-> TRUE, h24 |-> TRUE, clocks |-> 0,
                 seconds |-> x[2][3], minutes |-> x[2][2], hours |-> x[2][1],
                 dow |-> 0, day |-> x[1][3], month |-> x[1][2], year |-> x[1][1]]
           w == ((DayNumber(c) + 5) % 7) + 1
<1>1. HostTime(x) = [c EXCEPT !.dow = w]
  BY DEF HostTime
<1>2. x[1] \in Dates /\ x[2] \in (0 .. 23) \X (0 .. 59) \X (0 .. 59)
  BY DEF RtcAssumption
<1>3. /\ x[1][1] \in 0 .. 99 /\ x[1][2] \in 1 .. 12 /\ x[1][3] \in 1 .. 31
      /\ x[2][1] \in 0 .. 23 /\ x[2][2] \in 0 .. 59 /\ x[2][3] \in 0 .. 59
      /\ x[1][3] <= DaysPerMonth[x[1][2]] + If(x[1][2] = 2 /\ x[1][1] % 4 = 0, 1)
  BY <1>2 DEF Dates
<1>4. 0 \in 0 .. ClocksPerSecond - 1 /\ 0 \in 0 .. 7 /\ TRUE \in BOOLEAN
  BY DEF RtcAssumption
<1>5. c \in TimeType
  BY <1>3, <1>4, ZenonT(60) DEF TimeType
<1>6. c.clocks = 0 /\ Dated(c)
  BY <1>3 DEF Dated, Dpm, is_leap_year
<1> HIDE DEF c
<1>7. DayNumber(c) \in Nat
  BY <1>5, <1>6, DayRange
<1>8. w \in 0 .. 7 /\ w >= 1
  <2>1. (DayNumber(c) + 5) % 7 \in 0 .. 6
    BY <1>7
  <2> QED BY <2>1
<1> HIDE DEF w
<1> DEFINE d == [c EXCEPT !.dow = w]
<1>9. d \in TimeType /\ d.dow = w /\ Same(c, d, {"dow"})
  BY <1>5, <1>8, Set_dow
<1> HIDE DEF d
<1>10. d.clocks = 0 /\ d.day = c.day /\ d.month = c.month /\ d.year = c.year
  BY <1>6, <1>9 DEF Same
<1>11. Dated(d)
  BY <1>6, <1>10, SameDate
<1> QED BY <1>1, <1>8, <1>9, <1>10, <1>11 DEF d

LEMMA StoppedIn ==
    ASSUME RtcAssumption
    PROVE  Stopped \in TimeType /\ Dated(Stopped) /\ Stopped.dow >= 1 /\ Stopped.clocks = 0
<1>1. 0 \in 0 .. ClocksPerSecond - 1
  BY DEF RtcAssumption
<1>2. Stopped \in TimeType
  BY <1>1 DEF Stopped, TimeType
<1>3. Dated(Stopped)
  BY Months DEF Dated, Dpm, Stopped, If
<1> QED BY <1>2, <1>3 DEF Stopped

-----------------------------------------------------------------------------
(* The registers *)

LEMMA BcdRound ==
    ASSUME NEW a \in 0 .. 99
    PROVE  BCD(a) \in Nat /\ UNBCD(BCD(a)) = a /\ BCD(a) <= 153
           /\ (a <= 59 => BCD(a) <= 89) /\ (a <= 23 => BCD(a) <= 35) /\ (a <= 12 => BCD(a) <= 18)
<1>1. PICK q \in Nat, r \in 0 .. 9 : q = a \div 10 /\ r = a % 10 /\ a = 10 * q + r
  BY DivMod
<1>2. BCD(a) = 16 * q + r
  BY <1>1 DEF BCD
<1>3. (16 * q + r) \div 16 = q /\ (16 * q + r) % 16 = r
  BY <1>1, DivUnique
<1>4. UNBCD(BCD(a)) = a
  BY <1>1, <1>2, <1>3 DEF UNBCD
<1> QED BY <1>1, <1>2, <1>4

\* A flag above a value: the value's bits are what is left below it.
LEMMA Flagged ==
    ASSUME NEW w \in {32, 64, 128}, NEW v \in 0 .. w - 1
    PROVE  v % w = v /\ v \div w = 0 /\ (v + w) % w = v /\ (v + w) \div w = 1
           /\ ~ Bit(v, w) /\ Bit(v + w, w)
<1>1. v \div w = 0 /\ v % w = v
  <2>1. v = w * 0 + v /\ w \in Nat \ {0} /\ v \in Nat
    OBVIOUS
  <2> QED BY <2>1, DivUnique
<1>2. (v + w) \div w = 1 /\ (v + w) % w = v
  <2>1. v + w = w * 1 + v /\ w \in Nat \ {0} /\ v + w \in Nat
    OBVIOUS
  <2> QED BY <2>1, DivUnique
<1>3. 0 % 2 = 0 /\ 1 % 2 = 1
  OBVIOUS
<1> QED BY <1>1, <1>2, <1>3 DEF Bit
-----------------------------------------------------------------------------
(* The clock keeps its type, also at a date the guest set that is none. *)

LEMMA NextDayIn ==
    ASSUME NEW c \in TimeType
    PROVE  NextDay(c) \in TimeType
<1>1. PICK y \in 0 .. 99, m \in 1 .. 12, e \in 1 .. 31 : y = c.year /\ m = c.month /\ e = c.day
  BY ClockFields
<1>2. CASE c.day + 1 <= Dpm(c)
  <2>1. e + 1 \in 1 .. 31
    <3>1. PICK k \in 28 .. 31 : k = DaysPerMonth[m] /\ (m = 2 => k = 28)
      BY Months
    <3>2. e + 1 <= k \/ (m = 2 /\ e + 1 <= k + 1)
      BY <1>1, <1>2, <3>1 DEF Dpm, If
    <3> QED BY <3>1, <3>2
  <2>2. NextDay(c) = [c EXCEPT !.day = e + 1]
    BY <1>1, <1>2 DEF NextDay
  <2> QED BY <2>1, <2>2, Set_day
<1>3. CASE ~ (c.day + 1 <= Dpm(c))
  <2> DEFINE a == [c EXCEPT !.day = 1]
  <2>0. 1 \in 1 .. 31 /\ 1 \in 1 .. 12
    OBVIOUS
  <2>1. a \in TimeType /\ Same(c, a, {"day"})
    BY <2>0, Set_day
  <2>2. NextDay(c) = NextMonth(a) /\ a.month = m /\ a.year = y
    BY <1>1, <1>3, <2>1 DEF NextDay, Same
  <2> HIDE DEF a
  <2>3. CASE m # 12
    <3>1. m + 1 \in 1 .. 12 /\ m + 1 <= 12
      BY <2>3
    <3>2. NextMonth(a) = [a EXCEPT !.month = m + 1]
      BY <2>2, <3>1 DEF NextMonth
    <3>3. [a EXCEPT !.month = m + 1] \in TimeType
      BY <2>1, <3>1, Set_month
    <3> QED BY <2>2, <3>2, <3>3
  <2>4. CASE m = 12
    <3> DEFINE g == [a EXCEPT !.month = 1]
               z == IF y + 1 = 100 THEN 0 ELSE y + 1
    <3>1. g \in TimeType /\ Same(a, g, {"month"})
      BY <2>0, <2>1, Set_month
    <3>2. NextMonth(a) = NextYear(g) /\ g.year = y
      BY <2>2, <2>4, <3>1 DEF NextMonth, Same
    <3> HIDE DEF g
    <3>3. NextYear(g) = [g EXCEPT !.year = z] /\ z \in 0 .. 99
      BY <3>2 DEF NextYear
    <3> HIDE DEF z
    <3>4. [g EXCEPT !.year = z] \in TimeType
      BY <3>1, <3>3, Set_year
    <3> QED BY <2>2, <3>2, <3>3, <3>4
  <2> QED BY <2>3, <2>4
<1> QED BY <1>2, <1>3

LEMMA NextHourIn ==
    ASSUME NEW c \in TimeType
    PROVE  NextHour(c) \in TimeType
<1>1. PICK h \in 0 .. 23, w \in 0 .. 7 : h = c.hours /\ w = c.dow
  BY ClockFields
<1>2. CASE h # 23
  <2>1. h + 1 \in 0 .. 23 /\ NextHour(c) = [c EXCEPT !.hours = h + 1]
    BY <1>1, <1>2 DEF NextHour
  <2> QED BY <2>1, Set_hours
<1>3. CASE h = 23
  <2> DEFINE e == [c EXCEPT !.hours = 0]
             v == IF w + 1 > 7 THEN 1 ELSE w + 1
             f == [e EXCEPT !.dow = v]
  <2>1. 0 \in 0 .. 23 /\ v \in 0 .. 7
    OBVIOUS
  <2>2. e \in TimeType /\ Same(c, e, {"hours"})
    BY <2>1, Set_hours
  <2>3. NextHour(c) = NextDay(NextWeekday(e)) /\ e.dow = w
    BY <1>1, <1>3, <2>2 DEF NextHour, Same
  <2> HIDE DEF e
  <2>4. NextWeekday(e) = f
    BY <2>3 DEF NextWeekday
  <2> HIDE DEF v
  <2>5. f \in TimeType
    BY <2>1, <2>2, Set_dow
  <2> HIDE DEF f
  <2> QED BY <2>3, <2>4, <2>5, NextDayIn
<1> QED BY <1>2, <1>3

LEMMA NextSecondIn ==
    ASSUME NEW c \in TimeType
    PROVE  NextSecond(c) \in TimeType
<1>1. PICK m \in 0 .. 59, s \in 0 .. 59 : m = c.minutes /\ s = c.seconds
  BY ClockFields
<1>2. CASE s # 59
  <2>1. s + 1 \in 0 .. 59 /\ NextSecond(c) = [c EXCEPT !.seconds = s + 1]
    BY <1>1, <1>2 DEF NextSecond
  <2> QED BY <2>1, Set_seconds
<1>3. CASE s = 59
  <2> DEFINE a == [c EXCEPT !.seconds = 0]
             b == [a EXCEPT !.minutes = 0]
  <2>0. 0 \in 0 .. 59
    OBVIOUS
  <2>1. a \in TimeType /\ Same(c, a, {"seconds"})
    BY <2>0, Set_seconds
  <2>2. NextSecond(c) = NextMinute(a) /\ a.minutes = m
    <3>1. ~ (c.seconds + 1 < 60) /\ c.minutes = m
      BY <1>1, <1>3
    <3> QED BY <2>1, <3>1 DEF NextSecond, Same
  <2> HIDE DEF a
  <2>3. CASE m # 59
    <3>1. m + 1 \in 0 .. 59 /\ NextMinute(a) = [a EXCEPT !.minutes = m + 1]
      BY <2>2, <2>3 DEF NextMinute
    <3>2. [a EXCEPT !.minutes = m + 1] \in TimeType
      BY <2>1, <3>1, Set_minutes
    <3> QED BY <2>2, <3>1, <3>2
  <2>4. CASE m = 59
    <3>1. NextMinute(a) = NextHour(b)
      BY <2>2, <2>4 DEF NextMinute
    <3>2. b \in TimeType
      BY <2>0, <2>1, Set_minutes
    <3> HIDE DEF b
    <3> QED BY <2>2, <3>1, <3>2, NextHourIn
  <2> QED BY <2>3, <2>4
<1> QED BY <1>2, <1>3

LEMMA SteppedIn ==
    ASSUME RtcAssumption, NEW c \in TimeType, NEW n \in 1 .. ClocksPerSecond
    PROVE  Stepped(c, n) \in TimeType
<1>0. ClocksPerSecond \in Nat \ {0} /\ c.clocks \in 0 .. ClocksPerSecond - 1
  BY ClockFields DEF RtcAssumption
<1>1. CASE c.clocks + n < ClocksPerSecond
  <2>1. c.clocks + n \in 0 .. ClocksPerSecond - 1
    BY <1>0, <1>1
  <2>2. Stepped(c, n) = [c EXCEPT !.clocks = c.clocks + n]
    BY <1>1 DEF Stepped
  <2> QED BY <2>1, <2>2, Set_clocks
<1>2. CASE ~ (c.clocks + n < ClocksPerSecond)
  <2> DEFINE v == c.clocks + n - ClocksPerSecond
             b == [c EXCEPT !.clocks = v]
  <2>1. v \in 0 .. ClocksPerSecond - 1
    BY <1>0, <1>2
  <2>2. Stepped(c, n) = NextSecond(b)
    BY <1>2 DEF Stepped
  <2> HIDE DEF v
  <2>3. b \in TimeType
    BY <2>1, Set_clocks
  <2> HIDE DEF b
  <2> QED BY <2>2, <2>3, NextSecondIn
<1> QED BY <1>1, <1>2

\* What rtc_write leaves, when the value is in the register's range.
LEMMA WrittenIn ==
    ASSUME NEW c \in TimeType, NEW r \in Nat, NEW v \in 0 .. 255, InRange(r, v)
    PROVE  Written(c, r, v) \in TimeType
<1>1. CASE r = 0
  <2> DEFINE b == Bit(v, 128)
             s == UNBCD(v % 128)
  <2>1. b \in BOOLEAN /\ s \in 0 .. 59
    BY <1>1 DEF InRange, Bit
  <2>2. Written(c, r, v) = [c EXCEPT !.running = b, !.seconds = s]
    BY <1>1 DEF Written
  <2> HIDE DEF b, s
  <2>3. [c EXCEPT !.running = b, !.seconds = s] \in TimeType
    BY <2>1, ClockFields, ZenonT(60) DEF TimeType
  <2> QED BY <2>2, <2>3
<1>2. CASE r = 1
  <2>1. UNBCD(v) \in 0 .. 59 /\ Written(c, r, v) = [c EXCEPT !.minutes = UNBCD(v)]
    BY <1>2 DEF InRange, Written
  <2> QED BY <2>1, Set_minutes
<1>3. CASE r = 2
  <2> DEFINE b == ~ Bit(v, 64)
             s == WrittenHours(v)
  <2>1. b \in BOOLEAN /\ s \in 0 .. 23
    BY <1>3 DEF InRange, Bit
  <2>2. Written(c, r, v) = [c EXCEPT !.h24 = b, !.hours = s]
    BY <1>3 DEF Written
  <2> HIDE DEF b, s
  <2>3. [c EXCEPT !.h24 = b, !.hours = s] \in TimeType
    BY <2>1, ClockFields DEF TimeType
  <2> QED BY <2>2, <2>3
<1>4. CASE r = 3
  <2> DEFINE b == Bit(v, 32)
             s == v % 8
  <2>1. b \in BOOLEAN /\ s \in 0 .. 7
    BY DEF Bit
  <2>2. Written(c, r, v) = [c EXCEPT !.dow = s, !.vbaten = b]
    BY <1>4 DEF Written
  <2> HIDE DEF b, s
  <2>3. [c EXCEPT !.dow = s, !.vbaten = b] \in TimeType
    BY <2>1, ClockFields DEF TimeType
  <2> QED BY <2>2, <2>3
<1>5. CASE r = 4
  <2>1. UNBCD(v) \in 1 .. 31 /\ Written(c, r, v) = [c EXCEPT !.day = UNBCD(v)]
    BY <1>5 DEF InRange, Written
  <2> QED BY <2>1, Set_day
<1>6. CASE r = 5
  <2>1. UNBCD(v) \in 1 .. 12 /\ Written(c, r, v) = [c EXCEPT !.month = UNBCD(v)]
    BY <1>6 DEF InRange, Written
  <2> QED BY <2>1, Set_month
<1>7. CASE r = 6
  <2>1. UNBCD(v) \in 0 .. 99 /\ Written(c, r, v) = [c EXCEPT !.year = UNBCD(v)]
    BY <1>7 DEF InRange, Written
  <2> QED BY <2>1, Set_year
<1>8. CASE r \notin 0 .. 6
  <2>1. Written(c, r, v) = c
    BY <1>8 DEF Written
  <2> QED BY <2>1
<1> QED BY <1>1, <1>2, <1>3, <1>4, <1>5, <1>6, <1>7, <1>8
-----------------------------------------------------------------------------
(* What a register reads, written back. *)

LEMMA SameAgain ==
    ASSUME NEW c \in TimeType
    PROVE  /\ [c EXCEPT !.running = c.running, !.seconds = c.seconds] = c
           /\ [c EXCEPT !.minutes = c.minutes] = c
           /\ [c EXCEPT !.h24 = c.h24, !.hours = c.hours] = c
           /\ [c EXCEPT !.day = c.day] = c
           /\ [c EXCEPT !.year = c.year] = c
BY DEF TimeType

\* The hours register in its three forms.
LEMMA HoursRound ==
    ASSUME NEW c \in TimeType
    PROVE  WrittenHours(ReadHours(c)) = c.hours /\ (~ Bit(ReadHours(c), 64)) = c.h24
<1>1. PICK h \in 0 .. 23 : h = c.hours
  BY ClockFields
<1>2. CASE c.h24
  <2>1. ReadHours(c) = BCD(h)
    <3>1. ReadHours(c) = BCD(h) + 0 + 0
      BY <1>1, <1>2 DEF ReadHours, If
    <3>2. BCD(h) \in Nat
      BY BcdRound
    <3> QED BY <3>1, <3>2
  <2>2. PICK v \in 0 .. 63 : v = BCD(h) /\ UNBCD(v) = h
    <3>1. h \in 0 .. 99 /\ h <= 23
      OBVIOUS
    <3>2. BCD(h) \in Nat /\ BCD(h) <= 35 /\ UNBCD(BCD(h)) = h
      BY <3>1, BcdRound
    <3>3. BCD(h) \in 0 .. 63
      BY <3>2
    <3> QED BY <3>2, <3>3
  <2>3. v % 64 = v /\ ~ Bit(v, 64)
    BY Flagged
  <2>4. WrittenHours(v) = h
    BY <2>2, <2>3 DEF WrittenHours
  <2> QED BY <1>1, <1>2, <2>1, <2>2, <2>3, <2>4
<1>3. CASE ~ c.h24
  <2>1. PICK q \in 0 .. 1, s \in 0 .. 11 : h = 12 * q + s /\ h % 12 = s
    <3>1. CASE h < 12
      <4>1. h % 12 = h
        BY <3>1
      <4> QED BY <3>1, <4>1
    <3>2. CASE h >= 12
      <4>1. h % 12 = h - 12
        BY <3>2
      <4> QED BY <3>2, <4>1
    <3> QED BY <3>1, <3>2
  <2> DEFINE k == IF s = 0 THEN 12 ELSE s
  <2>2. k \in 1 .. 12 /\ k = IF h % 12 = 0 THEN 12 ELSE h % 12
    BY <2>1
  <2>3. PICK v \in 0 .. 31 : v = BCD(k) /\ UNBCD(v) = k
    BY <2>2, BcdRound
  <2> HIDE DEF k
  <2>4. h >= 12 <=> q = 1
    BY <2>1
  <2>5. ReadHours(c) = v + (IF q = 1 THEN 32 ELSE 0) + 64
    <3>1. ReadHours(c) = BCD(k) + (IF h >= 12 THEN 32 ELSE 0) + 64
      BY <1>1, <1>3, <2>2 DEF ReadHours, If
    <3> QED BY <2>3, <2>4, <3>1
  <2> DEFINE z == v + (IF q = 1 THEN 32 ELSE 0)
             w == z + 64
  <2>6. z \in 0 .. 63 /\ z \in Nat /\ w \in Nat
    OBVIOUS
  <2>7. Bit(w, 64)
    BY <2>6, Flagged
  <2>8. w % 32 = v /\ w \div 32 = 2 + q
    <3>1. w = 32 * (2 + q) + v /\ 2 + q \in Nat /\ 32 \in Nat \ {0} /\ v \in 0 .. 32 - 1
      OBVIOUS
    <3> HIDE DEF w
    <3> QED BY <2>6, <3>1, DivUnique
  <2>9. ReadHours(c) = w
    BY <2>5
  <2> HIDE DEF z, w
  <2>10. Bit(w, 32) <=> q = 1
    <3>1. (2 + q) % 2 = q
      OBVIOUS
    <3> QED BY <2>8, <3>1 DEF Bit
  <2>11. WrittenHours(w) = (IF k = 12 THEN 0 ELSE k) + (IF q = 1 THEN 12 ELSE 0)
    BY <2>3, <2>7, <2>8, <2>10 DEF WrittenHours, If
  <2>12. WrittenHours(w) = h
    BY <2>1, <2>11 DEF k
  <2>13. (~ Bit(w, 64)) = c.h24
    <3>1. c.h24 = FALSE
      BY <1>3, ClockFields
    <3>2. (~ Bit(w, 64)) = FALSE
      BY <2>7
    <3> QED BY <3>1, <3>2
  <2> QED BY <1>1, <2>9, <2>12, <2>13
<1> QED BY <1>2, <1>3

\* A value that holds a register's fields changes nothing.
LEMMA WritesBack ==
    ASSUME NEW c \in TimeType, NEW v
    PROVE  /\ Bit(v, 128) = c.running /\ UNBCD(v % 128) = c.seconds => Written(c, 0, v) = c
           /\ UNBCD(v) = c.minutes => Written(c, 1, v) = c
           /\ (~ Bit(v, 64)) = c.h24 /\ WrittenHours(v) = c.hours => Written(c, 2, v) = c
           /\ UNBCD(v) = c.day => Written(c, 4, v) = c
           /\ UNBCD(v) = c.year => Written(c, 6, v) = c
<1>1. Written(c, 0, v) = [c EXCEPT !.running = Bit(v, 128), !.seconds = UNBCD(v % 128)]
  BY DEF Written
<1>2. Written(c, 1, v) = [c EXCEPT !.minutes = UNBCD(v)]
  BY DEF Written
<1>3. Written(c, 2, v) = [c EXCEPT !.h24 = ~Bit(v, 64), !.hours = WrittenHours(v)]
  BY DEF Written
<1>4. Written(c, 4, v) = [c EXCEPT !.day = UNBCD(v)]
  BY DEF Written
<1>5. Written(c, 6, v) = [c EXCEPT !.year = UNBCD(v)]
  BY DEF Written
<1>6. Bit(v, 128) = c.running /\ UNBCD(v % 128) = c.seconds => Written(c, 0, v) = c
  BY <1>1, SameAgain, Zenon
<1>7. UNBCD(v) = c.minutes => Written(c, 1, v) = c
  BY <1>2, SameAgain, Zenon
<1>8. (~ Bit(v, 64)) = c.h24 /\ WrittenHours(v) = c.hours => Written(c, 2, v) = c
  BY <1>3, SameAgain, Zenon
<1>9. UNBCD(v) = c.day => Written(c, 4, v) = c
  BY <1>4, SameAgain, Zenon
<1>10. UNBCD(v) = c.year => Written(c, 6, v) = c
  BY <1>5, SameAgain, Zenon
<1> QED BY <1>6, <1>7, <1>8, <1>9, <1>10

LEMMA ReadFrom ==
    ASSUME RtcAssumption, NEW c, NEW n, NEW r
    PROVE  /\ r = 0 => RtcRead(c, n, r) = BCD(c.seconds) + If(c.running, 128)
           /\ r = 1 => RtcRead(c, n, r) = BCD(c.minutes)
           /\ r = 2 => RtcRead(c, n, r) = ReadHours(c)
           /\ r = 4 => RtcRead(c, n, r) = BCD(c.day)
           /\ r = 6 => RtcRead(c, n, r) = BCD(c.year)
<1>0. r \in 0 .. 6 => r \notin NvCells /\ ~ (r >= 96)
  BY DEF RtcAssumption
<1>1. r = 0 => RtcRead(c, n, r) = BCD(c.seconds) + If(c.running, 128)
  BY <1>0 DEF RtcRead
<1>2. r = 1 => RtcRead(c, n, r) = BCD(c.minutes)
  BY <1>0 DEF RtcRead
<1>3. r = 2 => RtcRead(c, n, r) = ReadHours(c)
  BY <1>0 DEF RtcRead
<1>4. r = 4 => RtcRead(c, n, r) = BCD(c.day)
  BY <1>0 DEF RtcRead
<1>5. r = 6 => RtcRead(c, n, r) = BCD(c.year)
  BY <1>0 DEF RtcRead
<1> QED BY <1>1, <1>2, <1>3, <1>4, <1>5

LEMMA RoundTrips ==
    ASSUME RtcAssumption, t \in TimeType
    PROVE  TimeRoundTrips
<1>1. Written(t, 0, RtcRead(t, nvram, 0)) = t
  <2>1. PICK s \in 0 .. 59 : s = t.seconds
    BY ClockFields
  <2>2. PICK v \in 0 .. 127 : v = BCD(s) /\ UNBCD(v) = s
    <3>1. s \in 0 .. 99 /\ s <= 59
      OBVIOUS
    <3>2. BCD(s) \in Nat /\ BCD(s) <= 89 /\ UNBCD(BCD(s)) = s
      BY <3>1, BcdRound
    <3>3. BCD(s) \in 0 .. 127
      BY <3>2
    <3> QED BY <3>2, <3>3
  <2>3. v % 128 = v /\ (v + 128) % 128 = v /\ ~ Bit(v, 128) /\ Bit(v + 128, 128)
    BY Flagged
  <2>4. RtcRead(t, nvram, 0) = IF t.running THEN v + 128 ELSE v
    BY <2>1, <2>2, ReadFrom DEF If
  <2> DEFINE b == RtcRead(t, nvram, 0)
  <2>5. UNBCD(b % 128) = t.seconds
    BY <2>1, <2>2, <2>3, <2>4
  <2>6. Bit(b, 128) = t.running
    <3>1. t.running \in BOOLEAN
      BY ClockFields
    <3>2. CASE t.running
      BY <2>3, <2>4, <3>1, <3>2
    <3>3. CASE ~ t.running
      <4>1. ~ Bit(b, 128)
        BY <2>3, <2>4, <3>3
      <4>2. Bit(b, 128) \in BOOLEAN
        BY DEF Bit
      <4> QED BY <3>1, <3>3, <4>1, <4>2
    <3> QED BY <3>2, <3>3
  <2> HIDE DEF b
  <2>7. Written(t, 0, b) = t
    BY <2>5, <2>6, WritesBack
  <2> QED BY <2>1, <2>7 DEF b
<1>2. Written(t, 1, RtcRead(t, nvram, 1)) = t
  <2>1. UNBCD(BCD(t.minutes)) = t.minutes
    <3>1. t.minutes \in 0 .. 99
      BY ClockFields
    <3> QED BY <3>1, BcdRound
  <2>2. Written(t, 1, RtcRead(t, nvram, 1)) = t
    BY <2>1, WritesBack, ReadFrom
  <2> QED BY <2>1, <2>2
<1>3. Written(t, 2, RtcRead(t, nvram, 2)) = t
  <2>1. RtcRead(t, nvram, 2) = ReadHours(t)
    BY ReadFrom
  <2>2. WrittenHours(ReadHours(t)) = t.hours /\ (~ Bit(ReadHours(t), 64)) = t.h24
    BY HoursRound
  <2>3. Written(t, 2, ReadHours(t)) = t
    BY <2>2, WritesBack
  <2> QED BY <2>1, <2>3
<1>4. Written(t, 4, RtcRead(t, nvram, 4)) = t
  <2>1. UNBCD(BCD(t.day)) = t.day
    <3>1. t.day \in 0 .. 99
      BY ClockFields
    <3> QED BY <3>1, BcdRound
  <2>2. Written(t, 4, RtcRead(t, nvram, 4)) = t
    BY <2>1, WritesBack, ReadFrom
  <2> QED BY <2>1, <2>2
<1>5. Written(t, 6, RtcRead(t, nvram, 6)) = t
  <2>1. UNBCD(BCD(t.year)) = t.year
    <3>1. t.year \in 0 .. 99
      BY ClockFields
    <3> QED BY <3>1, BcdRound
  <2>2. Written(t, 6, RtcRead(t, nvram, 6)) = t
    BY <2>1, WritesBack, ReadFrom
  <2> QED BY <2>1, <2>2
<1> QED BY <1>1, <1>2, <1>3, <1>4, <1>5 DEF TimeRoundTrips
-----------------------------------------------------------------------------
(* What the calendar shows. *)

SecondsOf(s, n) == (s.clocks + n) \div ClocksPerSecond
MidnightsOf(s, n) == (SecondOfDay(s) + SecondsOf(s, n)) \div 86400

\* c is what a clock that started at s shows n clocks later.
Shows(c, s, n) ==
    /\ Dated(c) /\ c.clocks = (s.clocks + n) % ClocksPerSecond
    /\ DayNumber(c) = (DayNumber(s) + MidnightsOf(s, n)) % 36525
    /\ SecondOfDay(c) = (SecondOfDay(s) + SecondsOf(s, n)) % 86400
    /\ c.dow = ((s.dow - 1 + MidnightsOf(s, n)) % 7) + 1

LEMMA SecondIn ==
    ASSUME NEW c \in TimeType
    PROVE  SecondOfDay(c) \in Nat /\ SecondOfDay(c) <= 86399
<1>1. PICK h \in 0 .. 23, m \in 0 .. 59, s \in 0 .. 59 : h = c.hours /\ m = c.minutes /\ s = c.seconds
  BY ClockFields
<1>2. SecondOfDay(c) = 3600 * h + 60 * m + s
  BY <1>1 DEF SecondOfDay
<1> QED BY <1>2

LEMMA Below ==
    ASSUME NEW a \in Nat, NEW b \in Nat \ {0}, a < b
    PROVE  a % b = a /\ a \div b = 0
<1>1. a = b * 0 + a /\ a \in 0 .. b - 1
  OBVIOUS
<1> QED BY <1>1, DivUnique

LEMMA ShowsStart ==
    ASSUME RtcAssumption, NEW s \in TimeType, Dated(s), s.dow >= 1
    PROVE  Shows(s, s, 0)
<1>0. ClocksPerSecond \in Nat \ {0}
  BY DEF RtcAssumption
<1>1. PICK k \in Nat, d \in Nat, z \in Nat, w \in 1 .. 7 :
         k = s.clocks /\ d = DayNumber(s) /\ z = SecondOfDay(s) /\ w = s.dow
         /\ k < ClocksPerSecond /\ d <= 36524 /\ z <= 86399
  <2>1. s.clocks \in Nat /\ s.clocks < ClocksPerSecond
    BY <1>0, ClockFields
  <2>2. s.dow \in 1 .. 7
    BY ClockFields
  <2>3. DayNumber(s) \in Nat /\ DayNumber(s) <= 36524
    BY DayRange
  <2>4. SecondOfDay(s) \in Nat /\ SecondOfDay(s) <= 86399
    BY SecondIn
  <2> QED BY <2>1, <2>2, <2>3, <2>4
<1>2. (k + 0) % ClocksPerSecond = k /\ SecondsOf(s, 0) = 0
  <2>1. k % ClocksPerSecond = k /\ k \div ClocksPerSecond = 0
    BY <1>0, <1>1, Below
  <2>2. k + 0 = k
    OBVIOUS
  <2> QED BY <1>1, <2>1, <2>2 DEF SecondsOf
<1>3. (z + 0) % 86400 = z /\ MidnightsOf(s, 0) = 0
  <2>1. z % 86400 = z /\ z \div 86400 = 0
    BY <1>1
  <2>2. z + 0 = z
    OBVIOUS
  <2> QED BY <1>1, <1>2, <2>1, <2>2 DEF MidnightsOf
<1>4. (d + 0) % 36525 = d /\ ((w - 1 + 0) % 7) + 1 = w
  BY <1>1
<1> QED BY <1>1, <1>2, <1>3, <1>4 DEF Shows

LEMMA ShowsOn ==
    ASSUME RtcAssumption, NEW s \in TimeType, Dated(s), s.dow >= 1, NEW c \in TimeType,
           NEW n \in Nat, Shows(c, s, n), NEW i \in 1 .. ClocksPerSecond
    PROVE  Shows(Stepped(c, i), s, n + i)
<1> DEFINE d == Stepped(c, i)
<1>0. ClocksPerSecond \in Nat \ {0} /\ Dated(c)
  BY DEF RtcAssumption, Shows
<1>1. PICK k \in Nat, day \in Nat, z \in Nat, w \in 1 .. 7 :
         k = s.clocks /\ day = DayNumber(s) /\ z = SecondOfDay(s) /\ w = s.dow
  <2>1. s.clocks \in Nat
    BY <1>0, ClockFields
  <2>2. s.dow \in 1 .. 7
    BY ClockFields
  <2>3. DayNumber(s) \in Nat
    BY DayRange
  <2>4. SecondOfDay(s) \in Nat
    BY SecondIn
  <2> QED BY <2>1, <2>2, <2>3, <2>4
<1>2. PICK e \in Nat, f \in 0 .. ClocksPerSecond - 1 :
         e = (k + n) \div ClocksPerSecond /\ f = (k + n) % ClocksPerSecond
         /\ k + n = ClocksPerSecond * e + f
  <2>1. k + n \in Nat /\ ClocksPerSecond \in Nat \ {0}
    BY <1>0
  <2> HIDE DEF d
  <2> QED BY <2>1, DivMod
<1>3. PICK m \in Nat : m = (z + e) \div 86400
  <2>1. z + e \in Nat /\ 86400 \in Nat \ {0}
    OBVIOUS
  <2> QED BY <2>1, DivMod
<1>4. e = SecondsOf(s, n) /\ m = MidnightsOf(s, n)
  BY <1>1, <1>2, <1>3 DEF SecondsOf, MidnightsOf
<1>5. /\ c.clocks = f /\ DayNumber(c) = (day + m) % 36525 /\ SecondOfDay(c) = (z + e) % 86400
      /\ c.dow = ((w - 1 + m) % 7) + 1
  BY <1>1, <1>2, <1>4 DEF Shows
<1>6. /\ d \in TimeType
      /\ \/ /\ f + i < ClocksPerSecond
            /\ d.clocks = f + i
            /\ Same(c, d, {"clocks"})
         \/ /\ f + i >= ClocksPerSecond
            /\ d.clocks = f + i - ClocksPerSecond
            /\ \E b : SecondOn(b, d) /\ Same(c, b, {"clocks"}) /\ b \in TimeType
  BY <1>0, <1>5, SteppedCounts
<1> HIDE DEF d
<1>7. CASE f + i < ClocksPerSecond
  <2>1. d.clocks = f + i /\ Same(c, d, {"clocks"})
    <3>1. ~ (f + i >= ClocksPerSecond)
      BY <1>0, <1>7
    <3> QED BY <1>6, <3>1, Zenon
  <2>2. d.hours = c.hours /\ d.minutes = c.minutes /\ d.seconds = c.seconds /\ d.day = c.day
        /\ d.month = c.month /\ d.year = c.year /\ d.dow = c.dow
    BY <2>1 DEF Same
  <2>3. Dated(d) /\ DayNumber(d) = DayNumber(c) /\ SecondOfDay(d) = SecondOfDay(c)
    BY <1>0, <2>2, SameDate DEF SecondOfDay
  <2>4. (k + (n + i)) \div ClocksPerSecond = e /\ (k + (n + i)) % ClocksPerSecond = f + i
    <3>1. k + (n + i) = ClocksPerSecond * e + (f + i) /\ f + i \in 0 .. ClocksPerSecond - 1
          /\ k + (n + i) \in Nat
      <4>1. PICK p \in Int : p = ClocksPerSecond * e
        BY <1>0
      <4>2. k + n = p + f
        BY <1>2, <4>1
      <4>3. k + (n + i) = p + (f + i) /\ f + i \in 0 .. ClocksPerSecond - 1 /\ k + (n + i) \in Nat
        BY <1>0, <1>7, <4>2
      <4> QED BY <4>1, <4>3
    <3> QED BY <1>0, <3>1, DivUnique
  <2>5. SecondsOf(s, n + i) = e /\ MidnightsOf(s, n + i) = m
    BY <1>1, <1>3, <2>4 DEF SecondsOf, MidnightsOf
  <2> QED BY <1>1, <1>5, <2>1, <2>2, <2>3, <2>4, <2>5 DEF Shows, d
<1>8. CASE ~ (f + i < ClocksPerSecond)
  <2>1. PICK b \in TimeType : SecondOn(b, d) /\ Same(c, b, {"clocks"})
    BY <1>6, <1>8
  <2>2. d.clocks = f + i - ClocksPerSecond
    BY <1>6, <1>8
  <2>3. b.hours = c.hours /\ b.minutes = c.minutes /\ b.seconds = c.seconds /\ b.day = c.day
        /\ b.month = c.month /\ b.year = c.year /\ b.dow = c.dow
    BY <2>1 DEF Same
  <2>4. DayNumber(b) = DayNumber(c) /\ SecondOfDay(b) = SecondOfDay(c)
    BY <2>3, SameDate DEF SecondOfDay
  <2>5. (k + (n + i)) \div ClocksPerSecond = e + 1
        /\ (k + (n + i)) % ClocksPerSecond = f + i - ClocksPerSecond
    <3>1. k + (n + i) = ClocksPerSecond * (e + 1) + (f + i - ClocksPerSecond)
          /\ f + i - ClocksPerSecond \in 0 .. ClocksPerSecond - 1
          /\ k + (n + i) \in Nat /\ e + 1 \in Nat
      BY <1>0, <1>2, <1>8
    <3> QED BY <1>0, <3>1, DivUnique
  <2>6. SecondsOf(s, n + i) = e + 1
    BY <1>1, <2>5 DEF SecondsOf
  <2>7. MidnightsOf(s, n + i) = (z + e + 1) \div 86400
    <3>1. z + (e + 1) = z + e + 1
      OBVIOUS
    <3> QED BY <1>1, <2>6, <3>1 DEF MidnightsOf
  <2>8. IF (z + e) % 86400 = 86399
        THEN (z + e + 1) % 86400 = 0 /\ (z + e + 1) \div 86400 = m + 1
        ELSE (z + e + 1) % 86400 = ((z + e) % 86400) + 1 /\ (z + e + 1) \div 86400 = m
    <3>1. z + e \in Nat /\ 86400 \in Nat \ {0} /\ 86400 - 1 = 86399
      OBVIOUS
    <3> HIDE DEF d
    <3> QED BY <1>3, <3>1, ModNext
  <2>9. /\ d \in TimeType /\ Dated(d)
        /\ IF SecondOfDay(b) = 86399
           THEN SecondOfDay(d) = 0 /\ DayNumber(d) = DayAfter(DayNumber(b)) /\ d.dow = NextDow(b.dow)
           ELSE SecondOfDay(d) = SecondOfDay(b) + 1 /\ DayNumber(d) = DayNumber(b) /\ d.dow = b.dow
    BY <2>1 DEF SecondOn
  <2>10. z + (e + 1) = z + e + 1
    OBVIOUS
  <2>11. CASE (z + e) % 86400 = 86399
    <3>1. SecondOfDay(d) = (z + (e + 1)) % 86400
      BY <1>5, <2>4, <2>8, <2>9, <2>10, <2>11
    <3>2. MidnightsOf(s, n + i) = m + 1
      BY <2>7, <2>8, <2>11
    <3>3. DayNumber(d) = (day + (m + 1)) % 36525
      <4>1. DayNumber(d) = DayAfter((day + m) % 36525)
        BY <1>5, <2>4, <2>9, <2>11
      <4>2. day + m \in Nat /\ 36525 \in Nat \ {0} /\ 36525 - 1 = 36524
            /\ day + (m + 1) = (day + m) + 1
        OBVIOUS
      <4>3. IF (day + m) % 36525 = 36525 - 1
            THEN (day + m + 1) % 36525 = 0 /\ (day + m + 1) \div 36525 = ((day + m) \div 36525) + 1
            ELSE (day + m + 1) % 36525 = ((day + m) % 36525) + 1
                 /\ (day + m + 1) \div 36525 = (day + m) \div 36525
        BY <4>2, ModNext
      <4>4. (day + m + 1) % 36525 = DayAfter((day + m) % 36525)
        BY <4>2, <4>3 DEF DayAfter
      <4> QED BY <4>1, <4>2, <4>4
    <3>4. d.dow = ((w - 1 + (m + 1)) % 7) + 1
      <4>1. d.dow = NextDow(((w - 1 + m) % 7) + 1)
        BY <1>5, <2>3, <2>4, <2>9, <2>11
      <4>2. PICK j \in Nat : j = w - 1 + m /\ w - 1 + (m + 1) = j + 1
        OBVIOUS
      <4>3. (j + 1) % 7 = IF j % 7 = 6 THEN 0 ELSE (j % 7) + 1
        OBVIOUS
      <4>4. NextDow((j % 7) + 1) = ((j + 1) % 7) + 1
        BY <4>3 DEF NextDow
      <4> QED BY <4>1, <4>2, <4>4
    <3> QED BY <1>1, <2>2, <2>5, <2>6, <2>9, <3>1, <3>2, <3>3, <3>4 DEF Shows, d
  <2>12. CASE (z + e) % 86400 # 86399
    <3>1. SecondOfDay(d) = (z + (e + 1)) % 86400
      BY <1>5, <2>4, <2>8, <2>9, <2>10, <2>12
    <3>2. MidnightsOf(s, n + i) = m
      BY <2>7, <2>8, <2>12
    <3>3. DayNumber(d) = (day + m) % 36525 /\ d.dow = ((w - 1 + m) % 7) + 1
      BY <1>5, <2>3, <2>4, <2>9, <2>12
    <3> QED BY <1>1, <2>2, <2>5, <2>6, <2>9, <3>1, <3>2, <3>3 DEF Shows, d
  <2> QED BY <2>11, <2>12
<1> QED BY <1>7, <1>8
-----------------------------------------------------------------------------
(* The inductive invariant *)

\* A transfer under way has named its register; after one that was cut off, op
\* still names a register of CutAt, and a second byte was a register's name.
NamesKept ==
    IF cut THEN /\ op \in CutAt /\ pos >= 1
                /\ (pos >= 2 => arg \in DOMAIN Guest) /\ (asked # None => pos >= 2)
           ELSE IF asked = None THEN pos = 0 ELSE pos = 1 /\ op = asked

Calendar ==
    /\ start \in TimeType /\ Dated(start) /\ start.dow >= 1 /\ total \in Nat
    /\ (~ set => Shows(t, start, total))

RtcInv ==
    /\ RtcTypeOK /\ cut \in BOOLEAN /\ set \in BOOLEAN /\ ~ stray
    /\ NamesKept /\ Calendar

\* The registers the guest uses, and the values it gives them.
LEMMA GuestUses ==
    ASSUME RtcAssumption
    PROVE  /\ \A r \in DOMAIN Guest : r \in Nat /\ r <= 95 /\ r # None
           /\ \A r \in DOMAIN Guest : \A v \in Guest[r] : v \in 0 .. 255 /\ InRange(r, v)
           /\ \A r \in CutAt : r \in DOMAIN Guest
           /\ \A r \in CutAt : \A q \in DOMAIN Guest : InRange(r, q)
           /\ DataLen \in Nat /\ DataLen >= 2
<1>1. \A r \in DOMAIN Guest : r \in Nat /\ r <= 95 /\ r # None
  <2>1. \A r \in DOMAIN Guest : r \in 0 .. 6 \/ r \in 32 .. 95
    <3>1. \A r \in DOMAIN Guest : r \in (0 .. 6) \cup NvCells
      BY DEF RtcAssumption
    <3>2. \A r \in NvCells : r \in 32 .. 95
      BY DEF RtcAssumption
    <3> QED BY <3>1, <3>2
  <2> QED BY <2>1 DEF None
<1>2. \A r \in DOMAIN Guest : \A v \in Guest[r] : v \in 0 .. 255 /\ InRange(r, v)
  BY DEF RtcAssumption
<1>3. /\ \A r \in CutAt : r \in DOMAIN Guest
      /\ \A r \in CutAt : \A q \in DOMAIN Guest : InRange(r, q)
  BY DEF RtcAssumption
<1>4. DataLen \in Nat /\ DataLen >= 2
  BY DEF RtcAssumption
<1> QED BY <1>1, <1>2, <1>3, <1>4

LEMMA InitRtc ==
    ASSUME RtcAssumption, RtcInit
    PROVE  RtcInv
<1>1. t \in TimeType /\ Dated(t) /\ t.dow >= 1
  <2>1. CASE t = Stopped
    BY <2>1, StoppedIn
  <2>2. CASE \E x \in Starts : t = HostTime(x)
    BY <2>2, HostTimeIn
  <2> QED BY <2>1, <2>2 DEF RtcInit
<1>2. start = t /\ total = 0 /\ set = FALSE /\ cut = FALSE /\ stray = FALSE
      /\ pos = 0 /\ asked = None /\ op = 0 /\ arg = 0
  BY DEF RtcInit
<1>3. RtcTypeOK
  <2>1. nvram.dirty \in BOOLEAN /\ nvram.cell \in [NvCells -> 0 .. 255]
    BY DEF RtcInit
  <2>2. 0 \in 0 .. 255 /\ 0 \in 0 .. DataLen
    BY GuestUses
  <2> QED BY <1>1, <1>2, <2>1, <2>2 DEF RtcTypeOK
<1>4. Calendar
  <2>1. Shows(t, start, total)
    BY <1>1, <1>2, ShowsStart
  <2> QED BY <1>1, <1>2, <2>1 DEF Calendar
<1>5. NamesKept
  BY <1>2 DEF NamesKept
<1> QED BY <1>2, <1>3, <1>4, <1>5 DEF RtcInv

LEMMA StepKeepsRtc ==
    ASSUME RtcAssumption, RtcInv, NEW n \in 1 .. ClocksPerSecond, rtc_step(n)
    PROVE  RtcInv'
<1>1. /\ t' = Stepped(t, n) /\ total' = total + n
      /\ UNCHANGED <<nvram, op, arg, pos, asked, start, set, cut, stray>>
  BY DEF rtc_step
<1>2. t \in TimeType /\ total \in Nat
  BY DEF RtcInv, RtcTypeOK, Calendar
<1>3. t' \in TimeType
  BY <1>1, <1>2, SteppedIn
<1>4. RtcTypeOK'
  BY <1>1, <1>3 DEF RtcInv, RtcTypeOK
<1>5. NamesKept'
  BY <1>1 DEF RtcInv, NamesKept
<1>6. ClocksPerSecond \in Nat /\ total' \in Nat
  BY <1>1, <1>2 DEF RtcAssumption
<1>7. ~ set => Shows(t', start, total')
  <2> SUFFICES ASSUME ~ set PROVE Shows(t', start, total')
    OBVIOUS
  <2>1. start \in TimeType /\ Dated(start) /\ start.dow >= 1 /\ Shows(t, start, total)
    BY DEF RtcInv, Calendar
  <2> QED BY <1>1, <1>2, <2>1, ShowsOn
<1>8. Calendar'
  <2>1. Shows(t', start, total') = Shows(t', start', total')
    BY <1>1
  <2>2. Dated(start') /\ start' \in TimeType /\ start'.dow >= 1
    BY <1>1 DEF RtcInv, Calendar
  <2> QED BY <1>1, <1>6, <1>7, <2>2 DEF Calendar, Shows, Dated
<1> QED BY <1>1, <1>4, <1>5, <1>8 DEF RtcInv

LEMMA NameKeepsRtc ==
    ASSUME RtcAssumption, RtcInv, NEW r \in DOMAIN Guest, NameRegister(r)
    PROVE  RtcInv'
<1>1. /\ asked = None /\ asked' = r
      /\ op' = (IF pos = 0 THEN r ELSE op) /\ arg' = (IF pos = 1 THEN r ELSE arg)
      /\ pos' = (IF pos < DataLen THEN pos + 1 ELSE pos)
      /\ UNCHANGED <<t, nvram, start, total, set, cut, stray>>
  BY DEF NameRegister, rtc_i2c_data
<1>2. pos \in 0 .. DataLen /\ op \in 0 .. 255 /\ arg \in 0 .. 255 /\ r \in 0 .. 255 /\ DataLen \in Nat
      /\ DataLen >= 2 /\ r # None
  BY GuestUses DEF RtcInv, RtcTypeOK
<1>3. RtcTypeOK'
  <2>1. op' \in 0 .. 255 /\ arg' \in 0 .. 255 /\ pos' \in 0 .. DataLen
    BY <1>1, <1>2
  <2> QED BY <1>1, <2>1 DEF RtcInv, RtcTypeOK
<1>4. NamesKept'
  <2>1. CASE cut
    BY <1>1, <1>2, <2>1 DEF RtcInv, NamesKept
  <2>2. CASE ~ cut
    BY <1>1, <1>2, <2>2 DEF RtcInv, NamesKept
  <2> QED BY <2>1, <2>2
<1>5. Calendar'
  BY <1>1 DEF RtcInv, Calendar, Shows, Dated, SecondsOf, MidnightsOf
<1> QED BY <1>1, <1>3, <1>4, <1>5 DEF RtcInv

\* The register and the value of an access, wherever they come from.
LEMMA AccessInRange ==
    ASSUME RtcAssumption, RtcInv, asked # None, NEW v \in Guest[asked]
    PROVE  /\ OpWith(v) \in DOMAIN Guest /\ ArgWith(v) \in 0 .. 255
           /\ InRange(OpWith(v), ArgWith(v)) /\ (~ cut => OpWith(v) = asked)
<1>1. asked \in DOMAIN Guest
  BY DEF RtcInv, RtcTypeOK
<1>2. pos \in Nat
  BY GuestUses DEF RtcInv, RtcTypeOK
<1>3. CASE cut
  <2>1. op \in CutAt /\ pos >= 2 /\ arg \in DOMAIN Guest
    BY <1>3 DEF RtcInv, NamesKept
  <2>2. OpWith(v) = op /\ ArgWith(v) = arg
    BY <1>2, <2>1 DEF OpWith, ArgWith
  <2>3. arg \in 0 .. 255 /\ op \in DOMAIN Guest /\ InRange(op, arg)
    BY <2>1, GuestUses DEF RtcInv, RtcTypeOK
  <2> QED BY <1>3, <2>2, <2>3
<1>4. CASE ~ cut
  <2>1. pos = 1 /\ op = asked
    BY <1>4 DEF RtcInv, NamesKept
  <2>2. OpWith(v) = asked /\ ArgWith(v) = v
    BY <2>1 DEF OpWith, ArgWith
  <2>3. v \in 0 .. 255 /\ InRange(asked, v)
    BY <1>1, GuestUses
  <2> QED BY <1>1, <2>2, <2>3
<1> QED BY <1>3, <1>4

LEMMA WriteKeepsRtc ==
    ASSUME RtcAssumption, RtcInv, NEW v, WriteValue(v)
    PROVE  RtcInv'
<1>0. PICK r, w : r = OpWith(v) /\ w = ArgWith(v)
  OBVIOUS
<1>1. /\ asked # None /\ v \in Guest[asked]
      /\ op' = r /\ arg' = w /\ pos' = 0 /\ t' = Written(t, r, w)
      /\ nvram' = (IF r \in NvCells
                  THEN [dirty |-> TRUE, cell |-> [nvram.cell EXCEPT ![r] = w]]
                  ELSE nvram)
      /\ set' = (set \/ r <= 6)
      /\ start' = (IF set' THEN Stopped ELSE start)
      /\ stray' = (r # asked /\ ~cut) /\ asked' = None /\ cut' = FALSE
      /\ total' = total
  BY <1>0 DEF WriteValue, Accessed
<1>2. /\ r \in DOMAIN Guest /\ w \in 0 .. 255 /\ InRange(r, w) /\ (~ cut => r = asked)
      /\ r \in Nat /\ r <= 95
  BY <1>0, <1>1, AccessInRange, GuestUses
<1>3. t' \in TimeType
  BY <1>1, <1>2, WrittenIn DEF RtcInv, RtcTypeOK
<1>4. RtcTypeOK'
  <2>1. nvram'.dirty \in BOOLEAN /\ nvram'.cell \in [NvCells -> 0 .. 255]
    BY <1>1, <1>2 DEF RtcInv, RtcTypeOK
  <2>2. op' \in 0 .. 255 /\ pos' \in 0 .. DataLen /\ arg' \in 0 .. 255
    BY <1>1, <1>2, GuestUses
  <2> QED BY <1>1, <1>3, <2>1, <2>2 DEF RtcTypeOK
<1>5. ~ stray' /\ cut' \in BOOLEAN /\ set' \in BOOLEAN
  BY <1>1, <1>2 DEF RtcInv
<1>6. NamesKept'
  BY <1>1 DEF NamesKept
<1>7. Calendar'
  <2>1. CASE set'
    <3>1. start' = Stopped /\ total' \in Nat
      BY <1>1, <2>1 DEF RtcInv, Calendar
    <3> QED BY <2>1, <3>1, StoppedIn DEF Calendar, Dated
  <2>2. CASE ~ set'
    <3>1. start' = start /\ ~ set /\ r \notin 0 .. 6 /\ total' = total
      <4>1. ~ (set \/ r <= 6) /\ start' = start /\ total' = total
        BY <1>1, <2>2, Zenon
      <4>2. ~ set /\ r \notin 0 .. 6
        BY <1>2, <4>1
      <4> QED BY <4>1, <4>2
    <3>2. t' = t
      BY <1>1, <3>1 DEF Written
    <3> QED BY <3>1, <3>2 DEF RtcInv, Calendar, Shows, Dated, SecondsOf, MidnightsOf
  <2> QED BY <2>1, <2>2
<1> QED BY <1>4, <1>5, <1>6, <1>7 DEF RtcInv

LEMMA ReadKeepsRtc ==
    ASSUME RtcAssumption, RtcInv, ReadValue
    PROVE  RtcInv'
<1>1. /\ asked # None /\ stray' = (op # asked /\ ~cut) /\ asked' = None /\ cut' = FALSE
      /\ pos' = 0 /\ UNCHANGED <<t, nvram, op, arg, start, total, set>>
  BY DEF ReadValue, Accessed
<1>2. RtcTypeOK'
  BY <1>1, GuestUses DEF RtcInv, RtcTypeOK
<1>3. ~ stray' /\ cut' \in BOOLEAN
  BY <1>1 DEF RtcInv, NamesKept
<1>4. NamesKept'
  BY <1>1 DEF NamesKept
<1>5. Calendar'
  BY <1>1 DEF RtcInv, Calendar, Shows, Dated, SecondsOf, MidnightsOf
<1> QED BY <1>1, <1>2, <1>3, <1>4, <1>5 DEF RtcInv

LEMMA ResetKeepsRtc ==
    ASSUME RtcAssumption, RtcInv, BusReset
    PROVE  RtcInv'
<1>1. /\ asked \in CutAt /\ asked' = None /\ cut' = TRUE
      /\ UNCHANGED <<t, nvram, op, arg, pos, start, total, set, stray>>
  BY DEF BusReset
<1>2. asked # None /\ pos \in Nat
  BY <1>1, GuestUses DEF RtcInv, RtcTypeOK
<1>3. RtcTypeOK'
  BY <1>1 DEF RtcInv, RtcTypeOK
<1>4. NamesKept'
  BY <1>1, <1>2 DEF RtcInv, NamesKept
<1>5. Calendar'
  BY <1>1 DEF RtcInv, Calendar, Shows, Dated, SecondsOf, MidnightsOf
<1> QED BY <1>1, <1>3, <1>4, <1>5 DEF RtcInv

LEMMA RtcInductive ==
    ASSUME RtcAssumption, RtcInv, [RtcNext]_rtcVars
    PROVE  RtcInv'
<1>1. ASSUME NEW n \in 1 .. ClocksPerSecond, rtc_step(n) PROVE RtcInv'
  BY <1>1, StepKeepsRtc
<1>2. ASSUME NEW r \in DOMAIN Guest, NameRegister(r) PROVE RtcInv'
  BY <1>2, NameKeepsRtc
<1>3. ASSUME NEW v, WriteValue(v) PROVE RtcInv'
  BY <1>3, WriteKeepsRtc
<1>4. CASE ReadValue
  BY <1>4, ReadKeepsRtc
<1>5. CASE BusReset
  BY <1>5, ResetKeepsRtc
<1>6. CASE UNCHANGED rtcVars
  BY <1>6 DEF rtcVars, RtcInv, RtcTypeOK, NamesKept, Calendar, Shows, Dated, SecondsOf, MidnightsOf
<1> QED BY <1>1, <1>2, <1>3, <1>4, <1>5, <1>6 DEF RtcNext

LEMMA RtcAlways ==
    ASSUME RtcAssumption
    PROVE  RtcSpec => []RtcInv
<1>1. RtcInit => RtcInv
  BY InitRtc
<1>2. RtcInv /\ [RtcNext]_rtcVars => RtcInv'
  BY RtcInductive
<1> QED BY <1>1, <1>2, PTL DEF RtcSpec

\* Until the guest sets it, the calendar shows the time it started from plus the
\* clocks it was given: rtc_step carries from second to year as a count of days,
\* with leap years and the end of 2099, for every start and every MHZ.
THEOREM CalendarCorrect ==
    ASSUME RtcAssumption
    PROVE  RtcSpec => []CalendarCountsDays
<1>1. RtcInv => CalendarCountsDays
  BY DEF RtcInv, Calendar, Shows, CalendarCountsDays, Elapsed, Midnights, SecondsOf, MidnightsOf
<1> QED BY <1>1, RtcAlways, PTL

\* rtc_read and rtc_write are inverse to each other at the time registers, every
\* field keeps its range, and an access acts on the register its transfer named.
THEOREM RegistersCorrect ==
    ASSUME RtcAssumption
    PROVE  RtcSpec => []RegistersKeep
<1>1. RtcInv => RegistersKeep
  BY RoundTrips DEF RtcInv, RegistersKeep, RtcTypeOK, OwnRegister
<1> QED BY <1>1, RtcAlways, PTL

-----------------------------------------------------------------------------
(* The I2C bus: the inductive invariant *)

Devices == [1 .. Bits - 1 -> 0 .. 1]
CallType == [op : {"address", "select", "write", "read"}, device : Devices, byte : Octet \cup {NoByte}]
DevType == [state : -1 .. Bits, read_mode : BOOLEAN, value : Octet, count : 0 .. 2, device : Devices]
GuestType == [at : {"boot", "rest", "start", "next", "low", "high", "set", "stop"},
              kind : {"none", "address", "write", "read"}, byte : Octet, bit : 0 .. Bits,
              ack : BOOLEAN, more : BOOLEAN]

BusTypes ==
    /\ clk \in 0 .. 1 /\ data \in 0 .. 1 /\ out \in 0 .. 1
    /\ dev \in DevType /\ guest \in GuestType
    /\ log \in Seq(CallType) /\ sent \in Seq(CallType)

\* The transfer's calls go to the device its address named.
ToDevice ==
    /\ dev.read_mode => dev.count >= 1
    /\ dev.count >= 1 => log # <<>> /\ log[1].device = dev.device

\* The lines, and the engine's count of bits, by the guest's phase.
InPhase ==
    /\ guest.at \in {"boot", "rest", "start"} =>
          clk = 1 /\ dev.state = STATE_STOP /\ dev.count = 0 /\ ~ dev.read_mode
    /\ guest.at = "rest" => data = 1
    /\ guest.at = "start" => data = 0 /\ sent = <<>>
    /\ guest.at = "next" => clk = 0 /\ dev.state = 0
    /\ guest.at \in {"low", "set"} => clk = 0 /\ dev.state = guest.bit
    /\ guest.at = "set" => guest.bit >= 1
    /\ guest.at = "high" => clk = 1 /\ dev.state = IF guest.bit = Bits THEN 0 ELSE guest.bit + 1
    /\ guest.at = "stop" => data = 0 /\ ~ dev.read_mode /\ dev.state = clk

MidByte == guest.at \in {"low", "set"} \/ (guest.at = "high" /\ guest.bit < Bits)

\* What the engine expects next is what the guest does.
InStep ==
    MidByte \/ guest.at = "next" =>
      /\ guest.kind \in {"address", "none"} => dev.count = 0 /\ ~ dev.read_mode
      /\ guest.kind = "address" => sent = <<>>
      /\ guest.kind = "write" => ~ dev.read_mode /\ dev.count >= 1
                                 /\ (dev.count = 1 <=> Len(sent) = 1)
      /\ guest.kind = "read" => dev.read_mode /\ guest.ack
      /\ guest.kind \in {"write", "read"} => sent # <<>> /\ sent[1].device = dev.device
      /\ MidByte => guest.kind # "none"
      /\ guest.kind # "address" /\ (guest.kind # "read" \/ dev.state = 0) => log = sent

\* The first n bits of b have been shifted into v.
ShiftedIn(b, v, n) == \A i \in 1 .. n : v[(Bits - n) + i] = b[i]

\* In the middle of a byte: the bits so far are in the engine, or at the guest and
\* the rest still in the engine; and the next is on the line.
BitsInStep ==
    MidByte =>
      /\ guest.kind # "read" => ShiftedIn(guest.byte, dev.value, dev.state)
      /\ guest.kind = "read" /\ dev.state >= 1 =>
            \E f \in Octet : /\ log = Append(sent, Call("read", dev.device, f))
                             /\ ShiftedIn(f, guest.byte, dev.state)
                             /\ \A i \in 1 .. Bits - dev.state : dev.value[i] = f[i + dev.state]
      /\ guest.at = "low" /\ guest.kind # "read" /\ guest.bit < Bits =>
            data = guest.byte[guest.bit + 1]
      /\ guest.at = "low" /\ guest.kind = "read" /\ guest.bit = Bits => data = IF guest.more THEN 0 ELSE 1

\* After the acknowledgement of a byte.
ByteTaken ==
    guest.at = "high" /\ guest.bit = Bits =>
      /\ guest.kind # "none"
      /\ guest.kind = "address" => sent = <<>>
      /\ IF guest.ack THEN log = Append(sent, CallMade) ELSE log = sent /\ guest.kind = "address"
      /\ guest.ack /\ guest.kind = "address" => dev.count = 1 /\ dev.read_mode = ReadBit(guest.byte)
                                                /\ dev.device = DeviceOf(guest.byte)
      /\ guest.kind = "write" => ~ dev.read_mode /\ dev.count = 2
      /\ guest.kind = "read" => guest.ack /\ dev.read_mode = guest.more
      /\ ~ guest.ack \/ (guest.kind = "read" /\ ~ guest.more) => dev.count = 0 /\ ~ dev.read_mode
      /\ guest.kind \in {"write", "read"} => sent # <<>> /\ sent[1].device = dev.device

I2cInv == BusTypes /\ ToDevice /\ InPhase /\ InStep /\ BitsInStep /\ ByteTaken


LEMMA DevFields ==
    ASSUME dev \in DevType
    PROVE  /\ dev.state \in -1 .. Bits /\ dev.read_mode \in BOOLEAN /\ dev.value \in Octet
           /\ dev.count \in 0 .. 2 /\ dev.device \in Devices
BY DEF DevType

LEMMA GuestFields ==
    ASSUME guest \in GuestType
    PROVE  /\ guest.at \in {"boot", "rest", "start", "next", "low", "high", "set", "stop"}
           /\ guest.kind \in {"none", "address", "write", "read"}
           /\ guest.byte \in Octet /\ guest.bit \in 0 .. Bits
           /\ guest.ack \in BOOLEAN /\ guest.more \in BOOLEAN
BY DEF GuestType

LEMMA Widths ==
    ASSUME I2cAssumption
    PROVE  /\ Bits \in Nat /\ Bits >= 2 /\ Zeros \in Octet
           /\ \A v \in Octet, b \in 0 .. 1 : Shifted(v, b) \in Octet
           /\ \A v \in Octet : DeviceOf(v) \in Devices /\ v[1] \in 0 .. 1 /\ v[Bits] \in 0 .. 1
<1>1. Bits \in Nat /\ Bits >= 2
  BY DEF I2cAssumption
<1>2. Zeros \in Octet
  BY DEF Zeros, Octet
<1>3. ASSUME NEW v \in Octet, NEW b \in 0 .. 1 PROVE Shifted(v, b) \in Octet
  <2>1. \A i \in 1 .. Bits : i # Bits => v[i + 1] \in 0 .. 1
    BY <1>1 DEF Octet
  <2> QED BY <2>1 DEF Shifted, Octet
<1>4. ASSUME NEW v \in Octet PROVE DeviceOf(v) \in Devices /\ v[1] \in 0 .. 1 /\ v[Bits] \in 0 .. 1
  BY <1>1 DEF DeviceOf, Octet, Devices
<1> QED BY <1>1, <1>2, <1>3, <1>4

\* What i2c_step does when there is nothing for it in a change of the lines.
LEMMA Quiet ==
    ASSUME NEW c, NEW d, i2c_step(c, d),
           dev.state # STATE_STOP \/ c # 0 \/ d # 0,
           dev.state = STATE_STOP \/ c # 1 \/ clk = 1,
           dev.state # 1 \/ c # 1 \/ d # 1 \/ data # 0
    PROVE  clk' = c /\ data' = d /\ UNCHANGED <<out, dev, log>>
BY DEF i2c_step, Start, Stop

\* When the clock rises in a transfer.
LEMMA Rising ==
    ASSUME NEW d, i2c_step(1, d), clk = 0, dev.state # STATE_STOP,
           dev.state # 1 \/ d # 1 \/ data # 0
    PROVE  clk' = 1 /\ data' = d /\ \E f \in Octet : Clocked(d, f)
BY DEF i2c_step, Start, Stop

\* The engine's new state, by the branch it takes.
LEMMA BitOutDoes ==
    ASSUME I2cAssumption, dev \in DevType, log \in Seq(CallType), NEW f \in Octet, BitOut(f), dev.state \in 0 .. Bits - 1
    PROVE  \E v \in Octet :
             /\ v = (IF dev.state = 0 THEN f ELSE dev.value)
             /\ out' = v[1] /\ dev' \in DevType /\ dev'.state = dev.state + 1 /\ dev'.value = Shifted(v, 0)
             /\ dev'.read_mode = dev.read_mode /\ dev'.count = dev.count /\ dev'.device = dev.device
             /\ log' = (IF dev.state = 0 THEN Append(log, Call("read", dev.device, f)) ELSE log)
             /\ log' \in Seq(CallType) /\ out' \in 0 .. 1
<1> DEFINE v == IF dev.state = 0 THEN f ELSE dev.value
<1>1. v \in Octet
  BY DevFields
<1>2. Shifted(v, 0) \in Octet /\ v[1] \in 0 .. 1
  BY <1>1, Widths
<1>3. /\ out' = v[1] /\ dev' = [dev EXCEPT !.state = dev.state + 1, !.value = Shifted(v, 0)]
      /\ log' = (IF dev.state = 0 THEN Append(log, Call("read", dev.device, f)) ELSE log)
  BY DEF BitOut
<1> HIDE DEF v
<1>4. dev.state + 1 \in -1 .. Bits
  BY Widths
<1>5. Call("read", dev.device, f) \in CallType
  BY DevFields DEF Call, CallType
<1>6. log' \in Seq(CallType)
  BY <1>3, <1>5
<1>7. /\ dev' \in DevType /\ dev'.state = dev.state + 1 /\ dev'.value = Shifted(v, 0)
      /\ dev'.read_mode = dev.read_mode /\ dev'.count = dev.count /\ dev'.device = dev.device
  BY <1>2, <1>3, <1>4 DEF DevType
<1> QED BY <1>1, <1>2, <1>3, <1>6, <1>7 DEF v

LEMMA BitInDoes ==
    ASSUME I2cAssumption, dev \in DevType, NEW d \in 0 .. 1, BitIn(d), dev.state \in 0 .. Bits - 1
    PROVE  /\ out' = 1 /\ dev' \in DevType /\ dev'.state = dev.state + 1 /\ dev'.value = Shifted(dev.value, d)
           /\ dev'.read_mode = dev.read_mode /\ dev'.count = dev.count /\ dev'.device = dev.device
           /\ log' = log
<1>1. Shifted(dev.value, d) \in Octet
  BY DevFields, Widths
<1>2. out' = 1 /\ log' = log /\ dev' = [dev EXCEPT !.state = dev.state + 1, !.value = Shifted(dev.value, d)]
  BY DEF BitIn
<1>3. dev.state + 1 \in -1 .. Bits
  BY Widths
<1> QED BY <1>1, <1>2, <1>3 DEF DevType

LEMMA ReadDoneDoes ==
    ASSUME I2cAssumption, dev \in DevType, NEW d \in 0 .. 1, ReadDone(d)
    PROVE  /\ out' = 1 /\ dev' \in DevType /\ dev'.state = 0 /\ dev'.value = dev.value
           /\ dev'.read_mode = (d # 1 /\ dev.read_mode)
           /\ dev'.count = (IF d = 1 THEN 0 ELSE dev.count) /\ dev'.device = dev.device
           /\ log' = log
<1>1. /\ out' = 1 /\ log' = log
      /\ dev' = [dev EXCEPT !.state = 0, !.count = IF d = 1 THEN 0 ELSE dev.count,
                            !.read_mode = IF d = 1 THEN FALSE ELSE dev.read_mode]
  BY DEF ReadDone, STATE_START
<1>2. 0 \in -1 .. Bits /\ (IF d = 1 THEN 0 ELSE dev.count) \in 0 .. 2
      /\ (IF d = 1 THEN FALSE ELSE dev.read_mode) \in BOOLEAN
  <2>1. 0 \in -1 .. Bits
    BY Widths
  <2>2. (IF d = 1 THEN 0 ELSE dev.count) \in 0 .. 2
    BY DevFields
  <2>3. (IF d = 1 THEN FALSE ELSE dev.read_mode) \in BOOLEAN
    BY DevFields, Zenon
  <2> QED BY <2>1, <2>2, <2>3
<1>3. /\ dev' \in DevType /\ dev'.state = 0 /\ dev'.value = dev.value
      /\ dev'.read_mode = (IF d = 1 THEN FALSE ELSE dev.read_mode)
      /\ dev'.count = (IF d = 1 THEN 0 ELSE dev.count) /\ dev'.device = dev.device
  BY <1>1, <1>2 DEF DevType
<1>4. (IF d = 1 THEN FALSE ELSE dev.read_mode) = (d # 1 /\ dev.read_mode)
  BY DevFields
<1> QED BY <1>1, <1>3, <1>4

\* An address that is refused, one that is answered, and a byte that is given.
LEMMA WriteDoneDoes ==
    ASSUME I2cAssumption, dev \in DevType, log \in Seq(CallType), WriteDone
    PROVE  /\ dev' \in DevType /\ dev'.state = 0 /\ dev'.value = dev.value /\ log' \in Seq(CallType)
           /\ out' \in 0 .. 1
           /\ \/ /\ dev.count = 0 /\ DeviceOf(dev.value) \notin Known
                 /\ out' = 1 /\ dev'.count = 0 /\ ~ dev'.read_mode /\ log' = <<>>
              \/ /\ dev.count = 0 /\ DeviceOf(dev.value) \in Known
                 /\ out' = 0 /\ dev'.count = 1 /\ dev'.device = DeviceOf(dev.value)
                 /\ dev'.read_mode = ReadBit(dev.value)
                 /\ log' = <<Call("address", DeviceOf(dev.value), NoByte)>>
              \/ /\ dev.count # 0
                 /\ out' = 0 /\ dev'.count = 2 /\ dev'.device = dev.device
                 /\ dev'.read_mode = dev.read_mode
                 /\ log' = Append(log, Call(IF dev.count = 1 THEN "select" ELSE "write",
                                            dev.device, dev.value))
<1> DEFINE device == DeviceOf(dev.value)
           denied == dev.count = 0 /\ device \notin Known
           n == IF denied THEN 0 ELSE IF dev.count = 2 THEN 2 ELSE dev.count + 1
           r == IF dev.count = 0 THEN ~denied /\ ReadBit(dev.value) ELSE dev.read_mode
           g == IF dev.count = 0 THEN device ELSE dev.device
<1>1. /\ out' = (IF denied THEN 1 ELSE 0)
      /\ dev' = [dev EXCEPT !.state = 0, !.device = g, !.read_mode = r, !.count = n]
      /\ log' = (IF denied THEN <<>>
                 ELSE IF dev.count = 0 THEN <<Call("address", device, NoByte)>>
                 ELSE Append(log, Call(IF dev.count = 1 THEN "select" ELSE "write",
                                       dev.device, dev.value)))
  BY DEF WriteDone, STATE_START
<1>2. device \in Devices /\ g \in Devices /\ n \in 0 .. 2 /\ r \in BOOLEAN /\ 0 \in -1 .. Bits
  <2>1. device \in Devices /\ dev.device \in Devices /\ dev.read_mode \in BOOLEAN
    BY DevFields, Widths
  <2>2. g \in Devices
    BY <2>1
  <2>3. n \in 0 .. 2
    BY DevFields
  <2>4. r \in BOOLEAN
    <3>1. (~ denied /\ ReadBit(dev.value)) \in BOOLEAN
      BY DEF ReadBit
    <3> QED BY <2>1, <3>1
  <2>5. 0 \in -1 .. Bits
    BY Widths
  <2> QED BY <2>1, <2>2, <2>3, <2>4, <2>5
<1>3. /\ dev' \in DevType /\ dev'.state = 0 /\ dev'.value = dev.value
      /\ dev'.device = g /\ dev'.read_mode = r /\ dev'.count = n
  <2> HIDE DEF g, r, n
  <2> QED BY <1>1, <1>2 DEF DevType
<1>4. Call("address", device, NoByte) \in CallType
      /\ Call(IF dev.count = 1 THEN "select" ELSE "write", dev.device, dev.value) \in CallType
  BY <1>2, DevFields DEF Call, CallType
<1>5. log' \in Seq(CallType)
  <2> HIDE DEF denied
  <2> QED BY <1>1, <1>4
<1>6. CASE denied
  <2>1. n = 0 /\ r = FALSE
    BY <1>6
  <2>2. out' = 1 /\ log' = <<>>
    BY <1>1, <1>6
  <2>3. dev'.count = 0 /\ dev'.read_mode = FALSE
    BY <1>3, <2>1, Zenon
  <2>4. out' \in 0 .. 1
    BY <2>2
  <2> QED BY <1>3, <1>5, <1>6, <2>2, <2>3, <2>4
<1>7. CASE ~ denied /\ dev.count = 0
  <2>1. n = 1 /\ r = ReadBit(dev.value) /\ g = device
    BY <1>7 DEF ReadBit
  <2>2. out' = 0 /\ log' = <<Call("address", device, NoByte)>> /\ device \in Known
    BY <1>1, <1>7
  <2>3. dev'.count = 1 /\ dev'.device = device /\ dev'.read_mode = ReadBit(dev.value)
    BY <1>3, <2>1, Zenon
  <2>4. out' \in 0 .. 1
    BY <2>2
  <2>5. dev'.read_mode = ReadBit(dev.value)
    BY <2>3
  <2> QED BY <1>3, <1>5, <1>7, <2>2, <2>3, <2>4, <2>5, ZenonT(30)
<1>8. CASE ~ denied /\ dev.count # 0
  <2>1. n = 2 /\ r = dev.read_mode /\ g = dev.device
    BY <1>8, DevFields
  <2> QED BY <1>1, <1>3, <1>5, <1>8, <2>1
<1> QED BY <1>6, <1>7, <1>8


-----------------------------------------------------------------------------
(* Every change of the lines makes a step of the byte transfers. *)

EngineTypes ==
    /\ clk \in 0 .. 1 /\ data \in 0 .. 1 /\ out \in 0 .. 1
    /\ dev \in DevType /\ log \in Seq(CallType)

\* A step of the transfers, or none.
Transferred == [Transfers!Next]_(Transfers!vars)

LEMMA TransferNothing ==
    ASSUME dev'.count = dev.count, dev'.read_mode = dev.read_mode, log' = log
    PROVE  Transferred
BY DEF Transferred, Transfers!vars

LEMMA TransferEnds ==
    ASSUME dev'.count = 0, log' = log
    PROVE  Transferred
BY DEF Transferred, Transfers!Next, Transfers!End

LEMMA TransferReads ==
    ASSUME dev \in DevType, ToDevice, dev.read_mode, NEW f \in Octet, dev'.count = dev.count, dev'.read_mode = dev.read_mode,
           log' = Append(log, Call("read", dev.device, f))
    PROVE  Transferred
<1>1. dev.count # 0 /\ log[1].device = dev.device
  BY DevFields DEF ToDevice
<1>2. dev'.count # 0 /\ dev'.read_mode
  BY <1>1
<1>3. Transfers!Ask(f)
  BY <1>1, <1>2 DEF Transfers!Ask, Call
<1> QED BY <1>3 DEF Transferred, Transfers!Next

LEMMA TransferWrites ==
    ASSUME I2cAssumption, dev \in DevType, log \in Seq(CallType), ToDevice, ~ dev.read_mode, WriteDone
    PROVE  Transferred /\ ToDevice'
<1>0. WriteDone
  OBVIOUS
<1>1. \/ /\ dev.count = 0 /\ DeviceOf(dev.value) \notin Known
         /\ out' = 1 /\ dev'.count = 0 /\ ~ dev'.read_mode /\ log' = <<>>
      \/ /\ dev.count = 0 /\ DeviceOf(dev.value) \in Known
         /\ out' = 0 /\ dev'.count = 1 /\ dev'.device = DeviceOf(dev.value)
         /\ dev'.read_mode = ReadBit(dev.value)
         /\ log' = <<Call("address", DeviceOf(dev.value), NoByte)>>
      \/ /\ dev.count # 0
         /\ out' = 0 /\ dev'.count = 2 /\ dev'.device = dev.device
         /\ dev'.read_mode = dev.read_mode
         /\ log' = Append(log, Call(IF dev.count = 1 THEN "select" ELSE "write",
                                    dev.device, dev.value))
  BY WriteDoneDoes
<1>2. CASE dev.count = 0 /\ dev'.count = 0 /\ ~ dev'.read_mode /\ log' = <<>>
  <2>1. Transfers!Refuse
    BY <1>2 DEF Transfers!Refuse
  <2> QED BY <1>2, <2>1 DEF Transferred, Transfers!Next, ToDevice
<1>3. CASE /\ dev.count = 0 /\ DeviceOf(dev.value) \in Known /\ dev'.count = 1
           /\ dev'.device = DeviceOf(dev.value) /\ dev'.read_mode = ReadBit(dev.value)
           /\ log' = <<Call("address", DeviceOf(dev.value), NoByte)>>
  <2>1. PICK g \in Known : g = DeviceOf(dev.value)
    BY <1>3
  <2>2. PICK r \in BOOLEAN : r = ReadBit(dev.value)
    BY DEF ReadBit
  <2>3. Transfers!Address(g, r)
    BY <1>3, <2>1, <2>2 DEF Transfers!Address, Call, NoByte
  <2>4. Transferred
    BY <2>3 DEF Transferred, Transfers!Next
  <2>5. ToDevice'
    BY <1>3 DEF ToDevice, Call
  <2> QED BY <2>4, <2>5
<1>4. CASE /\ dev.count # 0 /\ dev'.count = 2 /\ dev'.device = dev.device /\ dev'.read_mode = dev.read_mode
           /\ log' = Append(log, Call(IF dev.count = 1 THEN "select" ELSE "write",
                                      dev.device, dev.value))
  <2>1. dev.count \in 1 .. 2 /\ dev.value \in Octet
    BY <1>4, DevFields
  <2>2. log # <<>> /\ log[1].device = dev.device
    BY <2>1 DEF ToDevice
  <2>3. Transfers!Give(dev.value)
    BY <1>4, <2>1, <2>2 DEF Transfers!Give, Call
  <2>4. Transferred
    BY <2>1, <2>3 DEF Transferred, Transfers!Next
  <2>5. log'[1] = log[1] /\ log' # <<>>
    BY <1>4, <2>2
  <2>6. ToDevice'
    BY <1>4, <2>2, <2>5 DEF ToDevice
  <2> QED BY <2>4, <2>6
<1> QED BY <1>1, <1>2, <1>3, <1>4

LEMMA EngineStep ==
    ASSUME I2cAssumption, EngineTypes, ToDevice, NEW c \in 0 .. 1, NEW d \in 0 .. 1, i2c_step(c, d)
    PROVE  EngineTypes' /\ ToDevice' /\ Transferred
<1>0. clk' = c /\ data' = d
  BY DEF i2c_step
<1>1. CASE Start(c, d) /\ dev' = [dev EXCEPT !.state = STATE_START] /\ UNCHANGED <<out, log>>
  <2>1. /\ dev' \in DevType /\ dev'.count = dev.count /\ dev'.read_mode = dev.read_mode
        /\ dev'.device = dev.device
    BY <1>1, Widths DEF EngineTypes, DevType, STATE_START
  <2> QED BY <1>0, <1>1, <2>1, TransferNothing DEF EngineTypes, ToDevice
<1>2. CASE /\ dev' = [dev EXCEPT !.state = STATE_STOP, !.count = 0, !.read_mode = FALSE]
           /\ UNCHANGED <<out, log>>
  <2>1. STATE_STOP \in -1 .. Bits /\ 0 \in 0 .. 2 /\ FALSE \in BOOLEAN
    BY Widths DEF STATE_STOP
  <2>2. dev' \in DevType /\ dev'.count = 0 /\ dev'.read_mode = FALSE
    BY <1>2, <2>1 DEF EngineTypes, DevType
  <2> QED BY <1>0, <1>2, <2>2, TransferEnds DEF EngineTypes, ToDevice
<1>3. ASSUME dev.state # STATE_STOP, NEW f \in Octet, Clocked(d, f)
      PROVE  EngineTypes' /\ ToDevice' /\ Transferred
  <2>0. dev.state \in 0 .. Bits /\ dev \in DevType /\ log \in Seq(CallType) /\ Bits \in Nat
    BY <1>3, DevFields, Widths DEF EngineTypes, STATE_STOP
  <2>1. CASE dev.state < Bits /\ dev.read_mode /\ BitOut(f)
    <3>1. dev.state \in 0 .. Bits - 1
      BY <2>0, <2>1
    <3>2. PICK v \in Octet :
             /\ out' = v[1] /\ dev' \in DevType
             /\ dev'.read_mode = dev.read_mode /\ dev'.count = dev.count /\ dev'.device = dev.device
             /\ log' = (IF dev.state = 0 THEN Append(log, Call("read", dev.device, f)) ELSE log)
             /\ log' \in Seq(CallType) /\ out' \in 0 .. 1
      BY <2>0, <2>1, <3>1, BitOutDoes
    <3>3. Transferred
      BY <2>0, <2>1, <3>2, TransferNothing, TransferReads
    <3>4. log # <<>> => log' # <<>> /\ log'[1] = log[1]
      BY <2>0, <3>2
    <3>5. ToDevice'
      BY <3>2, <3>4 DEF ToDevice
    <3> QED BY <1>0, <3>2, <3>3, <3>5 DEF EngineTypes
  <2>2. CASE dev.state < Bits /\ ~dev.read_mode /\ BitIn(d)
    <3>1. dev.state \in 0 .. Bits - 1
      BY <2>0, <2>2
    <3>2. /\ out' = 1 /\ dev' \in DevType
          /\ dev'.read_mode = dev.read_mode /\ dev'.count = dev.count /\ dev'.device = dev.device
          /\ log' = log
      BY <2>0, <2>2, <3>1, BitInDoes
    <3> QED BY <1>0, <3>2, TransferNothing DEF EngineTypes, ToDevice
  <2>3. CASE dev.state = Bits /\ dev.read_mode /\ ReadDone(d)
    <3>1. /\ out' = 1 /\ dev' \in DevType /\ dev'.read_mode = (d # 1 /\ dev.read_mode)
          /\ dev'.count = (IF d = 1 THEN 0 ELSE dev.count) /\ dev'.device = dev.device /\ log' = log
      BY <2>0, <2>3, ReadDoneDoes
    <3>2. CASE d = 1
      <4>1. dev'.count = 0 /\ ~ dev'.read_mode
        BY <3>1, <3>2
      <4> QED BY <1>0, <3>1, <4>1, TransferEnds DEF EngineTypes, ToDevice
    <3>3. CASE d # 1
      <4>1. dev'.count = dev.count /\ dev'.read_mode = dev.read_mode
        BY <2>0, <3>1, <3>3, DevFields
      <4> QED BY <1>0, <3>1, <4>1, TransferNothing DEF EngineTypes, ToDevice
    <3> QED BY <3>2, <3>3
  <2>4. CASE dev.state = Bits /\ ~dev.read_mode /\ WriteDone
    <3>1. Transferred /\ ToDevice'
      BY <2>0, <2>4, TransferWrites
    <3>2. dev' \in DevType /\ log' \in Seq(CallType) /\ out' \in 0 .. 1
      BY <2>0, <2>4, WriteDoneDoes
    <3> QED BY <1>0, <3>1, <3>2 DEF EngineTypes
  <2> QED BY <1>3, <2>1, <2>2, <2>3, <2>4 DEF Clocked
<1>4. CASE UNCHANGED <<out, dev, log>>
  BY <1>0, <1>4, TransferNothing DEF EngineTypes, ToDevice
<1> QED BY <1>1, <1>2, <1>3, <1>4 DEF i2c_step


-----------------------------------------------------------------------------
(* The guest's steps *)

\* Outside a transfer there is nothing to be in step about.
LEMMA OutsideTransfer ==
    ASSUME guest'.at \in {"boot", "rest", "start", "stop"}
    PROVE  InStep' /\ BitsInStep' /\ ByteTaken'
BY DEF InStep, BitsInStep, ByteTaken, MidByte

LEMMA GuestStartKeeps ==
    ASSUME I2cAssumption, I2cInv, GuestStart
    PROVE  I2cInv' /\ Transferred
<1>1. guest.at = "rest" /\ i2c_step(1, 0) /\ guest' = [guest EXCEPT !.at = "start"] /\ sent' = <<>>
  BY DEF GuestStart
<1>2. 1 \in 0 .. 1 /\ 0 \in 0 .. 1
  OBVIOUS
<1>3. EngineTypes' /\ ToDevice' /\ Transferred
  BY <1>1, <1>2, EngineStep DEF I2cInv, BusTypes, EngineTypes
<1>4. dev.state = STATE_STOP
  BY <1>1 DEF I2cInv, InPhase
<1>5. clk' = 1 /\ data' = 0 /\ UNCHANGED <<out, dev, log>>
  BY <1>1, <1>4, Quiet DEF STATE_STOP
<1>6. guest' \in GuestType /\ guest'.at = "start"
  BY <1>1 DEF I2cInv, BusTypes, GuestType
<1>7. BusTypes'
  BY <1>1, <1>3, <1>6 DEF BusTypes, EngineTypes
<1>8. InPhase'
  BY <1>1, <1>5, <1>6 DEF I2cInv, InPhase
<1> QED BY <1>3, <1>6, <1>7, <1>8, OutsideTransfer DEF I2cInv

LEMMA GuestFirstClockKeeps ==
    ASSUME I2cAssumption, I2cInv, GuestFirstClock
    PROVE  I2cInv' /\ Transferred
<1>1. guest.at = "start" /\ i2c_step(0, 0) /\ guest' = [guest EXCEPT !.at = "next", !.kind = "address"]
      /\ sent' = sent
  BY DEF GuestFirstClock
<1>2. 1 \in 0 .. 1 /\ 0 \in 0 .. 1
  OBVIOUS
<1>3. EngineTypes' /\ ToDevice' /\ Transferred
  BY <1>1, <1>2, EngineStep DEF I2cInv, BusTypes, EngineTypes
<1>4. dev.state = STATE_STOP /\ dev.count = 0 /\ ~ dev.read_mode /\ sent = <<>> /\ dev \in DevType
  BY <1>1 DEF I2cInv, InPhase, BusTypes
<1>5. clk' = 0 /\ data' = 0 /\ dev' = [dev EXCEPT !.state = STATE_START]
  BY <1>1, <1>4 DEF i2c_step, Start, Stop, STATE_STOP
<1>6. dev'.state = 0 /\ dev'.count = 0 /\ ~ dev'.read_mode
  BY <1>4, <1>5 DEF DevType, STATE_START
<1>7. guest' \in GuestType /\ guest'.at = "next" /\ guest'.kind = "address"
  BY <1>1 DEF I2cInv, BusTypes, GuestType
<1>8. BusTypes'
  BY <1>1, <1>3, <1>7 DEF I2cInv, BusTypes, EngineTypes
<1>9. InPhase'
  BY <1>5, <1>6, <1>7 DEF InPhase
<1>10. InStep' /\ BitsInStep' /\ ByteTaken'
  BY <1>1, <1>4, <1>6, <1>7 DEF InStep, BitsInStep, ByteTaken, MidByte
<1> QED BY <1>3, <1>8, <1>9, <1>10 DEF I2cInv

LEMMA GuestByteKeeps ==
    ASSUME I2cAssumption, I2cInv, NEW v \in Octet, GuestByte(v)
    PROVE  I2cInv' /\ Transferred
<1> DEFINE d == IF guest.kind = "read" THEN 1 ELSE v[1]
<1>1. /\ guest.at = "next" /\ guest.kind # "none" /\ i2c_step(0, d)
      /\ guest' = [guest EXCEPT !.at = "low", !.byte = v, !.bit = 0] /\ sent' = sent
  BY DEF GuestByte
<1>2. d \in 0 .. 1 /\ 0 \in 0 .. 1 /\ Bits \in Nat /\ Bits >= 2
  BY Widths
<1>3. EngineTypes' /\ ToDevice' /\ Transferred
  <2> HIDE DEF d
  <2> QED BY <1>1, <1>2, EngineStep DEF I2cInv, BusTypes, EngineTypes
<1>4. dev.state = 0
  BY <1>1 DEF I2cInv, InPhase
<1>5. clk' = 0 /\ data' = d /\ UNCHANGED <<out, dev, log>>
  <2> HIDE DEF d
  <2> QED BY <1>1, <1>4, Quiet DEF STATE_STOP
<1>6. /\ guest' \in GuestType /\ guest'.at = "low" /\ guest'.byte = v /\ guest'.bit = 0
      /\ guest'.kind = guest.kind /\ guest'.ack = guest.ack
  <2>1. 0 \in 0 .. Bits /\ guest \in GuestType
    BY <1>2 DEF I2cInv, BusTypes
  <2> HIDE DEF d
  <2> QED BY <1>1, <2>1 DEF GuestType
<1>7. BusTypes'
  BY <1>1, <1>3, <1>6 DEF I2cInv, BusTypes, EngineTypes
<1>8. InPhase'
  BY <1>4, <1>5, <1>6 DEF InPhase
<1>9. InStep'
  BY <1>1, <1>4, <1>5, <1>6 DEF I2cInv, InStep, MidByte
<1>10. BitsInStep'
  <2>1. guest.kind # "read" => data' = v[1]
    BY <1>5
  <2>2. 0 + 1 = 1 /\ 0 # Bits
    BY <1>2
  <2>3. \A b, w : ShiftedIn(b, w, 0)
    BY DEF ShiftedIn
  <2>4. dev'.state = 0
    BY <1>4, <1>5
  <2> QED BY <1>6, <2>1, <2>2, <2>3, <2>4 DEF BitsInStep
<1>11. ByteTaken'
  BY <1>6 DEF ByteTaken
<1> QED BY <1>3, <1>7, <1>8, <1>9, <1>10, <1>11 DEF I2cInv

LEMMA GuestClockDownKeeps ==
    ASSUME I2cAssumption, I2cInv, GuestClockDown
    PROVE  I2cInv' /\ Transferred
<1>1. /\ guest.at = "high" /\ guest.bit < Bits /\ i2c_step(0, data)
      /\ guest' = [guest EXCEPT !.at = "set", !.bit = guest.bit + 1] /\ sent' = sent
  BY DEF GuestClockDown
<1>2. data \in 0 .. 1 /\ 0 \in 0 .. 1 /\ Bits \in Nat /\ guest \in GuestType /\ guest.bit \in 0 .. Bits
  BY Widths, GuestFields DEF I2cInv, BusTypes
<1>3. EngineTypes' /\ ToDevice' /\ Transferred
  BY <1>1, <1>2, EngineStep DEF I2cInv, BusTypes, EngineTypes
<1>4. dev.state = guest.bit + 1
  BY <1>1, <1>2 DEF I2cInv, InPhase
<1>5. clk' = 0 /\ data' = data /\ UNCHANGED <<out, dev, log>>
  <2>1. dev.state # STATE_STOP
    BY <1>2, <1>4 DEF STATE_STOP
  <2> QED BY <1>1, <2>1, Quiet
<1>6. /\ guest' \in GuestType /\ guest'.at = "set" /\ guest'.byte = guest.byte /\ guest'.bit = guest.bit + 1
      /\ guest'.kind = guest.kind /\ guest'.ack = guest.ack /\ guest'.more = guest.more
  <2>1. guest.bit + 1 \in 0 .. Bits
    BY <1>1, <1>2
  <2> QED BY <1>1, <1>2, <2>1 DEF GuestType
<1>7. BusTypes'
  BY <1>1, <1>3, <1>6 DEF I2cInv, BusTypes, EngineTypes
<1>8. InPhase'
  BY <1>2, <1>4, <1>5, <1>6 DEF InPhase
<1>9. MidByte /\ MidByte' /\ guest.at # "low" /\ guest'.at # "low"
  BY <1>1, <1>6 DEF MidByte
<1>10. InStep'
  BY <1>1, <1>5, <1>6, <1>9 DEF I2cInv, InStep
<1>11. BitsInStep'
  BY <1>1, <1>5, <1>6, <1>9 DEF I2cInv, BitsInStep, ShiftedIn
<1>12. ByteTaken'
  BY <1>6 DEF ByteTaken
<1> QED BY <1>3, <1>7, <1>8, <1>10, <1>11, <1>12 DEF I2cInv

LEMMA GuestSetKeeps ==
    ASSUME I2cAssumption, I2cInv, NEW more \in BOOLEAN, GuestSet(more)
    PROVE  I2cInv' /\ Transferred
<1> DEFINE d == IF guest.kind # "read" /\ guest.bit < Bits THEN guest.byte[guest.bit + 1]
                ELSE IF more THEN 0 ELSE 1
<1>1. /\ guest.at = "set" /\ i2c_step(0, d)
      /\ guest' = [guest EXCEPT !.at = "low", !.more = more] /\ sent' = sent
  BY DEF GuestSet
<1>2. 0 \in 0 .. 1 /\ Bits \in Nat /\ guest \in GuestType /\ guest.bit \in 0 .. Bits
  BY Widths, GuestFields DEF I2cInv, BusTypes
<1>3. d \in 0 .. 1
  <2>1. guest.bit < Bits => guest.byte[guest.bit + 1] \in 0 .. 1
    BY <1>2, GuestFields DEF Octet
  <2> QED BY <2>1
<1>4. EngineTypes' /\ ToDevice' /\ Transferred
  <2> HIDE DEF d
  <2> QED BY <1>1, <1>2, <1>3, EngineStep DEF I2cInv, BusTypes, EngineTypes
<1>5. dev.state = guest.bit /\ guest.bit >= 1
  BY <1>1 DEF I2cInv, InPhase
<1>6. clk' = 0 /\ data' = d /\ UNCHANGED <<out, dev, log>>
  <2>1. dev.state # STATE_STOP
    BY <1>2, <1>5 DEF STATE_STOP
  <2> HIDE DEF d
  <2> QED BY <1>1, <2>1, Quiet
<1>7. /\ guest' \in GuestType /\ guest'.at = "low" /\ guest'.byte = guest.byte /\ guest'.bit = guest.bit
      /\ guest'.kind = guest.kind /\ guest'.ack = guest.ack /\ guest'.more = more
  BY <1>1, <1>2 DEF GuestType
<1>8. BusTypes'
  BY <1>1, <1>4, <1>7 DEF I2cInv, BusTypes, EngineTypes
<1>9. InPhase'
  BY <1>5, <1>6, <1>7 DEF InPhase
<1>10. MidByte /\ MidByte'
  BY <1>1, <1>7 DEF MidByte
<1>11. InStep'
  BY <1>1, <1>6, <1>7, <1>10 DEF I2cInv, InStep
<1>12. BitsInStep'
  <2>1. guest.kind # "read" /\ guest.bit < Bits => data' = guest.byte[guest.bit + 1]
    BY <1>6
  <2>2. guest.kind = "read" => data' = IF more THEN 0 ELSE 1
    BY <1>6
  <2>3. /\ guest.kind # "read" => ShiftedIn(guest.byte, dev.value, dev.state)
        /\ guest.kind = "read" /\ dev.state >= 1 =>
              \E f \in Octet : /\ log = Append(sent, Call("read", dev.device, f))
                               /\ ShiftedIn(f, guest.byte, dev.state)
                               /\ \A i \in 1 .. Bits - dev.state : dev.value[i] = f[i + dev.state]
    BY <1>10 DEF I2cInv, BitsInStep
  <2> HIDE DEF d
  <2> QED BY <1>1, <1>6, <1>7, <2>1, <2>2, <2>3 DEF BitsInStep, ShiftedIn
<1>13. ByteTaken'
  BY <1>7 DEF ByteTaken
<1> QED BY <1>4, <1>8, <1>9, <1>11, <1>12, <1>13 DEF I2cInv

LEMMA GuestStopKeeps ==
    ASSUME I2cAssumption, I2cInv, GuestStop
    PROVE  I2cInv' /\ Transferred
<1>0. 1 \in 0 .. 1 /\ 0 \in 0 .. 1 /\ Bits \in Nat /\ Bits >= 2 /\ guest \in GuestType /\ dev \in DevType
  BY Widths DEF I2cInv, BusTypes
<1>1. CASE /\ guest.at = "next" /\ guest.kind # "read" /\ i2c_step(0, 0)
           /\ guest' = [guest EXCEPT !.at = "stop"] /\ sent' = sent
  <2>1. EngineTypes' /\ ToDevice' /\ Transferred
    BY <1>0, <1>1, EngineStep DEF I2cInv, BusTypes, EngineTypes
  <2>2. dev.state = 0 /\ ~ dev.read_mode
    <3>1. guest.kind \in {"none", "address", "write", "read"}
      BY <1>0, GuestFields
    <3> QED BY <1>1, <3>1 DEF I2cInv, InPhase, InStep
  <2>3. clk' = 0 /\ data' = 0 /\ UNCHANGED <<out, dev, log>>
    BY <1>1, <2>2, Quiet DEF STATE_STOP
  <2>4. guest' \in GuestType /\ guest'.at = "stop"
    BY <1>0, <1>1 DEF GuestType
  <2>5. BusTypes'
    BY <1>1, <2>1, <2>4 DEF I2cInv, BusTypes, EngineTypes
  <2>6. InPhase'
    BY <2>2, <2>3, <2>4 DEF InPhase
  <2> QED BY <2>1, <2>4, <2>5, <2>6, OutsideTransfer DEF I2cInv
<1>2. CASE guest.at = "stop" /\ clk = 0 /\ i2c_step(1, 0) /\ UNCHANGED <<guest, sent>>
  <2>1. EngineTypes' /\ ToDevice' /\ Transferred
    BY <1>0, <1>2, EngineStep DEF I2cInv, BusTypes, EngineTypes
  <2>2. dev.state = 0 /\ ~ dev.read_mode /\ data = 0
    BY <1>2 DEF I2cInv, InPhase
  <2>3. clk' = 1 /\ data' = 0 /\ \E f \in Octet : Clocked(0, f)
    BY <1>2, <2>2, Rising DEF STATE_STOP
  <2>4. BitIn(0)
    BY <1>0, <2>2, <2>3 DEF Clocked
  <2>5. dev.state \in 0 .. Bits - 1
    BY <1>0, <2>2
  <2>6. dev'.state = 1 /\ dev'.read_mode = dev.read_mode
    BY <1>0, <2>2, <2>4, <2>5, BitInDoes
  <2>7. BusTypes'
    BY <1>0, <1>2, <2>1 DEF I2cInv, BusTypes, EngineTypes
  <2>8. InPhase'
    BY <1>2, <2>2, <2>3, <2>6 DEF InPhase
  <2> QED BY <1>2, <2>1, <2>7, <2>8, OutsideTransfer DEF I2cInv
<1>3. CASE /\ guest.at = "stop" /\ clk = 1 /\ i2c_step(1, 1) /\ sent' = sent
           /\ guest' = [guest EXCEPT !.at = "rest", !.kind = "none", !.byte = Zeros, !.bit = 0]
  <2>1. EngineTypes' /\ ToDevice' /\ Transferred
    BY <1>0, <1>3, EngineStep DEF I2cInv, BusTypes, EngineTypes
  <2>2. dev.state = 1 /\ data = 0
    BY <1>3 DEF I2cInv, InPhase
  <2>3. /\ clk' = 1 /\ data' = 1
        /\ dev' = [dev EXCEPT !.state = STATE_STOP, !.count = 0, !.read_mode = FALSE]
    BY <1>3, <2>2 DEF i2c_step, Start, Stop, STATE_STOP
  <2>4. dev'.state = STATE_STOP /\ dev'.count = 0 /\ ~ dev'.read_mode
    BY <1>0, <2>3 DEF DevType
  <2>5. guest' \in GuestType /\ guest'.at = "rest"
    <3>1. 0 \in 0 .. Bits /\ Zeros \in Octet
      BY <1>0, Widths
    <3> QED BY <1>0, <1>3, <3>1 DEF GuestType
  <2>6. BusTypes'
    BY <1>3, <2>1, <2>5 DEF I2cInv, BusTypes, EngineTypes
  <2>7. InPhase'
    BY <2>3, <2>4, <2>5 DEF InPhase
  <2> QED BY <2>1, <2>5, <2>6, <2>7, OutsideTransfer DEF I2cInv
<1> QED BY <1>1, <1>2, <1>3 DEF GuestStop

LEMMA I2cResetKeeps ==
    ASSUME I2cAssumption, I2cInv, I2cReset
    PROVE  I2cInv' /\ Transferred
<1>1. /\ dev' = [dev EXCEPT !.state = STATE_STOP, !.read_mode = FALSE, !.value = Zeros, !.count = 0]
      /\ clk' = 1
      /\ guest' = [guest EXCEPT !.at = "boot", !.kind = "none", !.byte = Zeros, !.bit = 0]
      /\ UNCHANGED <<data, out, log, sent>>
  BY DEF I2cReset
<1>2. /\ STATE_STOP \in -1 .. Bits /\ 0 \in 0 .. Bits /\ 0 \in 0 .. 2 /\ FALSE \in BOOLEAN
      /\ Zeros \in Octet /\ dev \in DevType /\ guest \in GuestType
  BY Widths DEF I2cInv, BusTypes, STATE_STOP
<1>3. dev' \in DevType /\ dev'.state = STATE_STOP /\ dev'.count = 0 /\ dev'.read_mode = FALSE
  BY <1>1, <1>2 DEF DevType
<1>4. guest' \in GuestType /\ guest'.at = "boot"
  BY <1>1, <1>2 DEF GuestType
<1>5. BusTypes'
  BY <1>1, <1>3, <1>4 DEF I2cInv, BusTypes
<1>6. InPhase' /\ ToDevice'
  BY <1>1, <1>3, <1>4 DEF InPhase, ToDevice
<1> QED BY <1>1, <1>3, <1>4, <1>5, <1>6, OutsideTransfer, TransferEnds DEF I2cInv

LEMMA GuestBootKeeps ==
    ASSUME I2cAssumption, I2cInv, GuestBoot
    PROVE  I2cInv' /\ Transferred
<1>1. guest.at = "boot" /\ i2c_step(1, 1) /\ guest' = [guest EXCEPT !.at = "rest"] /\ sent' = sent
  BY DEF GuestBoot
<1>2. 1 \in 0 .. 1 /\ guest \in GuestType
  BY DEF I2cInv, BusTypes
<1>3. EngineTypes' /\ ToDevice' /\ Transferred
  BY <1>1, <1>2, EngineStep DEF I2cInv, BusTypes, EngineTypes
<1>4. dev.state = STATE_STOP /\ dev.count = 0 /\ ~ dev.read_mode
  BY <1>1 DEF I2cInv, InPhase
<1>5. clk' = 1 /\ data' = 1 /\ UNCHANGED <<out, dev, log>>
  BY <1>1, <1>4, Quiet DEF STATE_STOP
<1>6. guest' \in GuestType /\ guest'.at = "rest"
  BY <1>1, <1>2 DEF GuestType
<1>7. BusTypes'
  BY <1>1, <1>3, <1>6 DEF I2cInv, BusTypes, EngineTypes
<1>8. InPhase'
  BY <1>4, <1>5, <1>6 DEF InPhase
<1> QED BY <1>3, <1>6, <1>7, <1>8, OutsideTransfer DEF I2cInv


\* What a byte shifted in to its last bit is.
LEMMA AllShifted ==
    ASSUME I2cAssumption, NEW b \in Octet, NEW v \in Octet, ShiftedIn(b, v, Bits)
    PROVE  v = b
<1>1. Bits \in Nat
  BY Widths
<1>2. ASSUME NEW i \in 1 .. Bits PROVE v[i] = b[i]
  <2>1. (Bits - Bits) + i = i
    BY <1>1
  <2> QED BY <2>1 DEF ShiftedIn
<1>3. v \in [1 .. Bits -> 0 .. 1] /\ b \in [1 .. Bits -> 0 .. 1]
  BY DEF Octet
<1>4. v = [i \in 1 .. Bits |-> v[i]] /\ b = [i \in 1 .. Bits |-> b[i]]
  BY <1>3
<1>5. [i \in 1 .. Bits |-> v[i]] = [i \in 1 .. Bits |-> b[i]]
  BY <1>2, Zenon
<1> QED BY <1>4, <1>5, Zenon

\* One more bit.
LEMMA ShiftsIn ==
    ASSUME I2cAssumption, NEW b \in Octet, NEW v \in Octet, NEW n \in 0 .. Bits - 1, ShiftedIn(b, v, n)
    PROVE  ShiftedIn(b, Shifted(v, b[n + 1]), n + 1)
<1>1. Bits \in Nat
  BY Widths
<1>2. ASSUME NEW i \in 1 .. n + 1 PROVE Shifted(v, b[n + 1])[(Bits - (n + 1)) + i] = b[i]
  <2>1. CASE i = n + 1
    <3>1. (Bits - (n + 1)) + i = Bits /\ Bits \in 1 .. Bits
      BY <1>1, <2>1
    <3> QED BY <2>1, <3>1 DEF Shifted
  <2>2. CASE i # n + 1
    <3>1. PICK j \in 1 .. Bits : j = (Bits - (n + 1)) + i /\ j # Bits /\ j + 1 = (Bits - n) + i /\ i \in 1 .. n
      BY <1>1, <2>2
    <3>2. v[j + 1] = b[i]
      BY <3>1 DEF ShiftedIn
    <3> QED BY <3>1, <3>2 DEF Shifted
  <2> QED BY <2>1, <2>2
<1> QED BY <1>2 DEF ShiftedIn

LEMMA GuestClockUpKeeps ==
    ASSUME I2cAssumption, I2cInv, GuestClockUp
    PROVE  I2cInv' /\ Transferred
<1> DEFINE byte == IF guest.kind = "read" /\ guest.bit < Bits THEN Shifted(guest.byte, out') ELSE guest.byte
           ack == IF guest.kind # "read" /\ guest.bit = Bits THEN out' = 0 ELSE guest.ack
<1>1. /\ guest.at = "low" /\ i2c_step(1, data) /\ sent' = sent
      /\ guest' = [guest EXCEPT !.at = "high", !.byte = byte, !.ack = ack]
  BY DEF GuestClockUp
<1>2. /\ data \in 0 .. 1 /\ 1 \in 0 .. 1 /\ Bits \in Nat /\ Bits >= 2 /\ guest \in GuestType
      /\ guest.bit \in 0 .. Bits /\ dev \in DevType /\ log \in Seq(CallType) /\ sent \in Seq(CallType)
  BY Widths, GuestFields DEF I2cInv, BusTypes
<1>3. EngineTypes' /\ ToDevice' /\ Transferred
  BY <1>1, <1>2, EngineStep DEF I2cInv, BusTypes, EngineTypes
<1>4. clk = 0 /\ dev.state = guest.bit /\ dev.state # STATE_STOP
  <2>1. clk = 0 /\ dev.state = guest.bit
    BY <1>1 DEF I2cInv, InPhase
  <2> QED BY <1>2, <2>1 DEF STATE_STOP
<1>5. clk' = 1 /\ data' = data /\ \E f \in Octet : Clocked(data, f)
  BY <1>1, <1>4, Rising
<1>6. /\ guest' \in GuestType /\ guest'.at = "high" /\ guest'.byte = byte /\ guest'.bit = guest.bit
      /\ guest'.kind = guest.kind /\ guest'.ack = ack /\ guest'.more = guest.more
  <2>1. out' \in 0 .. 1
    BY <1>3 DEF EngineTypes
  <2>2. byte \in Octet
    BY <1>2, <2>1, Widths, GuestFields
  <2>3. ack \in BOOLEAN
    BY <1>2, GuestFields
  <2> HIDE DEF byte, ack
  <2> QED BY <1>1, <1>2, <2>2, <2>3 DEF GuestType
<1>7. BusTypes'
  BY <1>1, <1>3, <1>6 DEF I2cInv, BusTypes, EngineTypes
<1>8. MidByte
  BY <1>1 DEF MidByte
<1>9. /\ guest.kind \in {"address", "write", "read"}
      /\ guest.kind = "address" => dev.count = 0 /\ ~ dev.read_mode /\ sent = <<>>
      /\ guest.kind = "write" => ~ dev.read_mode /\ dev.count >= 1
                                 /\ (dev.count = 1 <=> Len(sent) = 1)
      /\ guest.kind = "read" => dev.read_mode /\ guest.ack
      /\ guest.kind \in {"write", "read"} => sent # <<>> /\ sent[1].device = dev.device
      /\ guest.kind # "address" /\ (guest.kind # "read" \/ dev.state = 0) => log = sent
  BY <1>2, <1>8, GuestFields DEF I2cInv, InStep
<1>10. /\ guest.kind # "read" => ShiftedIn(guest.byte, dev.value, dev.state)
       /\ guest.kind = "read" /\ dev.state >= 1 =>
             \E f \in Octet : /\ log = Append(sent, Call("read", dev.device, f))
                              /\ ShiftedIn(f, guest.byte, dev.state)
                              /\ \A i \in 1 .. Bits - dev.state : dev.value[i] = f[i + dev.state]
       /\ guest.kind # "read" /\ guest.bit < Bits => data = guest.byte[guest.bit + 1]
       /\ guest.kind = "read" /\ guest.bit = Bits => data = IF guest.more THEN 0 ELSE 1
  BY <1>1, <1>8 DEF I2cInv, BitsInStep
<1>11. CASE guest.bit < Bits
  <2>0. dev.state \in 0 .. Bits - 1 /\ guest.bit # Bits /\ ack = guest.ack
    BY <1>2, <1>4, <1>11
  <2>1. MidByte' /\ guest'.at # "next"
    BY <1>6, <1>11 DEF MidByte
  <2>2. ByteTaken'
    BY <1>6, <2>0 DEF ByteTaken
  <2>3. CASE guest.kind = "read"
    <3>1. PICK f \in Octet : BitOut(f)
      BY <1>5, <1>9, <2>0, <2>3, <1>11 DEF Clocked
    <3>2. PICK v \in Octet :
             /\ v = (IF dev.state = 0 THEN f ELSE dev.value)
             /\ out' = v[1] /\ dev'.state = dev.state + 1 /\ dev'.value = Shifted(v, 0)
             /\ dev'.read_mode = dev.read_mode /\ dev'.count = dev.count /\ dev'.device = dev.device
             /\ log' = (IF dev.state = 0 THEN Append(log, Call("read", dev.device, f)) ELSE log)
      BY <1>2, <2>0, <3>1, BitOutDoes
    <3>3. guest'.byte = Shifted(guest.byte, v[1])
      BY <1>6, <1>11, <2>3, <3>2
    <3>4. \E g \in Octet : /\ log' = Append(sent, Call("read", dev.device, g))
                           /\ ShiftedIn(g, guest.byte, dev.state)
                           /\ \A i \in 1 .. Bits - dev.state : v[i] = g[i + dev.state]
      <4>1. CASE dev.state = 0
        <5>1. log' = Append(sent, Call("read", dev.device, f)) /\ v = f
          BY <1>9, <2>3, <3>2, <4>1
        <5>2. ShiftedIn(f, guest.byte, dev.state)
          BY <4>1 DEF ShiftedIn
        <5>3. \A i \in 1 .. Bits - dev.state : v[i] = f[i + dev.state]
          BY <4>1, <5>1
        <5> QED BY <5>1, <5>2, <5>3
      <4>2. CASE dev.state # 0
        <5>1. log' = log /\ v = dev.value /\ dev.state >= 1
          BY <2>0, <3>2, <4>2
        <5> QED BY <1>10, <2>3, <5>1
      <4> QED BY <4>1, <4>2
    <3>5. PICK g \in Octet : /\ log' = Append(sent, Call("read", dev.device, g))
                             /\ ShiftedIn(g, guest.byte, dev.state)
                             /\ \A i \in 1 .. Bits - dev.state : v[i] = g[i + dev.state]
      BY <3>4
    <3>6. v[1] = g[dev.state + 1]
      <4>1. 1 \in 1 .. Bits - dev.state /\ 1 + dev.state = dev.state + 1
        BY <1>2, <2>0
      <4> QED BY <3>5, <4>1
    <3>7. ShiftedIn(g, guest'.byte, dev.state + 1)
      <4>1. guest.byte \in Octet
        BY <1>2, GuestFields
      <4> QED BY <2>0, <3>3, <3>5, <3>6, <4>1, ShiftsIn
    <3>8. ASSUME NEW i \in 1 .. Bits - (dev.state + 1) PROVE dev'.value[i] = g[i + (dev.state + 1)]
      <4>1. i \in 1 .. Bits /\ i # Bits /\ i + 1 \in 1 .. Bits - dev.state
            /\ (i + 1) + dev.state = i + (dev.state + 1)
        BY <1>2, <2>0
      <4>2. dev'.value[i] = v[i + 1]
        BY <3>2, <4>1 DEF Shifted
      <4> QED BY <3>5, <4>1, <4>2
    <3>9. BitsInStep'
      <4>1. guest'.kind = "read" /\ guest'.at # "low" /\ sent' = sent /\ dev'.device = dev.device
            /\ dev'.state = dev.state + 1
        BY <1>1, <1>6, <2>3, <3>2
      <4>2. \E h \in Octet : /\ log' = Append(sent', Call("read", dev'.device, h))
                             /\ ShiftedIn(h, guest'.byte, dev'.state)
                             /\ \A i \in 1 .. Bits - dev'.state : dev'.value[i] = h[i + dev'.state]
        <5>1. log' = Append(sent', Call("read", dev'.device, g))
          BY <3>5, <4>1
        <5>2. ShiftedIn(g, guest'.byte, dev'.state)
          BY <3>7, <4>1
        <5>3. \A i \in 1 .. Bits - dev'.state : dev'.value[i] = g[i + dev'.state]
          BY <3>8, <4>1
        <5> QED BY <5>1, <5>2, <5>3
      <4> QED BY <4>1, <4>2 DEF BitsInStep
    <3>10. InStep'
      <4>1. dev'.state # 0
        BY <2>0, <3>2
      <4> QED BY <1>1, <1>6, <1>9, <2>0, <2>3, <3>2, <4>1 DEF InStep
    <3>11. InPhase'
      BY <1>4, <1>5, <1>6, <2>0, <3>2 DEF InPhase
    <3> QED BY <1>3, <1>7, <2>2, <3>9, <3>10, <3>11 DEF I2cInv
  <2>4. CASE guest.kind # "read"
    <3>1. BitIn(data)
      BY <1>5, <1>9, <2>0, <2>4, <1>11 DEF Clocked
    <3>2. /\ dev'.state = dev.state + 1 /\ dev'.value = Shifted(dev.value, data)
          /\ dev'.read_mode = dev.read_mode /\ dev'.count = dev.count /\ dev'.device = dev.device
          /\ log' = log
      BY <1>2, <2>0, <3>1, BitInDoes
    <3>3. data = guest.byte[dev.state + 1] /\ ShiftedIn(guest.byte, dev.value, dev.state)
      BY <1>4, <1>10, <1>11, <2>4
    <3>4. ShiftedIn(guest.byte, dev'.value, dev'.state)
      <4>1. guest.byte \in Octet /\ dev.value \in Octet
        BY <1>2, GuestFields, DevFields
      <4> QED BY <2>0, <3>2, <3>3, <4>1, ShiftsIn
    <3>5. guest'.byte = guest.byte /\ guest'.kind # "read" /\ guest'.at # "low"
      BY <1>6, <2>4
    <3>6. BitsInStep'
      BY <3>4, <3>5 DEF BitsInStep
    <3>7. InStep'
      BY <1>1, <1>6, <1>9, <2>0, <2>4, <3>2 DEF InStep
    <3>8. InPhase'
      BY <1>4, <1>5, <1>6, <2>0, <3>2 DEF InPhase
    <3> QED BY <1>3, <1>7, <2>2, <3>6, <3>7, <3>8 DEF I2cInv
  <2> QED BY <2>3, <2>4
<1>12. CASE guest.bit = Bits
  <2>0. dev.state = Bits /\ ~ (dev.state < Bits)
    BY <1>2, <1>4, <1>12
  <2>1. ~ MidByte' /\ guest'.at = "high" /\ guest'.bit = Bits /\ guest'.byte = guest.byte
    BY <1>2, <1>6, <1>12 DEF MidByte
  <2>2. InStep' /\ BitsInStep'
    BY <2>1 DEF InStep, BitsInStep
  <2>3. CASE guest.kind = "read"
    <3>1. ReadDone(data)
      BY <1>5, <1>9, <2>0, <2>3 DEF Clocked
    <3>2. /\ dev'.state = 0 /\ dev'.read_mode = (data # 1 /\ dev.read_mode)
          /\ dev'.count = (IF data = 1 THEN 0 ELSE dev.count) /\ dev'.device = dev.device
          /\ log' = log
      BY <1>2, <3>1, ReadDoneDoes
    <3>3. data = IF guest.more THEN 0 ELSE 1
      BY <1>10, <1>12, <2>3
    <3>4. dev'.read_mode = guest.more /\ (~ guest.more => dev'.count = 0 /\ ~ dev'.read_mode)
      <4>1. guest.more \in BOOLEAN /\ dev.read_mode = TRUE
        BY <1>2, <1>9, <2>3, GuestFields, DevFields
      <4>2. CASE guest.more
        <5>1. guest.more = TRUE /\ data # 1
          BY <3>3, <4>1, <4>2
        <5>2. dev'.read_mode = TRUE
          BY <3>2, <4>1, <5>1
        <5> QED BY <5>1, <5>2
      <4>3. CASE ~ guest.more
        <5>1. guest.more = FALSE /\ data = 1
          BY <3>3, <4>1, <4>3
        <5>2. dev'.read_mode = FALSE /\ dev'.count = 0
          BY <3>2, <4>1, <5>1
        <5> QED BY <5>1, <5>2
      <4> QED BY <4>2, <4>3
    <3>5. PICK f \in Octet : log = Append(sent, Call("read", dev.device, f))
                             /\ ShiftedIn(f, guest.byte, dev.state)
      BY <1>2, <1>10, <2>0, <2>3
    <3>6. guest.byte = f
      <4>1. guest.byte \in Octet
        BY <1>2, GuestFields
      <4> QED BY <2>0, <3>5, <4>1, AllShifted
    <3>7. guest'.kind = "read" /\ guest'.ack /\ guest'.more = guest.more
      BY <1>6, <1>9, <2>3
    <3>8. log' = Append(sent', CallMade')
      <4>1. CallMade' = Call("read", sent[1].device, f)
        BY <1>1, <2>1, <3>6, <3>7 DEF CallMade
      <4>2. sent[1].device = dev.device
        BY <1>9, <2>3
      <4> QED BY <1>1, <3>2, <3>5, <4>1, <4>2
    <3>9. ByteTaken'
      BY <1>1, <1>9, <2>3, <3>2, <3>4, <3>7, <3>8 DEF ByteTaken
    <3>10. InPhase'
      BY <1>5, <2>1, <3>2 DEF InPhase
    <3> QED BY <1>3, <1>7, <2>2, <3>9, <3>10 DEF I2cInv
  <2>4. CASE guest.kind # "read"
    <3>1. WriteDone
      BY <1>5, <1>9, <2>0, <2>4 DEF Clocked
    <3>2. /\ dev'.state = 0
          /\ \/ /\ dev.count = 0 /\ DeviceOf(dev.value) \notin Known
                /\ out' = 1 /\ dev'.count = 0 /\ ~ dev'.read_mode /\ log' = <<>>
             \/ /\ dev.count = 0 /\ DeviceOf(dev.value) \in Known
                /\ out' = 0 /\ dev'.count = 1 /\ dev'.device = DeviceOf(dev.value)
                /\ dev'.read_mode = ReadBit(dev.value)
                /\ log' = <<Call("address", DeviceOf(dev.value), NoByte)>>
             \/ /\ dev.count # 0
                /\ out' = 0 /\ dev'.count = 2 /\ dev'.device = dev.device
                /\ dev'.read_mode = dev.read_mode
                /\ log' = Append(log, Call(IF dev.count = 1 THEN "select" ELSE "write",
                                           dev.device, dev.value))
      BY <1>2, <3>1, WriteDoneDoes
    <3>3. dev.value = guest.byte
      <4>1. guest.byte \in Octet /\ dev.value \in Octet
        BY <1>2, GuestFields, DevFields
      <4> QED BY <1>10, <2>0, <2>4, <4>1, AllShifted
    <3>4. guest'.kind = guest.kind /\ guest'.ack = (out' = 0)
      BY <1>6, <1>12, <2>4
    <3>5. InPhase'
      BY <1>5, <2>1, <3>2 DEF InPhase
    <3>6. CASE guest.kind = "address"
      <4>1. dev.count = 0 /\ sent = <<>> /\ sent' = <<>>
        BY <1>1, <1>9, <3>6
      <4>2. CallMade' = Call("address", DeviceOf(guest.byte), NoByte)
        BY <2>1, <3>4, <3>6 DEF CallMade
      <4>3. Append(<<>>, CallMade') = <<CallMade'>>
        OBVIOUS
      <4>4. CASE DeviceOf(dev.value) \notin Known
        <5>1. out' = 1 /\ dev'.count = 0 /\ ~ dev'.read_mode /\ log' = <<>>
          BY <3>2, <4>1, <4>4
        <5>2. ~ guest'.ack
          <6>1. (out' = 0) = FALSE
            BY <5>1
          <6> QED BY <3>4, <6>1
        <5>3. ByteTaken'
          BY <3>4, <3>6, <4>1, <5>1, <5>2 DEF ByteTaken
        <5> QED BY <1>3, <1>7, <2>2, <3>5, <5>3 DEF I2cInv
      <4>5. CASE DeviceOf(dev.value) \in Known
        <5>1. /\ out' = 0 /\ dev'.count = 1 /\ dev'.device = DeviceOf(guest.byte)
              /\ dev'.read_mode = ReadBit(guest.byte)
              /\ log' = Append(sent', CallMade')
          BY <3>2, <3>3, <4>1, <4>2, <4>3, <4>5
        <5>2. guest'.ack
          BY <3>4, <5>1
        <5>3. ByteTaken'
          BY <2>1, <3>4, <3>6, <4>1, <5>1, <5>2 DEF ByteTaken
        <5> QED BY <1>3, <1>7, <2>2, <3>5, <5>3 DEF I2cInv
      <4> QED BY <4>4, <4>5
    <3>7. CASE guest.kind = "write"
      <4>1. /\ dev.count # 0 /\ log = sent /\ ~ dev.read_mode /\ (dev.count = 1 <=> Len(sent) = 1)
            /\ sent # <<>> /\ sent[1].device = dev.device
        BY <1>9, <3>7
      <4>2. /\ out' = 0 /\ dev'.count = 2 /\ dev'.device = dev.device /\ ~ dev'.read_mode
            /\ log' = Append(log, Call(IF dev.count = 1 THEN "select" ELSE "write",
                                       dev.device, dev.value))
        BY <3>2, <4>1
      <4>3. CallMade' = Call(IF Len(sent) = 1 THEN "select" ELSE "write", sent[1].device, guest.byte)
        BY <1>1, <2>1, <3>4, <3>7 DEF CallMade
      <4>4. log' = Append(sent', CallMade')
        BY <1>1, <3>3, <4>1, <4>2, <4>3
      <4>5. guest'.ack
        BY <3>4, <4>2
      <4>6. ByteTaken'
        BY <1>1, <3>4, <3>7, <4>1, <4>2, <4>4, <4>5 DEF ByteTaken
      <4> QED BY <1>3, <1>7, <2>2, <3>5, <4>6 DEF I2cInv
    <3> QED BY <1>9, <2>4, <3>6, <3>7
  <2> QED BY <2>3, <2>4
<1> QED BY <1>2, <1>11, <1>12

LEMMA GuestByteDoneKeeps ==
    ASSUME I2cAssumption, I2cInv, GuestByteDone
    PROVE  I2cInv' /\ Transferred
<1>1. /\ guest.at = "high" /\ guest.bit = Bits /\ i2c_step(0, data)
      /\ sent' = (IF guest.ack THEN Append(sent, CallMade) ELSE sent)
      /\ guest' = [guest EXCEPT !.at = "next", !.kind = KindAfter]
  BY DEF GuestByteDone
<1>2. data \in 0 .. 1 /\ 0 \in 0 .. 1 /\ guest \in GuestType /\ sent \in Seq(CallType) /\ dev \in DevType
  BY DEF I2cInv, BusTypes
<1>3. EngineTypes' /\ ToDevice' /\ Transferred
  BY <1>1, <1>2, EngineStep DEF I2cInv, BusTypes, EngineTypes
<1>4. dev.state = 0
  BY <1>1 DEF I2cInv, InPhase
<1>5. clk' = 0 /\ data' = data /\ UNCHANGED <<out, dev, log>>
  BY <1>1, <1>4, Quiet DEF STATE_STOP
<1>6. /\ guest.kind \in {"address", "write", "read"} /\ guest.ack \in BOOLEAN /\ guest.more \in BOOLEAN
      /\ guest.kind = "address" => sent = <<>>
      /\ IF guest.ack THEN log = Append(sent, CallMade) ELSE log = sent /\ guest.kind = "address"
      /\ guest.ack /\ guest.kind = "address" => dev.count = 1 /\ dev.read_mode = ReadBit(guest.byte)
                                                /\ dev.device = DeviceOf(guest.byte)
      /\ guest.kind = "write" => ~ dev.read_mode /\ dev.count = 2
      /\ guest.kind = "read" => guest.ack /\ dev.read_mode = guest.more
      /\ ~ guest.ack \/ (guest.kind = "read" /\ ~ guest.more) => dev.count = 0 /\ ~ dev.read_mode
      /\ guest.kind \in {"write", "read"} => sent # <<>> /\ sent[1].device = dev.device
  BY <1>1, <1>2, GuestFields DEF I2cInv, ByteTaken
<1>7. log' = sent'
  BY <1>1, <1>5, <1>6
<1>8. KindAfter \in {"none", "write", "read"}
  BY <1>6 DEF KindAfter
<1>9. guest' \in GuestType /\ guest'.at = "next" /\ guest'.kind = KindAfter /\ guest'.ack = guest.ack
  BY <1>1, <1>2, <1>8 DEF GuestType
<1>10. BusTypes'
  BY <1>3, <1>7, <1>9 DEF BusTypes, EngineTypes
<1>11. InPhase'
  BY <1>4, <1>5, <1>9 DEF InPhase
<1>12. CASE ~ guest.ack \/ (guest.kind = "read" /\ ~ guest.more)
  <2>1. KindAfter = "none" /\ dev.count = 0 /\ ~ dev.read_mode
    BY <1>6, <1>12 DEF KindAfter
  <2>2. InStep' /\ BitsInStep' /\ ByteTaken'
    BY <1>5, <1>7, <1>9, <2>1 DEF InStep, BitsInStep, ByteTaken, MidByte
  <2> QED BY <1>3, <1>10, <1>11, <2>2 DEF I2cInv
<1>13. CASE guest.ack /\ ~ (guest.kind = "read" /\ ~ guest.more)
  <2>1. sent' = Append(sent, CallMade)
    BY <1>1, <1>13
  <2>2. CASE guest.kind = "address"
    <3>1. KindAfter = IF ReadBit(guest.byte) THEN "read" ELSE "write"
      BY <1>13, <2>2 DEF KindAfter
    <3>2. dev.count = 1 /\ dev.read_mode = ReadBit(guest.byte) /\ dev.device = DeviceOf(guest.byte)
      BY <1>6, <1>13, <2>2
    <3>3. sent' = <<Call("address", DeviceOf(guest.byte), NoByte)>>
      BY <1>6, <2>1, <2>2 DEF CallMade
    <3>4. sent' # <<>> /\ sent'[1].device = dev.device /\ Len(sent') = 1
      BY <3>2, <3>3 DEF Call
    <3>5. InStep' /\ BitsInStep' /\ ByteTaken'
      BY <1>5, <1>7, <1>9, <1>13, <3>1, <3>2, <3>4 DEF InStep, BitsInStep, ByteTaken, MidByte
    <3> QED BY <1>3, <1>10, <1>11, <3>5 DEF I2cInv
  <2>3. CASE guest.kind # "address"
    <3>1. KindAfter = guest.kind
      BY <1>13, <2>3 DEF KindAfter
    <3>2. sent # <<>> /\ sent[1].device = dev.device
      BY <1>6, <2>3
    <3>3. sent' # <<>> /\ sent'[1] = sent[1] /\ Len(sent') # 1
      BY <1>2, <2>1, <3>2
    <3>4. CASE guest.kind = "write"
      <4>1. ~ dev.read_mode /\ dev.count = 2
        BY <1>6, <3>4
      <4>2. InStep' /\ BitsInStep' /\ ByteTaken'
        BY <1>5, <1>7, <1>9, <3>1, <3>2, <3>3, <3>4, <4>1 DEF InStep, BitsInStep, ByteTaken, MidByte
      <4> QED BY <1>3, <1>10, <1>11, <4>2 DEF I2cInv
    <3>5. CASE guest.kind = "read"
      <4>1. dev.read_mode
        BY <1>6, <1>13, <3>5
      <4>2. InStep' /\ BitsInStep' /\ ByteTaken'
        BY <1>5, <1>7, <1>9, <1>13, <3>1, <3>2, <3>3, <3>5, <4>1 DEF InStep, BitsInStep, ByteTaken, MidByte
      <4> QED BY <1>3, <1>10, <1>11, <4>2 DEF I2cInv
    <3> QED BY <1>6, <2>3, <3>4, <3>5
  <2> QED BY <2>2, <2>3
<1> QED BY <1>6, <1>12, <1>13


LEMMA I2cStarts ==
    ASSUME I2cAssumption, I2cInit
    PROVE  I2cInv /\ Transfers!Init
<1>1. /\ clk = 1 /\ data = 0 /\ out = 0 /\ log = <<>> /\ sent = <<>>
      /\ dev = [state |-> STATE_STOP, read_mode |-> FALSE, value |-> Zeros, count |-> 0,
                device |-> DeviceOf(Zeros)]
      /\ guest = [at |-> "boot", kind |-> "none", byte |-> Zeros, bit |-> 0, ack |-> FALSE,
                  more |-> FALSE]
  BY DEF I2cInit
<1>2. /\ STATE_STOP \in -1 .. Bits /\ 0 \in 0 .. Bits /\ 0 \in 0 .. 2 /\ FALSE \in BOOLEAN
      /\ Zeros \in Octet /\ DeviceOf(Zeros) \in Devices
  BY Widths DEF STATE_STOP
<1>3. dev \in DevType /\ dev.state = STATE_STOP /\ dev.count = 0 /\ ~ dev.read_mode
  BY <1>1, <1>2 DEF DevType
<1>4. guest \in GuestType /\ guest.at = "boot"
  BY <1>1, <1>2 DEF GuestType
<1>5. BusTypes /\ ToDevice /\ InPhase
  BY <1>1, <1>3, <1>4 DEF BusTypes, ToDevice, InPhase
<1>6. InStep /\ BitsInStep /\ ByteTaken
  BY <1>4 DEF InStep, BitsInStep, ByteTaken, MidByte
<1>7. Transfers!Init
  BY <1>1, <1>3 DEF Transfers!Init
<1> QED BY <1>5, <1>6, <1>7 DEF I2cInv

LEMMA I2cKeeps ==
    ASSUME I2cAssumption, I2cInv, [I2cNext]_i2cVars
    PROVE  I2cInv' /\ Transferred
<1>1. CASE GuestStart
  BY <1>1, GuestStartKeeps
<1>2. CASE GuestFirstClock
  BY <1>2, GuestFirstClockKeeps
<1>3. ASSUME NEW v \in Octet, GuestByte(v) PROVE I2cInv' /\ Transferred
  BY <1>3, GuestByteKeeps
<1>4. CASE GuestClockUp
  BY <1>4, GuestClockUpKeeps
<1>5. CASE GuestClockDown
  BY <1>5, GuestClockDownKeeps
<1>6. ASSUME NEW more \in BOOLEAN, GuestSet(more) PROVE I2cInv' /\ Transferred
  BY <1>6, GuestSetKeeps
<1>7. CASE GuestByteDone
  BY <1>7, GuestByteDoneKeeps
<1>8. CASE GuestStop
  BY <1>8, GuestStopKeeps
<1>9. CASE I2cReset
  BY <1>9, I2cResetKeeps
<1>10. CASE GuestBoot
  BY <1>10, GuestBootKeeps
<1>11. CASE UNCHANGED i2cVars
  <2>1. UNCHANGED <<clk, data, out, dev, log, guest, sent>>
    BY <1>11 DEF i2cVars
  <2>2. BusTypes' /\ ToDevice' /\ InPhase'
    BY <2>1 DEF I2cInv, BusTypes, ToDevice, InPhase
  <2>3. InStep'
    BY <2>1 DEF I2cInv, InStep, MidByte
  <2>4. BitsInStep'
    BY <2>1 DEF I2cInv, BitsInStep, MidByte, ShiftedIn
  <2>5. ByteTaken'
    BY <2>1 DEF I2cInv, ByteTaken, CallMade
  <2> QED BY <2>1, <2>2, <2>3, <2>4, <2>5, TransferNothing DEF I2cInv
<1> QED BY <1>1, <1>2, <1>3, <1>4, <1>5, <1>6, <1>7, <1>8, <1>9, <1>10, <1>11 DEF I2cNext

\* What i2c_step calls, bit by bit, are transfers of whole bytes to the device that
\* was addressed; the devices get what the guest sent and the guest what they
\* answered, and a bus at rest recognises the next START, after resets too.
THEOREM I2cImplementsTransfers ==
    ASSUME I2cAssumption
    PROVE  I2cSpec => TransfersImplemented
<1>1. I2cInit => I2cInv /\ Transfers!Init
  BY I2cStarts
<1>2. I2cInv /\ [I2cNext]_i2cVars => I2cInv' /\ [Transfers!Next]_(Transfers!vars)
  BY I2cKeeps DEF Transferred
<1>3. I2cInv => I2cTypeOK /\ DeliveredAsSent /\ ReadyAtRest
  <2> SUFFICES ASSUME I2cInv PROVE I2cTypeOK /\ DeliveredAsSent /\ ReadyAtRest
    OBVIOUS
  <2>1. I2cTypeOK
    BY DEF I2cInv, BusTypes, I2cTypeOK, DevType, Devices
  <2>2. DeliveredAsSent
    <3>1. guest.at = "next" /\ guest.kind = "read" => dev.state = 0
      BY DEF I2cInv, InPhase
    <3> QED BY <3>1 DEF I2cInv, InStep, DeliveredAsSent
  <2>3. ReadyAtRest
    BY DEF I2cInv, InPhase, ReadyAtRest
  <2> QED BY <2>1, <2>2, <2>3
<1> QED BY <1>1, <1>2, <1>3, PTL DEF I2cSpec, TransfersImplemented, Transfers!Spec

-----------------------------------------------------------------------------
(* The cartridge *)

\* Kinds of banks, memories and files.
Types == Payload \cup {"NONE", "UNINITIALIZED_RAM", "UNINITIALIZED_NVRAM"}
Infos == [Banks -> Types]
Mems == [Cells -> Nat]
BankData == [1 .. BankSize -> Nat]
CartFiles == [here : BOOLEAN, good : BOOLEAN, cut : BOOLEAN, info : Infos,
              banks : Seq(BankData)]

\* In makecart, memory is what was asked for, in the banks that are saved.  A file
\* that was written whole is those banks, and the .nvram file the NVRAM of the last
\* run that ended in order; both are read by the types they were written by.
CartTypes ==
    /\ bank_info \in Infos /\ made \in [info : Infos, mem : Mems]
    /\ crt \in CartFiles /\ nvfile \in CartFiles
    /\ running \in {"makecart", "off", "emulator"} /\ path \in BOOLEAN /\ refused \in BOOLEAN
    /\ CART \in Mems \cup {NoMemory} /\ left \in Mems \cup {NoMemory}
InMemory ==
    running = "makecart" =>
        /\ CART \in Mems /\ bank_info = made.info /\ nvfile = NoFile /\ ~ refused
        /\ \A c \in Cells : made.info[c \div BankSize] \in Payload => CART[c] = made.mem[c]
InCart ==
    running # "makecart" /\ crt.good =>
        /\ crt.info = made.info
        /\ ~ crt.cut => crt.banks = Selected(made.info, made.mem, Payload)[NBanks]
InNvram ==
    running # "makecart" /\ crt.good /\ nvfile.here /\ ~ nvfile.cut =>
        left \in Mems /\ nvfile.banks = Selected(made.info, left, Nvram)[NBanks]
InEmulator ==
    running = "emulator" /\ path /\ crt.good => CART \in Mems /\ bank_info = crt.info
CartInv == CartTypes /\ InMemory /\ InCart /\ InNvram /\ InEmulator /\ LastNvramKept

-----------------------------------------------------------------------------
\* A cell of a bank, and the bank of a cell.
LEMMA CellOfBank ==
    ASSUME NEW b \in Banks, NEW k \in 1 .. BankSize
    PROVE  /\ b * BankSize + k - 1 \in Cells
           /\ (b * BankSize + k - 1) \div BankSize = b
           /\ (b * BankSize + k - 1) % BankSize = k - 1
<1>1. NBanks \in Nat /\ BankSize \in Nat \ {0} /\ b \in Nat /\ b + 1 <= NBanks
      /\ k - 1 \in 0 .. BankSize - 1
  BY CartAssumption DEF Banks
<1>2. b * BankSize \in Nat /\ b * BankSize = BankSize * b
  BY <1>1
<1>3. (b + 1) * BankSize <= NBanks * BankSize
  BY <1>1
<1>4. (b + 1) * BankSize = b * BankSize + BankSize
  BY <1>1
<1>5. b * BankSize + k - 1 \in Nat /\ b * BankSize + k - 1 = BankSize * b + (k - 1)
  BY <1>1, <1>2
<1>6. b * BankSize + k - 1 <= NBanks * BankSize - 1
  BY <1>1, <1>2, <1>3, <1>4
<1> QED BY <1>1, <1>5, <1>6, DivUnique DEF Cells

\* A cell is in one bank.
LEMMA BankOfCell ==
    ASSUME NEW c \in Cells
    PROVE  /\ c \div BankSize \in Banks /\ c % BankSize \in 0 .. BankSize - 1
           /\ c = (c \div BankSize) * BankSize + (c % BankSize)
<1> DEFINE b == c \div BankSize
           r == c % BankSize
<1>1. NBanks \in Nat /\ BankSize \in Nat \ {0} /\ c \in Nat /\ c < NBanks * BankSize
  BY CartAssumption DEF Cells
<1>2. b \in Nat /\ r \in 0 .. BankSize - 1 /\ c = BankSize * b + r
  BY <1>1, DivMod
<1> HIDE DEF b, r
<1>3. b < NBanks
  <2> SUFFICES ASSUME b >= NBanks PROVE FALSE
    BY <1>1, <1>2
  <2>1. b * BankSize >= NBanks * BankSize
    BY <1>1, <1>2
  <2> QED BY <1>1, <1>2, <2>1
<1>4. b \in Banks /\ c = b * BankSize + r
  BY <1>1, <1>2, <1>3 DEF Banks
<1> QED BY <1>2, <1>4 DEF b, r

\* Banks are equal when their cells are.
LEMMA BankEqual ==
    ASSUME NEW m, NEW n, NEW b \in Banks,
           \A c \in Cells : c \div BankSize = b => m[c] = n[c]
    PROVE  Bank(m, b) = Bank(n, b)
<1>1. ASSUME NEW k \in 1 .. BankSize PROVE m[b * BankSize + k - 1] = n[b * BankSize + k - 1]
  BY CellOfBank
<1> QED BY <1>1 DEF Bank

\* A bank of a memory.
LEMMA BankType ==
    ASSUME NEW m \in Mems, NEW b \in Banks
    PROVE  Bank(m, b) \in BankData
<1>1. ASSUME NEW k \in 1 .. BankSize PROVE m[b * BankSize + k - 1] \in Nat
  BY CellOfBank DEF Mems
<1> QED BY <1>1 DEF Bank, BankData

\* A bank that is replaced holds what it is replaced by; the others are kept.
LEMMA WithBankIs ==
    ASSUME NEW m \in Mems, NEW b \in Banks, NEW d \in BankData
    PROVE  /\ WithBank(m, b, d) \in Mems
           /\ Bank(WithBank(m, b, d), b) = d
           /\ \A o \in Banks \ {b} : Bank(WithBank(m, b, d), o) = Bank(m, o)
<1> DEFINE w == WithBank(m, b, d)
<1>1. ASSUME NEW c \in Cells
      PROVE  /\ w[c] \in Nat
             /\ w[c] = IF c \div BankSize = b THEN d[(c % BankSize) + 1] ELSE m[c]
  <2>1. (c % BankSize) + 1 \in 1 .. BankSize
    BY BankOfCell, CartAssumption
  <2> QED BY <2>1 DEF WithBank, BankData, Mems
<1>2. w \in Mems
  BY <1>1 DEF WithBank, Mems
<1>3. Bank(w, b) = d
  <2>1. ASSUME NEW k \in 1 .. BankSize PROVE w[b * BankSize + k - 1] = d[k]
    <3> DEFINE c == b * BankSize + k - 1
    <3>1. c \in Cells /\ c \div BankSize = b /\ c % BankSize = k - 1
      BY CellOfBank
    <3>2. (k - 1) + 1 = k
      BY CartAssumption
    <3> HIDE DEF c, w
    <3>3. w[c] = d[k]
      BY <1>1, <3>1, <3>2
    <3> QED BY <3>3 DEF c
  <2> HIDE DEF w
  <2> QED BY <2>1 DEF Bank, BankData
<1>4. ASSUME NEW o \in Banks \ {b} PROVE Bank(w, o) = Bank(m, o)
  <2>1. \A c \in Cells : c \div BankSize = o => w[c] = m[c]
    BY <1>1
  <2> HIDE DEF w
  <2> QED BY <2>1, BankEqual
<1> QED BY <1>2, <1>3, <1>4

\* A memory can be told from none.
LEMMA MemoryIs == NoMemory \notin Mems
<1>1. NBanks * BankSize - 1 \in Nat
  BY CartAssumption
<1>2. 0 \in Cells /\ DOMAIN NoMemory = {}
  BY <1>1 DEF Cells, NoMemory
<1> QED BY <1>2 DEF Mems

\* A loop over the banks: a state before each, and one at the end.
BankLoop(F, S, c, G) ==
    F \in [0 .. NBanks -> S] /\ F[0] = c /\ \A b \in Banks : F[b + 1] = G[b][F[b]]

\* Such a loop can be run.
LEMMA BankLoopExists ==
    ASSUME NEW S, NEW c \in S, NEW G \in [Banks -> [S -> S]]
    PROVE  \E F : BankLoop(F, S, c, G)
<1> DEFINE H == [n \in Nat |-> IF n \in Banks THEN G[n] ELSE [x \in S |-> x]]
<1>1. H \in [Nat -> [S -> S]] /\ \A b \in Banks : H[b] = G[b]
  BY DEF Banks
<1>2. NBanks \in Nat /\ Banks = 0 .. NBanks - 1
  BY CartAssumption DEF Banks
<1> HIDE DEF H
<1>3. PICK F : Begins(S, c, H, NBanks, F)
  BY <1>1, <1>2, BeginsExists
<1>4. BankLoop(F, S, c, G)
  BY <1>1, <1>2, <1>3 DEF Begins, BankLoop
<1> QED BY <1>4

BankSeqs == Seq(BankData)

\* What is written goes bank by bank: nothing, or the next bank.
WritesOn(F, info, m, types) ==
    /\ F \in [0 .. NBanks -> BankSeqs] /\ F[0] = <<>>
    /\ \A b \in Banks :
          F[b + 1] = IF info[b] \in types THEN Append(F[b], Bank(m, b)) ELSE F[b]

\* The loop of cartridge_save and cartridge_save_nvram.
LEMMA SelectedWrites ==
    ASSUME NEW info \in Infos, NEW m \in Mems, NEW types
    PROVE  WritesOn(Selected(info, m, types), info, m, types)
<1> DEFINE G == [b \in Banks |-> [x \in BankSeqs |->
                    IF info[b] \in types THEN Append(x, Bank(m, b)) ELSE x]]
           Is(f) == f = [n \in 0 .. NBanks |->
                            IF n = 0 THEN <<>>
                            ELSE IF info[n - 1] \in types THEN Append(f[n - 1], Bank(m, n - 1))
                            ELSE f[n - 1]]
<1>1. G \in [Banks -> [BankSeqs -> BankSeqs]]
  <2>1. ASSUME NEW b \in Banks, NEW x \in BankSeqs PROVE Append(x, Bank(m, b)) \in BankSeqs
    BY BankType, AppendProperties DEF BankSeqs
  <2> QED BY <2>1
<1>2. <<>> \in BankSeqs
  BY DEF BankSeqs
<1>3. PICK F : BankLoop(F, BankSeqs, <<>>, G)
  <2> HIDE DEF G, Is
  <2> QED BY <1>1, <1>2, BankLoopExists
<1>4. ASSUME NEW n \in 0 .. NBanks, n # 0
      PROVE  F[n] = IF info[n - 1] \in types THEN Append(F[n - 1], Bank(m, n - 1)) ELSE F[n - 1]
  <2>1. n - 1 \in Banks /\ n - 1 \in 0 .. NBanks /\ (n - 1) + 1 = n
    BY <1>4, CartAssumption DEF Banks
  <2>2. F[n] = G[n - 1][F[n - 1]] /\ F[n - 1] \in BankSeqs
    <3> HIDE DEF G, Is
    <3> QED BY <1>3, <2>1 DEF BankLoop
  <2> QED BY <2>1, <2>2
<1>5. Is(F)
  <2> HIDE DEF G
  <2> QED BY <1>3, <1>4 DEF BankLoop
<1>6. Is(Selected(info, m, types))
  <2> HIDE DEF Is
  <2>1. Selected(info, m, types) = CHOOSE f : Is(f)
    BY DEF Selected, Is
  <2> QED BY <1>5, <2>1
<1> DEFINE W == Selected(info, m, types)
<1>7. W = [n \in 0 .. NBanks |->
              IF n = 0 THEN <<>>
              ELSE IF info[n - 1] \in types THEN Append(W[n - 1], Bank(m, n - 1))
              ELSE W[n - 1]]
  BY <1>6
<1> HIDE DEF W, Is, G
<1>8. \A b \in Banks : b + 1 \in 0 .. NBanks /\ b + 1 # 0 /\ (b + 1) - 1 = b /\ b \in 0 .. NBanks
  BY CartAssumption DEF Banks
<1>9. \A b \in Banks : W[b + 1] = IF info[b] \in types THEN Append(W[b], Bank(m, b)) ELSE W[b]
  BY <1>7, <1>8
<1>10. W[0] = <<>>
  BY <1>7, CartAssumption
<1>11. ASSUME NEW n \in Nat, n <= NBanks PROVE W[n] \in BankSeqs
  <2> DEFINE T == {k \in Nat : k <= NBanks => W[k] \in BankSeqs}
  <2>1. 0 \in T
    BY <1>2, <1>10
  <2>2. ASSUME NEW k \in T PROVE k + 1 \in T
    <3> SUFFICES ASSUME k + 1 <= NBanks PROVE W[k + 1] \in BankSeqs
      OBVIOUS
    <3>1. k \in Banks /\ W[k] \in BankSeqs
      BY CartAssumption DEF Banks
    <3>2. Append(W[k], Bank(m, k)) \in BankSeqs
      BY <3>1, BankType, AppendProperties DEF BankSeqs
    <3> QED BY <1>9, <3>1, <3>2
  <2>3. T = Nat
    <3> HIDE DEF T
    <3>1. T \in SUBSET Nat
      BY DEF T
    <3> QED BY <2>1, <2>2, <3>1, Induction
  <2> QED BY <1>11, <2>3
<1>12. W \in [0 .. NBanks -> BankSeqs]
  <2>1. \A n \in 0 .. NBanks : n \in Nat /\ n <= NBanks
    BY CartAssumption
  <2>2. \A n \in 0 .. NBanks : W[n] \in BankSeqs
    BY <1>11, <2>1
  <2>3. W = [n \in 0 .. NBanks |-> W[n]]
    BY <1>7
  <2> QED BY <2>2, <2>3
<1> QED BY <1>9, <1>10, <1>12 DEF WritesOn, W


\* What is written is kept: the p-th bank of what there is after n banks is that
\* of all that comes later.
LEMMA WritesKeep ==
    ASSUME NEW info, NEW m, NEW types, NEW F, WritesOn(F, info, m, types),
           \A b \in Banks : Bank(m, b) \in BankData,
           NEW n \in 0 .. NBanks, NEW p \in 1 .. Len(F[n])
    PROVE  p \in 1 .. Len(F[NBanks]) /\ F[NBanks][p] = F[n][p]
<1> DEFINE T == {k \in Nat : n + k <= NBanks => p \in 1 .. Len(F[n + k]) /\ F[n + k][p] = F[n][p]}
<1>0. NBanks \in Nat /\ n \in Nat /\ n <= NBanks
  BY CartAssumption
<1>1. 0 \in T
  BY <1>0
<1>2. ASSUME NEW k \in T PROVE k + 1 \in T
  <2> DEFINE b == n + k
  <2> SUFFICES ASSUME n + (k + 1) <= NBanks
               PROVE  p \in 1 .. Len(F[n + (k + 1)]) /\ F[n + (k + 1)][p] = F[n][p]
    OBVIOUS
  <2>1. b \in Banks /\ b \in 0 .. NBanks /\ n + (k + 1) = b + 1
    BY <1>0 DEF Banks
  <2>2. p \in 1 .. Len(F[b]) /\ F[b][p] = F[n][p]
    BY <1>0, <2>1
  <2> HIDE DEF b
  <2>3. F[b] \in BankSeqs /\ Bank(m, b) \in BankData
    BY <2>1 DEF WritesOn
  <2>4. /\ Len(Append(F[b], Bank(m, b))) = Len(F[b]) + 1
        /\ Append(F[b], Bank(m, b))[p] = F[b][p]
        /\ Len(F[b]) \in Nat
    BY <2>2, <2>3, AppendProperties, LenProperties DEF BankSeqs
  <2>5. F[b + 1] = F[b] \/ F[b + 1] = Append(F[b], Bank(m, b))
    BY <2>1 DEF WritesOn
  <2> QED BY <2>1, <2>2, <2>4, <2>5
<1>3. T = Nat
  <2> HIDE DEF T
  <2>1. T \in SUBSET Nat
    BY DEF T
  <2> QED BY <1>1, <1>2, <2>1, Induction
<1>4. NBanks - n \in T /\ n + (NBanks - n) = NBanks
  BY <1>0, <1>3
<1> QED BY <1>4

\* The next bank of the file is the next bank of its types.
LEMMA NextWritten ==
    ASSUME NEW info, NEW m \in Mems, NEW types, NEW F, WritesOn(F, info, m, types),
           NEW b \in Banks, info[b] \in types
    PROVE  /\ Len(F[b + 1]) = Len(F[b]) + 1 /\ Len(F[b]) \in Nat
           /\ Len(F[b]) < Len(F[NBanks])
           /\ F[NBanks][Len(F[b]) + 1] = Bank(m, b)
<1>1. b \in 0 .. NBanks /\ b + 1 \in 0 .. NBanks
  BY CartAssumption DEF Banks
<1>2. \A o \in Banks : Bank(m, o) \in BankData
  BY BankType
<1>3. F[b] \in BankSeqs /\ F[b + 1] = Append(F[b], Bank(m, b))
  BY <1>1 DEF WritesOn
<1>4. /\ Len(F[b + 1]) = Len(F[b]) + 1 /\ F[b + 1][Len(F[b]) + 1] = Bank(m, b)
      /\ Len(F[b]) \in Nat
  BY <1>2, <1>3, AppendProperties, LenProperties DEF BankSeqs
<1>5. Len(F[b]) + 1 \in 1 .. Len(F[b + 1])
  BY <1>4
<1>6. /\ Len(F[b]) + 1 \in 1 .. Len(F[NBanks])
      /\ F[NBanks][Len(F[b]) + 1] = F[b + 1][Len(F[b]) + 1]
  BY <1>1, <1>2, <1>5, WritesKeep
<1> QED BY <1>4, <1>6

\* A bank of another type is passed over.
LEMMA NotWritten ==
    ASSUME NEW info, NEW m, NEW types, NEW F, WritesOn(F, info, m, types),
           NEW b \in Banks, info[b] \notin types
    PROVE  F[b + 1] = F[b]
BY DEF WritesOn

-----------------------------------------------------------------------------
(* The loop of cartridge_load *)

Loads == [ok : BOOLEAN, pos : Nat, npos : Nat, mem : Mems]

\* A turn of the loop.
LEMMA LoadBankType ==
    ASSUME crt \in CartFiles, nvfile \in CartFiles, NEW b \in Banks, NEW s \in Loads,
           NEW random \in Nat
    PROVE  LoadBank(s, b, random) \in Loads
<1>1. /\ s.ok \in BOOLEAN /\ s.pos \in Nat /\ s.npos \in Nat /\ s.mem \in Mems
      /\ s = [ok |-> s.ok, pos |-> s.pos, npos |-> s.npos, mem |-> s.mem]
  BY DEF Loads
<1>2. crt.banks \in BankSeqs /\ nvfile.banks \in BankSeqs
  BY DEF CartFiles, BankSeqs
<1>3. FromCart(s, b) \in Loads
  <2>1. CASE s.pos < Len(crt.banks)
    <3>1. s.pos + 1 \in 1 .. Len(crt.banks)
      BY <1>1, <1>2, <2>1, LenProperties DEF BankSeqs
    <3>2. crt.banks[s.pos + 1] \in BankData
      BY <1>2, <3>1, ElementOfSeq DEF BankSeqs
    <3>3. WithBank(s.mem, b, crt.banks[s.pos + 1]) \in Mems
      BY <1>1, <3>2, WithBankIs
    <3> DEFINE w == WithBank(s.mem, b, crt.banks[s.pos + 1])
    <3>4. FromCart(s, b) = [s EXCEPT !.mem = w, !.pos = s.pos + 1]
      BY <2>1 DEF FromCart
    <3>5. w \in Mems /\ s.pos + 1 \in Nat
      BY <1>1, <3>3
    <3> HIDE DEF w
    <3> QED BY <3>4, <3>5 DEF Loads
  <2>2. CASE ~ (s.pos < Len(crt.banks))
    BY <1>1, <2>2 DEF FromCart, Loads
  <2> QED BY <2>1, <2>2
<1>4. FromNvram(s, b) \in Loads
  <2>1. CASE s.npos < Len(nvfile.banks)
    <3>1. s.npos + 1 \in 1 .. Len(nvfile.banks)
      BY <1>1, <1>2, <2>1, LenProperties DEF BankSeqs
    <3>2. nvfile.banks[s.npos + 1] \in BankData
      BY <1>2, <3>1, ElementOfSeq DEF BankSeqs
    <3>3. WithBank(s.mem, b, nvfile.banks[s.npos + 1]) \in Mems
      BY <1>1, <3>2, WithBankIs
    <3>4. Skipped(s.pos) \in Nat
      <4>1. Len(crt.banks) \in Nat /\ (crt.banks # <<>> => Len(crt.banks) > 0)
        BY <1>2, LenProperties, EmptySeq DEF BankSeqs
      <4> QED BY <4>1 DEF Skipped
    <3> DEFINE w == WithBank(s.mem, b, nvfile.banks[s.npos + 1])
               p == Skipped(s.pos)
    <3>5. FromNvram(s, b) = [s EXCEPT !.mem = w, !.npos = s.npos + 1, !.pos = p]
      BY <2>1 DEF FromNvram
    <3>6. w \in Mems /\ s.npos + 1 \in Nat /\ p \in Nat
      BY <1>1, <3>3, <3>4
    <3> HIDE DEF w, p
    <3> QED BY <3>5, <3>6 DEF Loads
  <2>2. CASE ~ (s.npos < Len(nvfile.banks))
    BY <1>1, <2>2 DEF FromNvram, Loads
  <2> QED BY <2>1, <2>2
<1>5. [s EXCEPT !.mem = WithBank(@, b, [k \in 1 .. BankSize |-> random])] \in Loads
  <2>1. [k \in 1 .. BankSize |-> random] \in BankData
    BY DEF BankData
  <2>2. WithBank(s.mem, b, [k \in 1 .. BankSize |-> random]) \in Mems
    BY <1>1, <2>1, WithBankIs
  <2> QED BY <1>1, <2>2 DEF Loads
<1> QED BY <1>3, <1>4, <1>5 DEF LoadBank

LoadStart == [ok |-> TRUE, pos |-> 0, npos |-> 0, mem |-> NewMemory]

\* The loop, bank by bank.
LEMMA LoadLoopIs ==
    ASSUME crt \in CartFiles, nvfile \in CartFiles, NEW random \in Nat
    PROVE  /\ LoadLoop(random) \in [0 .. NBanks -> Loads]
           /\ LoadLoop(random)[0] = LoadStart
           /\ \A b \in Banks :
                 LoadLoop(random)[b + 1] = LoadBank(LoadLoop(random)[b], b, random)
<1> DEFINE G == [b \in Banks |-> [x \in Loads |-> LoadBank(x, b, random)]]
           Is(f) == f = [n \in 0 .. NBanks |->
                            IF n = 0 THEN [ok |-> TRUE, pos |-> 0, npos |-> 0, mem |-> NewMemory]
                            ELSE LoadBank(f[n - 1], n - 1, random)]
<1>1. G \in [Banks -> [Loads -> Loads]]
  BY LoadBankType
<1>2. LoadStart \in Loads
  BY CartAssumption DEF LoadStart, Loads, NewMemory, Mems
<1>3. PICK F : BankLoop(F, Loads, LoadStart, G)
  <2> HIDE DEF G, Is
  <2> QED BY <1>1, <1>2, BankLoopExists
<1>4. ASSUME NEW n \in 0 .. NBanks, n # 0
      PROVE  F[n] = LoadBank(F[n - 1], n - 1, random)
  <2>1. n - 1 \in Banks /\ n - 1 \in 0 .. NBanks /\ (n - 1) + 1 = n
    BY <1>4, CartAssumption DEF Banks
  <2>2. F[n] = G[n - 1][F[n - 1]] /\ F[n - 1] \in Loads
    <3> HIDE DEF G, Is
    <3> QED BY <1>3, <2>1 DEF BankLoop
  <2> QED BY <2>1, <2>2
<1>5. Is(F)
  <2> HIDE DEF G
  <2> QED BY <1>3, <1>4 DEF BankLoop, LoadStart
<1> DEFINE W == LoadLoop(random)
<1>6. Is(W)
  <2> HIDE DEF Is
  <2>1. W = CHOOSE f : Is(f)
    BY DEF LoadLoop, Is
  <2> HIDE DEF W
  <2> QED BY <1>5, <2>1
<1> HIDE DEF W
<1>7. ASSUME NEW n \in 0 .. NBanks, n # 0
      PROVE  W[n] = LoadBank(W[n - 1], n - 1, random)
  BY <1>6, <1>7
<1>8. W[0] = LoadStart /\ W = [n \in 0 .. NBanks |-> W[n]]
  BY <1>6, CartAssumption DEF LoadStart
<1> HIDE DEF Is, G
<1>9. ASSUME NEW b \in Banks PROVE W[b + 1] = LoadBank(W[b], b, random)
  <2>1. b + 1 \in 0 .. NBanks /\ b + 1 # 0 /\ (b + 1) - 1 = b
    BY CartAssumption DEF Banks
  <2>2. W[b + 1] = LoadBank(W[(b + 1) - 1], (b + 1) - 1, random)
    BY <1>7, <2>1
  <2> QED BY <2>1, <2>2
<1>10. ASSUME NEW n \in Nat, n <= NBanks PROVE W[n] \in Loads
  <2> DEFINE T == {k \in Nat : k <= NBanks => W[k] \in Loads}
  <2>1. 0 \in T
    BY <1>2, <1>8
  <2>2. ASSUME NEW k \in T PROVE k + 1 \in T
    <3> SUFFICES ASSUME k + 1 <= NBanks PROVE W[k + 1] \in Loads
      OBVIOUS
    <3>1. k \in Banks /\ W[k] \in Loads
      BY CartAssumption DEF Banks
    <3> QED BY <1>9, <3>1, LoadBankType
  <2>3. T = Nat
    <3> HIDE DEF T
    <3>1. T \in SUBSET Nat
      BY DEF T
    <3> QED BY <2>1, <2>2, <3>1, Induction
  <2> QED BY <1>10, <2>3
<1>11. W \in [0 .. NBanks -> Loads]
  <2>1. \A n \in 0 .. NBanks : W[n] \in Loads
    BY <1>10, CartAssumption
  <2> QED BY <1>8, <2>1
<1> QED BY <1>8, <1>9, <1>11 DEF W

-----------------------------------------------------------------------------
(* Both files, read in step *)

\* What memory m holds of a bank, in terms of how it was made and left.
AsLeft(m, b) ==
    /\ made.info[b] \in Payload \ Nvram => Bank(m, b) = Bank(made.mem, b)
    /\ made.info[b] \in Nvram /\ nvfile.here => Bank(m, b) = Bank(left, b)
    /\ made.info[b] = "INITIALIZED_NVRAM" /\ ~ nvfile.here => Bank(m, b) = Bank(made.mem, b)

\* The files are whole: P and V are their banks as they were written.
WholeCart(P) ==
    /\ crt.info = made.info /\ crt.banks = P[NBanks]
    /\ WritesOn(P, made.info, made.mem, Payload)
WholeNvram(V) ==
    nvfile.here =>
        /\ left \in Mems /\ nvfile.banks = V[NBanks]
        /\ WritesOn(V, made.info, left, Nvram)

\* After n banks the second file is read as far as it was written, and so is the
\* first, as long as nothing has been taken from the second.
ReadSoFar(n, s, P, V) ==
    /\ s.ok
    /\ nvfile.here => s.npos = Len(V[n])
    /\ (\A o \in Banks : o < n /\ made.info[o] \in Nvram => ~ nvfile.here) => s.pos = Len(P[n])
    /\ \A o \in Banks : o < n => AsLeft(s.mem, o)

\* What holds of the banks before b, and of b, holds before the next one.
LEMMA AsLeftOn ==
    ASSUME NEW b \in Banks, NEW m, NEW n, AsLeft(n, b),
           \A o \in Banks : o < b => AsLeft(m, o) /\ Bank(n, o) = Bank(m, o)
    PROVE  \A o \in Banks : o < b + 1 => AsLeft(n, o)
<1> SUFFICES ASSUME NEW o \in Banks, o < b + 1 PROVE AsLeft(n, o)
  OBVIOUS
<1>1. b \in Nat /\ o \in Nat
  BY CartAssumption DEF Banks
<1>2. CASE o = b
  BY <1>2
<1>3. CASE o < b
  BY <1>3 DEF AsLeft
<1> QED BY <1>1, <1>2, <1>3

\* One bank more is read in step.
LEMMA LoadStep ==
    ASSUME CartTypes, NvramLast, NEW P, WholeCart(P), NEW V, WholeNvram(V),
           NEW random \in Nat, NEW b \in Banks, NEW s \in Loads, ReadSoFar(b, s, P, V)
    PROVE  ReadSoFar(b + 1, LoadBank(s, b, random), P, V)
<1> SUFFICES ASSUME NEW n, n = LoadBank(s, b, random) PROVE ReadSoFar(b + 1, n, P, V)
  OBVIOUS
<1> DEFINE type == made.info[b]
           First == \A o \in Banks : o < b /\ made.info[o] \in Nvram => ~ nvfile.here
           FirstOn == \A o \in Banks : o < b + 1 /\ made.info[o] \in Nvram => ~ nvfile.here
<1>1. /\ s.ok /\ s.mem \in Mems /\ s.pos \in Nat /\ s.npos \in Nat
      /\ nvfile.here => s.npos = Len(V[b])
      /\ First => s.pos = Len(P[b])
      /\ \A o \in Banks : o < b => AsLeft(s.mem, o)
  BY DEF ReadSoFar, Loads
<1>2. crt.info[b] = type /\ type \in Types /\ type # "UNINITIALIZED_NVRAM"
  BY DEF WholeCart, CartTypes, Infos, NvramLast
<1>3. made.mem \in Mems /\ crt.banks \in BankSeqs /\ nvfile.banks \in BankSeqs
  BY DEF CartTypes, CartFiles, BankSeqs
<1>4. (FirstOn => First) /\ b \in Nat /\ b < b + 1
  BY CartAssumption DEF Banks
<1>5. CASE type = "NONE" \/ type = "UNINITIALIZED_RAM"
  <2>1. type \notin Payload /\ type \notin Nvram
    BY <1>5 DEF Payload, Nvram
  <2>2. P[b + 1] = P[b] /\ (nvfile.here => V[b + 1] = V[b])
    BY <2>1, NotWritten DEF WholeCart, WholeNvram
  <2>3. /\ n.ok /\ n.pos = s.pos /\ n.npos = s.npos
        /\ \A o \in Banks : o < b => Bank(n.mem, o) = Bank(s.mem, o)
    <3>1. CASE type = "NONE"
      BY <1>1, <1>2, <3>1 DEF LoadBank
    <3>2. CASE type = "UNINITIALIZED_RAM"
      <4> DEFINE d == [k \in 1 .. BankSize |-> random]
                 w == WithBank(s.mem, b, d)
      <4>1. d \in BankData
        BY DEF BankData
      <4>2. \A o \in Banks \ {b} : Bank(w, o) = Bank(s.mem, o)
        <5> HIDE DEF d
        <5> QED BY <1>1, <4>1, WithBankIs
      <4>3. n = [s EXCEPT !.mem = w]
        BY <1>1, <1>2, <2>1, <3>2 DEF LoadBank
      <4> HIDE DEF w, d
      <4>4. n.ok = s.ok /\ n.pos = s.pos /\ n.npos = s.npos /\ n.mem = w
        BY <4>3 DEF Loads
      <4> QED BY <1>1, <1>4, <4>2, <4>4 DEF Banks
    <3> QED BY <1>5, <3>1, <3>2
  <2>4. AsLeft(n.mem, b)
    BY <1>5 DEF AsLeft, Payload, Nvram
  <2>5. \A o \in Banks : o < b + 1 => AsLeft(n.mem, o)
    BY <1>1, <2>3, <2>4, AsLeftOn
  <2> QED BY <1>1, <1>4, <2>2, <2>3, <2>5 DEF ReadSoFar
<1>6. CASE type = "INITIALIZED_NVRAM" /\ nvfile.here
  <2>1. type \in Nvram /\ left \in Mems /\ WritesOn(V, made.info, left, Nvram)
        /\ nvfile.banks = V[NBanks]
    BY <1>6 DEF Nvram, WholeNvram
  <2>2. /\ Len(V[b + 1]) = s.npos + 1 /\ s.npos < Len(nvfile.banks)
        /\ nvfile.banks[s.npos + 1] = Bank(left, b)
    BY <1>1, <1>6, <2>1, NextWritten
  <2>3. Bank(left, b) \in BankData
    BY <2>1, BankType
  <2> DEFINE w == WithBank(s.mem, b, Bank(left, b))
             p == Skipped(s.pos)
  <2>4. Bank(w, b) = Bank(left, b) /\ \A o \in Banks \ {b} : Bank(w, o) = Bank(s.mem, o)
    BY <1>1, <2>3, WithBankIs
  <2>5. n = [s EXCEPT !.mem = w, !.npos = s.npos + 1, !.pos = p]
    BY <1>1, <1>2, <1>6, <2>2 DEF LoadBank, FromNvram
  <2> HIDE DEF w, p
  <2>6. n.ok = s.ok /\ n.npos = s.npos + 1 /\ n.mem = w
    BY <2>5 DEF Loads
  <2>7. AsLeft(n.mem, b)
    BY <1>6, <2>4, <2>6 DEF AsLeft, Payload, Nvram
  <2>8. \A o \in Banks : o < b => Bank(n.mem, o) = Bank(s.mem, o)
    BY <1>4, <2>4, <2>6 DEF Banks
  <2>9. \A o \in Banks : o < b + 1 => AsLeft(n.mem, o)
    BY <1>1, <2>7, <2>8, AsLeftOn
  <2>10. ~ FirstOn
    BY <1>4, <1>6, <2>1
  <2> QED BY <1>1, <2>2, <2>6, <2>9, <2>10 DEF ReadSoFar
<1>7. CASE type \in Payload /\ ~ (type = "INITIALIZED_NVRAM" /\ nvfile.here)
  <2>1. First
    <3> SUFFICES ASSUME NEW o \in Banks, o < b, made.info[o] \in Nvram, nvfile.here PROVE FALSE
      OBVIOUS
    <3>1. made.info[o] = "INITIALIZED_NVRAM"
      BY DEF NvramLast, Nvram
    <3>2. b \in o + 1 .. NBanks - 1
      BY CartAssumption DEF Banks
    <3>3. type \notin Payload \ Nvram
      BY <3>1, <3>2 DEF NvramLast
    <3> QED BY <1>2, <1>7, <3>3 DEF Nvram
  <2>2. WritesOn(P, made.info, made.mem, Payload) /\ crt.banks = P[NBanks]
    BY DEF WholeCart
  <2>3. /\ Len(P[b + 1]) = s.pos + 1 /\ s.pos < Len(crt.banks)
        /\ crt.banks[s.pos + 1] = Bank(made.mem, b)
    BY <1>1, <1>3, <1>7, <2>1, <2>2, NextWritten
  <2>4. Bank(made.mem, b) \in BankData
    BY <1>3, BankType
  <2> DEFINE w == WithBank(s.mem, b, Bank(made.mem, b))
  <2>5. Bank(w, b) = Bank(made.mem, b) /\ \A o \in Banks \ {b} : Bank(w, o) = Bank(s.mem, o)
    BY <1>1, <2>4, WithBankIs
  <2>6. n = [s EXCEPT !.mem = w, !.pos = s.pos + 1]
    <3>1. type # "NONE"
      BY <1>7 DEF Payload
    <3> QED BY <1>1, <1>2, <1>7, <2>3, <3>1 DEF LoadBank, FromCart
  <2> HIDE DEF w
  <2>7. n.ok = s.ok /\ n.pos = s.pos + 1 /\ n.npos = s.npos /\ n.mem = w
    BY <2>6 DEF Loads
  <2>8. AsLeft(n.mem, b)
    BY <1>2, <1>7, <2>5, <2>7 DEF AsLeft, Payload, Nvram
  <2>9. \A o \in Banks : o < b => Bank(n.mem, o) = Bank(s.mem, o)
    BY <1>4, <2>5, <2>7 DEF Banks
  <2>10. \A o \in Banks : o < b + 1 => AsLeft(n.mem, o)
    BY <1>1, <2>8, <2>9, AsLeftOn
  <2>11. nvfile.here => V[b + 1] = V[b]
    <3>1. nvfile.here => type \notin Nvram
      BY <1>2, <1>7 DEF Nvram
    <3> QED BY <3>1, NotWritten DEF WholeNvram
  <2> QED BY <1>1, <1>4, <2>3, <2>7, <2>10, <2>11 DEF ReadSoFar
<1> QED BY <1>2, <1>5, <1>6, <1>7 DEF Types

\* A whole cartridge of the form of NvramLast is loaded, and as it was made and left.
LEMMA LoadsAsLeft ==
    ASSUME CartTypes, NvramLast, NEW P, WholeCart(P), NEW V, WholeNvram(V), NEW random \in Nat
    PROVE  /\ cartridge_load(random).ok
           /\ \A b \in Banks : AsLeft(cartridge_load(random).mem, b)
<1> DEFINE L == LoadLoop(random)
           T == {n \in Nat : n <= NBanks => ReadSoFar(n, L[n], P, V)}
<1>1. crt \in CartFiles /\ nvfile \in CartFiles
  BY DEF CartTypes
<1>2. /\ L \in [0 .. NBanks -> Loads] /\ L[0] = LoadStart
      /\ \A b \in Banks : L[b + 1] = LoadBank(L[b], b, random)
  BY <1>1, LoadLoopIs
<1> HIDE DEF L
<1>3. 0 \in T
  <2>1. P[0] = <<>> /\ (nvfile.here => V[0] = <<>>) /\ Len(<<>>) = 0
    BY DEF WholeCart, WholeNvram, WritesOn
  <2>2. \A o \in Banks : ~ (o < 0)
    BY CartAssumption DEF Banks
  <2> QED BY <1>2, <2>1, <2>2 DEF ReadSoFar, LoadStart
<1>4. ASSUME NEW n \in T PROVE n + 1 \in T
  <2> SUFFICES ASSUME n + 1 <= NBanks PROVE ReadSoFar(n + 1, L[n + 1], P, V)
    OBVIOUS
  <2>1. n \in Banks /\ n \in 0 .. NBanks /\ ReadSoFar(n, L[n], P, V)
    BY CartAssumption DEF Banks
  <2> QED BY <1>2, <2>1, LoadStep
<1>5. T = Nat
  <2> HIDE DEF T
  <2>1. T \in SUBSET Nat
    BY DEF T
  <2> QED BY <1>3, <1>4, <2>1, Induction
<1>6. ReadSoFar(NBanks, L[NBanks], P, V)
  BY <1>5, CartAssumption
<1>7. \A b \in Banks : b < NBanks
  BY CartAssumption DEF Banks
<1> QED BY <1>6, <1>7 DEF ReadSoFar, cartridge_load, L

-----------------------------------------------------------------------------
(* makecart *)

\* A command that keeps memory as it was asked for.
LEMMA CommandKeeps ==
    ASSUME CartInv, Command, CART' \in Mems, bank_info' \in Infos,
           made' \in [info : Infos, mem : Mems], bank_info' = made'.info,
           \A c \in Cells : made'.info[c \div BankSize] \in Payload => CART'[c] = made'.mem[c]
    PROVE  CartInv'
<1>1. running = "makecart" /\ running' = running /\ refused' = refused
      /\ crt' = crt /\ nvfile' = nvfile /\ left' = left /\ path' = path
  BY DEF Command, files
<1>2. nvfile = NoFile /\ ~ refused
  BY <1>1 DEF CartInv, InMemory
<1>3. CartTypes'
  BY <1>1 DEF CartInv, CartTypes
<1>4. InMemory'
  BY <1>1, <1>2 DEF InMemory, NoFile, NewInfo, Banks
<1>5. InCart' /\ InNvram' /\ InEmulator'
  BY <1>1 DEF InCart, InNvram, InEmulator
<1>6. LastNvramKept'
  BY <1>1, <1>2 DEF LastNvramKept, StartsAsLeft
<1> QED BY <1>3, <1>4, <1>5, <1>6 DEF CartInv

\* cartridge_define_bank_range.
LEMMA DefineKeeps ==
    ASSUME CartInv, NEW first \in Banks, NEW final \in Banks,
           NEW type \in {"NONE", "UNINITIALIZED_RAM", "UNINITIALIZED_NVRAM"},
           cartridge_define_bank_range(first, final, type)
    PROVE  CartInv'
<1>1. Command /\ CART' = CART /\ running = "makecart"
  BY DEF cartridge_define_bank_range, Command
<1>2. /\ bank_info \in Infos /\ made.info \in Infos /\ made.mem \in Mems /\ CART \in Mems
      /\ bank_info = made.info /\ type \in Types /\ type \notin Payload
      /\ \A c \in Cells : made.info[c \div BankSize] \in Payload => CART[c] = made.mem[c]
  BY <1>1 DEF CartInv, CartTypes, InMemory, Types, Payload
<1> DEFINE info == [b \in Banks |-> IF b \in first .. final THEN type ELSE bank_info[b]]
           m == [c \in Cells |-> IF c \div BankSize \in first .. final THEN Random
                                 ELSE made.mem[c]]
<1>3. bank_info' = info /\ made' = [info |-> info, mem |-> m]
  BY <1>2 DEF cartridge_define_bank_range, Typed, Asked
<1>4. info \in Infos
  BY <1>2 DEF Infos
<1>5. m \in Mems
  BY <1>2, CartAssumption DEF Mems
<1>6. ASSUME NEW c \in Cells, info[c \div BankSize] \in Payload PROVE CART[c] = m[c]
  <2>1. c \div BankSize \in Banks
    BY BankOfCell
  <2>2. c \div BankSize \notin first .. final /\ bank_info[c \div BankSize] \in Payload
    BY <1>2, <1>6, <2>1
  <2> QED BY <1>2, <2>2
<1> HIDE DEF info, m
<1> QED BY <1>1, <1>2, <1>3, <1>4, <1>5, <1>6, CommandKeeps

\* cartridge_fill.
LEMMA FillKeeps ==
    ASSUME CartInv, NEW first \in Banks, NEW final \in Banks, cartridge_fill(first, final)
    PROVE  CartInv'
<1>1. Command /\ running = "makecart"
  BY DEF cartridge_fill, Command
<1>2. /\ bank_info \in Infos /\ made.info \in Infos /\ made.mem \in Mems /\ CART \in Mems
      /\ bank_info = made.info
      /\ \A c \in Cells : made.info[c \div BankSize] \in Payload => CART[c] = made.mem[c]
  BY <1>1 DEF CartInv, CartTypes, InMemory
<1> DEFINE info == [b \in Banks |-> IF b \in first .. final THEN "INITIALIZED_NVRAM"
                                    ELSE bank_info[b]]
           m == [c \in Cells |-> IF c \div BankSize \in first .. final THEN Fill ELSE CART[c]]
           asked_m == [c \in Cells |-> IF c \div BankSize \in first .. final THEN Fill
                                       ELSE made.mem[c]]
<1>3. bank_info' = info /\ CART' = m /\ made' = [info |-> info, mem |-> asked_m]
  BY <1>2 DEF cartridge_fill, Typed, Asked
<1>4. info \in Infos
  <2>1. "INITIALIZED_NVRAM" \in Types
    BY DEF Types, Payload
  <2> QED BY <1>2, <2>1 DEF Infos
<1>5. m \in Mems /\ asked_m \in Mems
  BY <1>2, CartAssumption DEF Mems
<1>6. ASSUME NEW c \in Cells, info[c \div BankSize] \in Payload PROVE m[c] = asked_m[c]
  <2>1. c \div BankSize \in Banks
    BY BankOfCell
  <2>2. CASE c \div BankSize \in first .. final
    BY <2>2
  <2>3. CASE c \div BankSize \notin first .. final
    BY <1>2, <1>6, <2>1, <2>3
  <2> QED BY <2>2, <2>3
<1> HIDE DEF info, m, asked_m
<1> QED BY <1>1, <1>3, <1>4, <1>5, <1>6, CommandKeeps

-----------------------------------------------------------------------------
\* The bank before a cell that follows n cells.
LEMMA BankBefore ==
    ASSUME NEW n \in Nat \ {0}, NEW w \in Nat \ {0}
    PROVE  /\ (n - 1) \div w \in Nat
           /\ (n + w - 1) \div w = (n - 1) \div w + 1
           /\ \A c \in Nat : c \div w <= (n - 1) \div w <=> c < ((n + w - 1) \div w) * w
<1> DEFINE q == (n - 1) \div w
           r == (n - 1) % w
<1>1. q \in Nat /\ r \in 0 .. w - 1 /\ n - 1 = w * q + r
  <2>1. n - 1 \in Nat
    OBVIOUS
  <2> QED BY <2>1, DivMod
<1> HIDE DEF q, r
<1>2. w * q \in Nat /\ w * (q + 1) = w * q + w
  BY <1>1
<1>3. (n + w - 1) = w * (q + 1) + r /\ n + w - 1 \in Nat
  BY <1>1, <1>2
<1>4. (n + w - 1) \div w = q + 1
  BY <1>1, <1>3, DivUnique
<1>5. ASSUME NEW c \in Nat PROVE c \div w <= q <=> c < (q + 1) * w
  <2> DEFINE d == c \div w
             e == c % w
  <2>1. d \in Nat /\ e \in 0 .. w - 1 /\ c = w * d + e
    BY DivMod
  <2> HIDE DEF d, e
  <2>2. (q + 1) * w = w * q + w
    BY <1>1
  <2>3. ASSUME d <= q PROVE c < (q + 1) * w
    <3>1. w * d <= w * q
      BY <1>1, <2>1, <2>3
    <3> QED BY <1>1, <1>2, <2>1, <2>2, <3>1
  <2>4. ASSUME d > q PROVE c >= (q + 1) * w
    <3>1. w * d >= w * (q + 1)
      BY <1>1, <2>1, <2>4
    <3> QED BY <1>1, <1>2, <2>1, <2>2, <3>1
  <2>5. (q + 1) * w \in Nat
    BY <1>1
  <2> QED BY <1>1, <2>1, <2>3, <2>4, <2>5 DEF d
<1> QED BY <1>1, <1>4, <1>5 DEF q

\* Multiples of the bank size come off a quotient.
LEMMA BanksOn ==
    ASSUME NEW n \in Nat, NEW k \in Nat, NEW w \in Nat \ {0}
    PROVE  /\ (n * w + k) \div w = n + k \div w
           /\ (n <= k \div w <=> n * w <= k)
<1> DEFINE q == k \div w
           r == k % w
<1>1. q \in Nat /\ r \in 0 .. w - 1 /\ k = w * q + r
  BY DivMod
<1> HIDE DEF q, r
<1>2. n * w + k = w * (n + q) + r /\ n * w + k \in Nat /\ n + q \in Nat
  BY <1>1
<1>3. (n * w + k) \div w = n + q
  BY <1>1, <1>2, DivUnique
<1>4. n <= q => n * w <= k
  <2> SUFFICES ASSUME n <= q PROVE n * w <= k
    OBVIOUS
  <2>1. w * n <= w * q
    BY <1>1
  <2> QED BY <1>1, <2>1
<1>5. n > q => n * w > k
  <2> SUFFICES ASSUME n > q PROVE n * w > k
    OBVIOUS
  <2>1. w * n >= w * (q + 1) /\ w * (q + 1) = w * q + w
    BY <1>1
  <2> QED BY <1>1, <2>1
<1>6. n * w \in Nat
  OBVIOUS
<1> QED BY <1>1, <1>3, <1>4, <1>5, <1>6 DEF q

\* An import puts the file into its banks, fills up the last one, and leaves the
\* other banks alone, also when the file is cut at the end of the cartridge.
ImportIs(m, file, first, done) ==
    LET final == (done.end - 1) \div BankSize
        wanted == first - 1 + (Len(file) + BankSize - 1) \div BankSize
    IN  /\ done.mem \in Mems
        /\ \A b \in Banks : b \in first .. final <=> b \in first .. wanted
        /\ \A c \in Cells :
              done.mem[c] = IF c \div BankSize \in first .. final
                            THEN IF c - first * BankSize < Len(file)
                                 THEN file[c - first * BankSize + 1] ELSE Fill
                            ELSE m[c]

\* cartridge_import_files, in memory.
LEMMA ImportDoes ==
    ASSUME NEW m \in Mems, NEW file \in Seq(Nat), NEW first \in Banks,
           Len(file) > 0 \/ first > 0
    PROVE  ImportIs(m, file, first, Imported(m, file, first))
<1> DEFINE done == Imported(m, file, first)
           from == first * BankSize
           all == NBanks * BankSize
           len == Len(file)
           end == from + (IF len > all - from THEN all - from ELSE len)
           full == FillEnd(end)
           final == (end - 1) \div BankSize
           q == (len + BankSize - 1) \div BankSize
<1>1. /\ NBanks \in Nat \ {0} /\ BankSize \in Nat \ {0} /\ Fill \in Nat
      /\ first \in Nat /\ first < NBanks
  BY CartAssumption DEF Banks
<1>2. done = [end |-> end,
              mem |-> [c \in Cells |-> IF c \in from .. end - 1 THEN file[c - from + 1]
                                       ELSE IF c \in end .. full - 1 THEN Fill ELSE m[c]]]
  BY DEF Imported
<1>3. from \in Nat /\ all \in Nat /\ from < all /\ len \in Nat
  <2>1. first * BankSize < NBanks * BankSize
    BY <1>1
  <2>2. first * BankSize \in Nat /\ NBanks * BankSize \in Nat
    BY <1>1
  <2> QED BY <2>1, <2>2, LenProperties
<1>4. len > 0 \/ from > 0
  <2>1. first > 0 => first * BankSize > 0
    BY <1>1
  <2> QED BY <2>1
<1>5. Cells = 0 .. all - 1
  BY DEF Cells
<1>6. full = ((end + BankSize - 1) \div BankSize) * BankSize
  BY DEF FillEnd
<1> HIDE DEF done, full
<1>7. \A c \in Nat : first <= c \div BankSize <=> from <= c
  BY <1>1, BanksOn
<1>8. (from + (len + BankSize - 1)) \div BankSize = first + q
  <2>1. len + BankSize - 1 \in Nat
    BY <1>1, <1>3
  <2> QED BY <1>1, <2>1, BanksOn
<1>9. (all + (BankSize - 1)) \div BankSize = NBanks
  <2>1. BankSize - 1 \in Nat /\ (BankSize - 1) \div BankSize = 0
    <3>1. BankSize - 1 \in Nat /\ BankSize - 1 \in 0 .. BankSize - 1
          /\ BankSize - 1 = BankSize * 0 + (BankSize - 1) /\ 0 \in Nat
      BY <1>1
    <3> QED BY <1>1, <3>1, DivUnique
  <2> DEFINE k == BankSize - 1
  <2> HIDE DEF k
  <2>2. (NBanks * BankSize + k) \div BankSize = NBanks + k \div BankSize
    BY <1>1, <2>1, BanksOn DEF k
  <2>3. NBanks + k \div BankSize = NBanks
    BY <1>1, <2>1 DEF k
  <2> QED BY <2>2, <2>3 DEF k
<1>10. q \in Nat /\ len <= q * BankSize
  <2>1. len + BankSize - 1 \in Nat
    BY <1>1, <1>3
  <2> DEFINE r == (len + BankSize - 1) % BankSize
  <2>2. q \in Nat /\ r \in 0 .. BankSize - 1 /\ len + BankSize - 1 = BankSize * q + r
    BY <1>1, <2>1, DivMod
  <2> HIDE DEF q, r
  <2>3. BankSize * q = q * BankSize /\ BankSize * q \in Nat
    BY <1>1, <2>2
  <2> QED BY <1>1, <1>3, <2>2, <2>3
<1> HIDE DEF q
<1> DEFINE isCut == len > all - from
<1>11. end \in Nat \ {0} /\ from <= end /\ end <= all /\ end <= from + len
       /\ (isCut => end = all) /\ (~ isCut => end = from + len)
  BY <1>3, <1>4
<1>12. /\ final \in Nat /\ (end + BankSize - 1) \div BankSize = final + 1
       /\ \A c \in Nat : c \div BankSize <= final <=> c < full
  BY <1>1, <1>6, <1>11, BankBefore
<1>13. isCut => final = NBanks - 1 /\ first + q > NBanks
  <2> SUFFICES ASSUME isCut PROVE final = NBanks - 1 /\ first + q > NBanks
    OBVIOUS
  <2>1. end + BankSize - 1 = all + (BankSize - 1)
    BY <1>1, <1>3, <1>11
  <2>2. final + 1 = NBanks
    BY <1>9, <1>12, <2>1
  <2>3. first + q > NBanks
    <3> SUFFICES ASSUME first + q <= NBanks PROVE FALSE
      BY <1>1, <1>10
    <3>1. (first + q) * BankSize <= NBanks * BankSize
      BY <1>1, <1>10
    <3>2. (first + q) * BankSize = first * BankSize + q * BankSize /\ q * BankSize \in Nat
      BY <1>1, <1>10
    <3> QED BY <1>3, <1>10, <3>1, <3>2
  <2>4. final \in Nat /\ NBanks \in Nat
    BY <1>1, <1>12
  <2> HIDE DEF final
  <2>5. final = NBanks - 1
    BY ONLY <2>2, <2>4
  <2> QED BY <2>3, <2>5
<1>14. ~ isCut => final = first - 1 + q
  <2> SUFFICES ASSUME ~ isCut PROVE final = first - 1 + q
    OBVIOUS
  <2>1. end + BankSize - 1 = from + (len + BankSize - 1)
    BY <1>1, <1>3, <1>11
  <2>2. final + 1 = first + q
    BY <1>8, <1>12, <2>1
  <2> QED BY <1>1, <1>10, <1>12, <2>2
<1> HIDE DEF final
<1>15. full \in Nat
  <2>1. full = (final + 1) * BankSize
    BY <1>6, <1>12
  <2> QED BY <1>1, <1>12, <2>1
<1>16. ASSUME NEW b \in Banks PROVE b \in first .. final <=> b \in first .. first - 1 + q
  BY <1>1, <1>10, <1>12, <1>13, <1>14 DEF Banks
<1>17. end <= full
  <2>1. end - 1 \in Nat
    BY <1>11
  <2>2. end - 1 < full
    BY <1>12, <2>1 DEF final
  <2> QED BY <1>11, <1>15, <2>2
<1> HIDE DEF end
<1>18. ASSUME NEW c \in Cells
       PROVE  done.mem[c] = IF c \div BankSize \in first .. final
                            THEN IF c - from < len THEN file[c - from + 1] ELSE Fill
                            ELSE m[c]
  <2>1. c \in Nat /\ c < all /\ c \div BankSize \in Nat
    BY <1>3, <1>5, BankOfCell DEF Banks
  <2>2. c \div BankSize \in first .. final <=> from <= c /\ c < full
    <3> DEFINE b == c \div BankSize
    <3>1. b \in Nat /\ (first <= b <=> from <= c) /\ (b <= final <=> c < full)
      BY <1>7, <1>12, <2>1
    <3> HIDE DEF b, from
    <3>2. b \in first .. final <=> from <= c /\ c < full
      BY <1>1, <1>12, <3>1
    <3> QED BY <3>2 DEF b
  <2>3. full \in Nat
    BY <1>15
  <2>4. done.mem[c] = IF c \in from .. end - 1 THEN file[c - from + 1]
                      ELSE IF c \in end .. full - 1 THEN Fill ELSE m[c]
    BY <1>2
  <2> HIDE DEF from, len, all
  <2>5. CASE from <= c /\ c < end
    <3>1. c \in from .. end - 1 /\ c < full /\ c - from < len
      BY <1>3, <1>11, <1>17, <2>1, <2>3, <2>5
    <3> QED BY <2>2, <2>4, <2>5, <3>1
  <2>6. CASE end <= c /\ c < full
    <3>1. c \notin from .. end - 1 /\ c \in end .. full - 1 /\ from <= c
      BY <1>3, <1>11, <2>1, <2>3, <2>6
    <3>2. ~ (c - from < len)
      BY <1>3, <1>11, <2>1, <2>6
    <3> QED BY <2>2, <2>4, <2>6, <3>1, <3>2
  <2>7. CASE c < from \/ c >= full
    <3>1. c \notin from .. end - 1 /\ c \notin end .. full - 1
      BY <1>3, <1>11, <1>17, <2>1, <2>3, <2>7
    <3>2. ~ (from <= c /\ c < full)
      BY <1>3, <2>1, <2>3, <2>7
    <3> QED BY <2>2, <2>4, <3>1, <3>2
  <2> QED BY <1>3, <1>11, <2>1, <2>3, <2>5, <2>6, <2>7
<1>19. done.mem \in Mems
  <2>1. ASSUME NEW c \in Cells PROVE done.mem[c] \in Nat
    <3>1. c \in Nat /\ c \div BankSize \in Nat
      BY <1>3, <1>5, BankOfCell DEF Banks
    <3>2. c \div BankSize \in first .. final => c - from + 1 \in Nat \ {0}
      <4>1. c \div BankSize \in first .. final => first <= c \div BankSize
        BY <1>1, <1>12
      <4>2. c \div BankSize \in first .. final => from <= c
        BY <1>7, <3>1, <4>1
      <4> HIDE DEF from
      <4> QED BY <1>3, <3>1, <4>2
    <3>3. c \div BankSize \in first .. final /\ c - from < len => file[c - from + 1] \in Nat
      <4>1. c - from < len /\ c - from + 1 \in Nat \ {0} => c - from + 1 \in 1 .. Len(file)
        BY <1>3, <3>1
      <4> QED BY <3>2, <4>1, ElementOfSeq
    <3>4. m[c] \in Nat
      BY DEF Mems
    <3> QED BY <1>1, <1>18, <3>3, <3>4
  <2>2. done.mem = [c \in Cells |-> done.mem[c]]
    BY <1>2
  <2> QED BY <2>1, <2>2 DEF Mems
<1>20. done.end = end
  BY <1>2
<1> QED BY <1>16, <1>18, <1>19, <1>20 DEF ImportIs, final, q, done

\* A file's cells.
LEMMA FileIs ==
    ASSUME NEW size \in Nat
    PROVE  File(size) \in Seq(Nat) /\ Len(File(size)) = size
<1>1. \A k \in 1 .. size : 10 * size + k \in Nat
  OBVIOUS
<1> QED BY <1>1 DEF File

\* cartridge_import_files.
LEMMA ImportKeeps ==
    ASSUME CartInv, NEW file \in Seq(Nat), NEW first \in Banks, NEW type \in Payload,
           Len(file) > 0 \/ first > 0, cartridge_import_files(file, first, type)
    PROVE  CartInv'
<1> DEFINE done == Imported(CART, file, first)
           final == (done.end - 1) \div BankSize
           wanted == first - 1 + (Len(file) + BankSize - 1) \div BankSize
           info == [b \in Banks |-> IF b \in first .. final THEN type ELSE bank_info[b]]
           asked_info == [b \in Banks |-> IF b \in first .. wanted THEN type ELSE made.info[b]]
           asked_m == [c \in Cells |->
                         IF c \div BankSize \in first .. wanted
                         THEN IF c - first * BankSize < Len(file)
                              THEN file[c - first * BankSize + 1] ELSE Fill
                         ELSE made.mem[c]]
<1>1. Command /\ running = "makecart"
  BY DEF cartridge_import_files, Command
<1>2. /\ bank_info \in Infos /\ made.info \in Infos /\ made.mem \in Mems /\ CART \in Mems
      /\ bank_info = made.info /\ type \in Types
      /\ \A c \in Cells : made.info[c \div BankSize] \in Payload => CART[c] = made.mem[c]
  BY <1>1 DEF CartInv, CartTypes, InMemory, Types
<1>3. /\ CART' = done.mem /\ bank_info' = info
      /\ made' = [info |-> asked_info, mem |-> asked_m]
  BY DEF cartridge_import_files, Typed, Asked
<1>4. ImportIs(CART, file, first, done)
  BY <1>2, ImportDoes
<1> HIDE DEF done
<1>5. /\ done.mem \in Mems
      /\ \A b \in Banks : b \in first .. final <=> b \in first .. wanted
      /\ \A c \in Cells :
            done.mem[c] = IF c \div BankSize \in first .. final
                          THEN IF c - first * BankSize < Len(file)
                               THEN file[c - first * BankSize + 1] ELSE Fill
                          ELSE CART[c]
  BY <1>4 DEF ImportIs
<1> HIDE DEF final, wanted
<1>6. info = asked_info /\ info \in Infos
  BY <1>2, <1>5 DEF Infos
<1>7. ASSUME NEW c \in Cells
      PROVE  /\ asked_m[c] \in Nat
             /\ info[c \div BankSize] \in Payload => done.mem[c] = asked_m[c]
  <2>1. c \div BankSize \in Banks /\ done.mem[c] \in Nat /\ made.mem[c] \in Nat
    BY <1>2, <1>5, BankOfCell DEF Mems
  <2>2. CASE c \div BankSize \in first .. final
    <3>1. asked_m[c] = done.mem[c]
      BY <1>5, <2>1, <2>2
    <3> QED BY <2>1, <3>1
  <2>3. CASE c \div BankSize \notin first .. final
    <3>1. asked_m[c] = made.mem[c] /\ done.mem[c] = CART[c]
          /\ info[c \div BankSize] = made.info[c \div BankSize]
      BY <1>2, <1>5, <2>1, <2>3
    <3> QED BY <1>2, <2>1, <3>1
  <2> QED BY <2>2, <2>3
<1>8. asked_m \in Mems
  BY <1>7 DEF Mems
<1> HIDE DEF info, asked_info, asked_m
<1> QED BY <1>1, <1>3, <1>5, <1>6, <1>7, <1>8, CommandKeeps

\* What is written depends on the banks of its types only.
LEMMA SelectedSame ==
    ASSUME NEW info \in Infos, NEW types, NEW m \in Mems, NEW n \in Mems,
           \A b \in Banks : info[b] \in types => Bank(m, b) = Bank(n, b)
    PROVE  Selected(info, m, types)[NBanks] = Selected(info, n, types)[NBanks]
<1> DEFINE F == Selected(info, m, types)
           G == Selected(info, n, types)
           T == {k \in Nat : k <= NBanks => F[k] = G[k]}
<1>1. WritesOn(F, info, m, types) /\ WritesOn(G, info, n, types)
  BY SelectedWrites
<1> HIDE DEF F, G
<1>2. 0 \in T
  BY <1>1 DEF WritesOn
<1>3. ASSUME NEW k \in T PROVE k + 1 \in T
  <2> SUFFICES ASSUME k + 1 <= NBanks PROVE F[k + 1] = G[k + 1]
    OBVIOUS
  <2>1. k \in Banks /\ F[k] = G[k]
    BY CartAssumption DEF Banks
  <2>2. CASE info[k] \in types
    <3>1. F[k + 1] = Append(F[k], Bank(m, k)) /\ G[k + 1] = Append(G[k], Bank(n, k))
      BY <1>1, <2>1, <2>2 DEF WritesOn
    <3>2. Bank(m, k) = Bank(n, k)
      BY <2>1, <2>2
    <3> QED BY <2>1, <3>1, <3>2
  <2>3. CASE info[k] \notin types
    BY <1>1, <2>1, <2>3 DEF WritesOn
  <2> QED BY <2>2, <2>3
<1>4. T = Nat
  <2> HIDE DEF T
  <2>1. T \in SUBSET Nat
    BY DEF T
  <2> QED BY <1>2, <1>3, <2>1, Induction
<1>5. NBanks \in Nat
  BY CartAssumption
<1> QED BY <1>4, <1>5 DEF F, G

\* What is written is banks.
LEMMA SelectedType ==
    ASSUME NEW info \in Infos, NEW types, NEW m \in Mems
    PROVE  Selected(info, m, types)[NBanks] \in BankSeqs
<1>1. WritesOn(Selected(info, m, types), info, m, types) /\ NBanks \in 0 .. NBanks
  BY SelectedWrites, CartAssumption
<1> QED BY <1>1 DEF WritesOn

\* A file that is written: typed, and whole unless it is cut.
LEMMA SavedIs ==
    ASSUME bank_info \in Infos, NEW x \in BankSeqs, NEW n \in 0 .. Len(x)
    PROVE  /\ Saved(x, n) \in CartFiles /\ Saved(x, n).good /\ Saved(x, n).here
           /\ Saved(x, n).info = bank_info
           /\ Saved(x, n).cut = (n < Len(x))
           /\ ~ Saved(x, n).cut => n = Len(x) /\ Saved(x, n).banks = x
<1> DEFINE part == SubSeq(x, 1, n)
<1>1. Len(x) \in Nat /\ n \in Nat
  BY LenProperties DEF BankSeqs
<1>2. part \in BankSeqs /\ Len(part) = n /\ \A i \in 1 .. n : part[i] = x[i]
  <2>1. \A i \in 1 .. n : x[i] \in BankData
    BY <1>1, ElementOfSeq DEF BankSeqs
  <2>2. part = [i \in 1 .. n |-> x[i]]
    BY <1>1 DEF BankSeqs
  <2> HIDE DEF part
  <2> QED BY <1>1, <2>1, <2>2 DEF BankSeqs
<1> HIDE DEF part
<1>3. Saved(x, n) = [here |-> TRUE, good |-> TRUE, cut |-> n < Len(x), info |-> bank_info,
                     banks |-> part]
  BY DEF Saved, part
<1>4. n = Len(x) => part = x
  BY <1>2, SeqEqual DEF BankSeqs
<1>5. ~ (n < Len(x)) => n = Len(x)
  BY <1>1
<1> DEFINE y == Saved(x, n)
<1>6. y \in CartFiles
  <2>1. (n < Len(x)) \in BOOLEAN
    OBVIOUS
  <2> QED BY <1>2, <1>3, <2>1 DEF CartFiles, BankSeqs
<1>7. y.good /\ y.here /\ y.info = bank_info /\ y.cut = (n < Len(x)) /\ y.banks = part
  BY <1>3
<1> HIDE DEF y
<1>8. ~ y.cut => n = Len(x) /\ y.banks = x
  BY <1>4, <1>5, <1>7
<1> QED BY <1>6, <1>7, <1>8 DEF y

\* The cartridge is saved, or something else is put in its place.
LEMMA SaveKeeps == ASSUME CartInv, cartridge_save PROVE CartInv'
<1> DEFINE x == Contents(Payload)
<1>1. running = "makecart" /\ running' = "off" /\ CART' = NoMemory
      /\ UNCHANGED <<bank_info, path, nvfile, made, left, found, refused>>
      /\ \E n \in 0 .. Len(x) : crt' = Saved(x, n)
  BY DEF cartridge_save, history
<1>2. /\ bank_info \in Infos /\ made.info \in Infos /\ made.mem \in Mems /\ CART \in Mems
      /\ bank_info = made.info /\ nvfile = NoFile /\ ~ refused
      /\ \A c \in Cells : made.info[c \div BankSize] \in Payload => CART[c] = made.mem[c]
  BY <1>1 DEF CartInv, CartTypes, InMemory
<1>3. x = Selected(made.info, made.mem, Payload)[NBanks]
  <2>1. ASSUME NEW b \in Banks, made.info[b] \in Payload PROVE Bank(CART, b) = Bank(made.mem, b)
    <3>1. \A c \in Cells : c \div BankSize = b => CART[c] = made.mem[c]
      BY <1>2, <2>1
    <3> QED BY <3>1, BankEqual
  <2> QED BY <1>2, <2>1, SelectedSame DEF Contents
<1>4. x \in BankSeqs
  BY <1>2, SelectedType DEF Contents
<1> HIDE DEF x
<1>5. PICK n \in 0 .. Len(x) : crt' = Saved(x, n)
  BY <1>1
<1>6. crt' \in CartFiles /\ crt'.info = made.info /\ (~ crt'.cut => crt'.banks = x)
  BY <1>2, <1>4, <1>5, SavedIs
<1>7. CartTypes'
  BY <1>1, <1>6 DEF CartInv, CartTypes
<1>8. InMemory' /\ InEmulator' /\ InCart'
  BY <1>1, <1>3, <1>6 DEF InMemory, InEmulator, InCart
<1>9. InNvram'
  BY <1>1, <1>2 DEF InNvram, NoFile
<1>10. LastNvramKept'
  BY <1>1, <1>2 DEF LastNvramKept, StartsAsLeft
<1> QED BY <1>7, <1>8, <1>9, <1>10 DEF CartInv

\* A file of another kind.
LEMMA OtherKeeps == ASSUME CartInv, OtherFile PROVE CartInv'
<1>1. running = "makecart" /\ running' = "off" /\ CART' = NoMemory
      /\ UNCHANGED <<bank_info, path, nvfile, made, left, found, refused>>
      /\ crt' = [Saved(<<>>, 0) EXCEPT !.good = FALSE]
  BY DEF OtherFile, history
<1>2. bank_info \in Infos /\ ~ refused
  BY <1>1 DEF CartInv, CartTypes, InMemory
<1>3. <<>> \in BankSeqs /\ 0 \in 0 .. Len(<<>>)
  BY DEF BankSeqs
<1>4. Saved(<<>>, 0) \in CartFiles
  BY <1>2, <1>3, SavedIs
<1>5. crt' \in CartFiles /\ ~ crt'.good
  BY <1>1, <1>4 DEF CartFiles
<1>6. CartTypes'
  BY <1>1, <1>5 DEF CartInv, CartTypes
<1>7. InMemory' /\ InEmulator' /\ InCart' /\ InNvram'
  BY <1>1, <1>5 DEF InMemory, InEmulator, InCart, InNvram
<1>8. LastNvramKept'
  BY <1>1, <1>2 DEF LastNvramKept, StartsAsLeft
<1> QED BY <1>6, <1>7, <1>8 DEF CartInv

-----------------------------------------------------------------------------
(* The emulator *)

\* A start: what is loaded is as it was made and left.
LEMMA StartKeeps == ASSUME CartInv, StartCart PROVE CartInv'
<1>1. PICK random \in {0, Random} :
         LET s == cartridge_load(random)
             ok == ~ crt.good \/ s.ok
         IN  /\ Started(ok)
             /\ bank_info' = crt.info
             /\ CART' = IF crt.good /\ s.ok THEN s.mem ELSE NoMemory
             /\ found' = CART'
             /\ path' = TRUE
             /\ refused' = (refused \/ ~ (ok \/ crt.cut \/ nvfile.cut))
  BY DEF StartCart
<1> DEFINE s == cartridge_load(random)
           ok == ~ crt.good \/ s.ok
<1>2. CartTypes /\ random \in Nat
  BY CartAssumption DEF CartInv
<1>3. s \in Loads
  <2>1. LoadLoop(random) \in [0 .. NBanks -> Loads] /\ NBanks \in 0 .. NBanks
    BY <1>2, LoadLoopIs, CartAssumption DEF CartTypes
  <2> QED BY <2>1 DEF cartridge_load
<1>4. NvramLast /\ crt.good /\ ~ crt.cut /\ ~ nvfile.cut /\ running = "off"
      => s.ok /\ \A b \in Banks : AsLeft(s.mem, b)
  <2> SUFFICES ASSUME NvramLast, crt.good, ~ crt.cut, ~ nvfile.cut, running = "off"
               PROVE  s.ok /\ \A b \in Banks : AsLeft(s.mem, b)
    OBVIOUS
  <2> DEFINE P == Selected(made.info, made.mem, Payload)
             V == Selected(made.info, left, Nvram)
  <2>1. made.info \in Infos /\ made.mem \in Mems
    BY <1>2 DEF CartTypes
  <2>2. WholeCart(P)
    <3>1. WritesOn(P, made.info, made.mem, Payload)
      BY <2>1, SelectedWrites
    <3> QED BY <3>1 DEF WholeCart, CartInv, InCart
  <2>3. WholeNvram(V)
    <3> SUFFICES ASSUME nvfile.here
                 PROVE  /\ left \in Mems /\ nvfile.banks = V[NBanks]
                        /\ WritesOn(V, made.info, left, Nvram)
      BY DEF WholeNvram
    <3>1. left \in Mems /\ nvfile.banks = V[NBanks]
      BY DEF CartInv, InNvram
    <3> QED BY <2>1, <3>1, SelectedWrites
  <2> HIDE DEF P, V, s
  <2> QED BY <1>2, <2>2, <2>3, LoadsAsLeft DEF s
<1> HIDE DEF s
<1>5. /\ running = "off" /\ running' = (IF ok THEN "emulator" ELSE "off")
      /\ UNCHANGED <<crt, nvfile, made, left>>
      /\ bank_info' = crt.info /\ found' = CART' /\ path' = TRUE
      /\ CART' = IF crt.good /\ s.ok THEN s.mem ELSE NoMemory
      /\ refused' = (refused \/ ~ (ok \/ crt.cut \/ nvfile.cut))
  BY <1>1 DEF Started, files, s
<1>6. s.ok \in BOOLEAN /\ s.mem \in Mems
  BY <1>3 DEF Loads
<1>7. CartTypes'
  <2>1. crt.info \in Infos /\ crt.good \in BOOLEAN
    BY <1>2 DEF CartTypes, CartFiles
  <2> HIDE DEF ok
  <2>2. CART' \in Mems \cup {NoMemory} /\ bank_info' \in Infos /\ path' \in BOOLEAN
        /\ refused' \in BOOLEAN /\ running' \in {"makecart", "off", "emulator"}
    BY <1>5, <1>6, <2>1
  <2> QED BY <1>2, <1>5, <2>2 DEF CartTypes
<1>8. InMemory' /\ InCart' /\ InNvram'
  <2>1. running' # "makecart"
    BY <1>5
  <2> QED BY <1>5, <2>1 DEF InMemory, InCart, InNvram, CartInv
<1>9. InEmulator'
  <2> SUFFICES ASSUME running' = "emulator", crt.good PROVE CART' \in Mems
    BY <1>5 DEF InEmulator
  <2>1. s.ok
    BY <1>5
  <2> QED BY <1>5, <1>6, <2>1
<1>10. LastNvramKept'
  <2> SUFFICES ASSUME NvramLast' PROVE StartsAsLeft'
    BY DEF LastNvramKept
  <2>1. NvramLast
    BY <1>5 DEF NvramLast
  <2>2. ~ refused
    BY <2>1 DEF CartInv, LastNvramKept, StartsAsLeft
  <2>3. ~ refused'
    BY <1>4, <1>5, <2>1, <2>2
  <2>4. ASSUME found' # NoMemory, ~ crt.cut, ~ nvfile.cut
        PROVE  \A b \in Banks : AsLeft(found', b)
    <3>1. crt.good /\ found' = s.mem
      BY <1>5, <2>4
    <3> QED BY <1>4, <1>5, <2>1, <2>4, <3>1
  <2> QED BY <1>5, <2>3, <2>4 DEF StartsAsLeft, AsLeft
<1> QED BY <1>7, <1>8, <1>9, <1>10 DEF CartInv

\* A start without a cartridge file.
LEMMA StartBinKeeps ==
    ASSUME CartInv, NEW file \in Seq(Nat), Len(file) > 0, StartBin(file)
    PROVE  CartInv'
<1> DEFINE done == Imported(NewMemory, file, 0)
           info == [b \in Banks |-> IF b * BankSize < done.end
                                    THEN "INITIALIZED_RAM" ELSE "UNINITIALIZED_RAM"]
<1>1. /\ running = "off" /\ running' = "emulator" /\ path' = FALSE
      /\ CART' = done.mem /\ bank_info' = info
      /\ UNCHANGED <<crt, nvfile, made, left, found, refused>>
  BY DEF StartBin, Started, files
<1>2. done.mem \in Mems
  <2>1. NewMemory \in Mems /\ 0 \in Banks
    BY CartAssumption DEF NewMemory, Mems, Banks
  <2>2. ImportIs(NewMemory, file, 0, done)
    BY <2>1, ImportDoes
  <2> HIDE DEF done
  <2> QED BY <2>2 DEF ImportIs
<1> HIDE DEF done
<1>3. info \in Infos
  BY DEF Infos, Types, Payload
<1> HIDE DEF info
<1>4. CartTypes'
  BY <1>1, <1>2, <1>3 DEF CartInv, CartTypes
<1>5. InMemory' /\ InCart' /\ InNvram' /\ InEmulator'
  BY <1>1 DEF CartInv, InMemory, InCart, InNvram, InEmulator
<1>6. LastNvramKept'
  BY <1>1 DEF CartInv, LastNvramKept, NvramLast, StartsAsLeft
<1> QED BY <1>4, <1>5, <1>6 DEF CartInv

\* The guest writes.
LEMMA WriteKeeps ==
    ASSUME CartInv, NEW b \in Banks, cartridge_write(b, Poked)
    PROVE  CartInv'
<1>1. /\ running = "emulator" /\ CART # NoMemory
      /\ CART' = [CART EXCEPT ![b * BankSize] = Poked]
      /\ UNCHANGED <<bank_info, path, crt, nvfile, running, made, left, found, refused>>
  BY DEF cartridge_write, files, history
<1>2. CART \in Mems /\ CART' \in Mems
  <2>1. CART \in Mems
    BY <1>1 DEF CartInv, CartTypes
  <2> QED BY <1>1, <2>1, CartAssumption DEF Mems
<1>3. CartTypes'
  BY <1>1, <1>2 DEF CartInv, CartTypes
<1>4. InMemory' /\ InCart' /\ InNvram' /\ InEmulator'
  BY <1>1, <1>2 DEF CartInv, InMemory, InCart, InNvram, InEmulator
<1>5. LastNvramKept'
  BY <1>1 DEF CartInv, LastNvramKept, NvramLast, StartsAsLeft
<1> QED BY <1>3, <1>4, <1>5 DEF CartInv

\* The end of a run: the second file is memory's NVRAM, cut, or as it was.
LEMMA EndKeeps == ASSUME CartInv, Exit \/ Kill PROVE CartInv'
<1>1. /\ running = "emulator" /\ running' = "off" /\ CART' = NoMemory
      /\ UNCHANGED <<bank_info, path, crt, made, found, refused>>
  BY DEF Exit, Kill, Ends
<1> DEFINE x == Contents(Nvram)
<1>2. \/ nvfile' = nvfile /\ left' = left
      \/ path /\ CART = NoMemory /\ nvfile' = Saved(<<>>, 0) /\ left' = left
      \/ /\ path /\ CART # NoMemory
         /\ \E n \in 0 .. Len(x) :
               nvfile' = Saved(x, n) /\ left' = IF n = Len(x) THEN CART ELSE left
  BY DEF Exit, Kill
<1>3. bank_info \in Infos /\ CART \in Mems \cup {NoMemory}
  BY DEF CartInv, CartTypes
<1>4. nvfile' \in CartFiles /\ left' \in Mems \cup {NoMemory} /\ InNvram'
  <2>1. CASE nvfile' = nvfile /\ left' = left
    BY <1>1, <2>1 DEF CartInv, CartTypes, InNvram
  <2>2. CASE path /\ CART = NoMemory /\ nvfile' = Saved(<<>>, 0) /\ left' = left
    <3>1. <<>> \in BankSeqs /\ 0 \in 0 .. Len(<<>>)
      BY DEF BankSeqs
    <3>2. nvfile' \in CartFiles
      BY <1>3, <2>2, <3>1, SavedIs
    <3>3. ~ crt.good
      BY <1>1, <2>2, MemoryIs DEF CartInv, InEmulator
    <3> QED BY <1>1, <2>2, <3>2, <3>3 DEF CartInv, CartTypes, InNvram
  <2>3. CASE /\ path /\ CART # NoMemory
             /\ \E n \in 0 .. Len(x) :
                   nvfile' = Saved(x, n) /\ left' = IF n = Len(x) THEN CART ELSE left
    <3>1. CART \in Mems /\ x \in BankSeqs
      BY <1>3, <2>3, SelectedType DEF Contents
    <3> HIDE DEF x
    <3>2. PICK n \in 0 .. Len(x) :
             nvfile' = Saved(x, n) /\ left' = IF n = Len(x) THEN CART ELSE left
      BY <2>3
    <3>3. nvfile' \in CartFiles /\ (~ nvfile'.cut => n = Len(x) /\ nvfile'.banks = x)
      BY <1>3, <3>1, <3>2, SavedIs
    <3>4. left' \in Mems \cup {NoMemory}
      BY <3>1, <3>2 DEF CartInv, CartTypes
    <3>5. InNvram'
      <4> SUFFICES ASSUME crt.good, ~ nvfile'.cut
                   PROVE  left' \in Mems
                          /\ nvfile'.banks = Selected(made.info, left', Nvram)[NBanks]
        BY <1>1 DEF InNvram
      <4>1. bank_info = crt.info /\ crt.info = made.info
        BY <1>1, <2>3 DEF CartInv, InEmulator, InCart
      <4>2. left' = CART /\ nvfile'.banks = x
        BY <3>2, <3>3
      <4> QED BY <3>1, <4>1, <4>2 DEF x, Contents
    <3> QED BY <3>3, <3>4, <3>5
  <2> QED BY <1>2, <2>1, <2>2, <2>3
<1>5. CartTypes'
  BY <1>1, <1>4 DEF CartInv, CartTypes
<1>6. InMemory' /\ InCart' /\ InEmulator'
  BY <1>1 DEF CartInv, InMemory, InCart, InEmulator
<1>7. LastNvramKept'
  BY <1>1 DEF CartInv, LastNvramKept, NvramLast, StartsAsLeft
<1> QED BY <1>4, <1>5, <1>6, <1>7 DEF CartInv

-----------------------------------------------------------------------------
\* makecart begins with an empty cartridge.
LEMMA CartStarts == CartInit => CartInv
<1> SUFFICES ASSUME CartInit PROVE CartInv
  OBVIOUS
<1>1. NewInfo \in Infos /\ NewMemory \in Mems
  BY CartAssumption DEF NewInfo, NewMemory, Infos, Mems, Types
<1>2. NoFile \in CartFiles
  BY <1>1 DEF NoFile, CartFiles
<1>3. CartTypes
  BY <1>1, <1>2 DEF CartInit, CartTypes
<1>4. InMemory
  BY <1>1 DEF CartInit, InMemory
<1>5. InCart /\ InNvram /\ InEmulator /\ LastNvramKept
  BY DEF CartInit, InCart, InNvram, InEmulator, LastNvramKept, StartsAsLeft
<1> QED BY <1>3, <1>4, <1>5 DEF CartInv

\* Every step keeps the invariant.
LEMMA CartKeeps == CartInv /\ [CartNext]_cartVars => CartInv'
<1> SUFFICES ASSUME CartInv, [CartNext]_cartVars PROVE CartInv'
  OBVIOUS
<1>1. ASSUME makecart PROVE CartInv'
  <2>1. ASSUME NEW first \in Banks, NEW final \in Banks,
               NEW type \in {"NONE", "UNINITIALIZED_RAM", "UNINITIALIZED_NVRAM"},
               cartridge_define_bank_range(first, final, type)
        PROVE  CartInv'
    BY <2>1, DefineKeeps
  <2>2. ASSUME NEW first \in Banks, NEW final \in Banks, cartridge_fill(first, final)
        PROVE  CartInv'
    BY <2>2, FillKeeps
  <2>3. ASSUME NEW size \in BinSizes, NEW first \in Banks, NEW type \in Payload,
               size > 0 \/ first > 0, cartridge_import_files(File(size), first, type)
        PROVE  CartInv'
    <3>1. File(size) \in Seq(Nat) /\ Len(File(size)) = size
      BY CartAssumption, FileIs
    <3> QED BY <2>3, <3>1, ImportKeeps
  <2> QED BY <1>1, <2>1, <2>2, <2>3, SaveKeeps, OtherKeeps DEF makecart
<1>2. ASSUME NEW size \in BinSizes \ {0}, StartBin(File(size)) PROVE CartInv'
  <2>1. File(size) \in Seq(Nat) /\ Len(File(size)) = size /\ size > 0
    BY CartAssumption, FileIs
  <2> QED BY <1>2, <2>1, StartBinKeeps
<1>3. ASSUME NEW b \in Banks, cartridge_write(b, Poked) PROVE CartInv'
  BY <1>3, WriteKeeps
<1>4. ASSUME UNCHANGED cartVars PROVE CartInv'
  BY <1>4 DEF cartVars, machine, files, history, CartInv, CartTypes, InMemory, InCart, InNvram,
     InEmulator, LastNvramKept, NvramLast, StartsAsLeft
<1> QED BY <1>1, <1>2, <1>3, <1>4, StartKeeps, EndKeeps DEF CartNext

\* Every cartridge whose NVRAM comes last starts as it was made and left, for every
\* number and size of banks and every file, however often it is built upon, saved,
\* started, ended, killed or cut off (cartridge_load, cartridge_save_nvram).
THEOREM CartridgeCorrect == CartSpec => []LastNvramKept
<1>1. CartInv => LastNvramKept
  BY DEF CartInv
<1> QED BY <1>1, CartStarts, CartKeeps, PTL DEF CartSpec
=============================================================================
