------------------------------ MODULE RtcClock ------------------------------
(***************************************************************************)
(* The MCP7940N real time clock of rtc.c: a calendar advanced by the main  *)
(* loop's clocks, and the register file the guest reaches over I2C.  The   *)
(* two sides interleave at the granularity of an I2C byte, and a machine   *)
(* reset restarts the bus (i2c_reset_state) but not the chip.              *)
(***************************************************************************)
EXTENDS Integers, Sequences, FiniteSets

CONSTANTS
    ClocksPerSecond,   \* MHZ * 1000000 in the code
    DataLen,           \* I2C_DATA_LEN, 16 in the code
    Starts,            \* the times rtc_init(true) may find on the host
    Guest,             \* [register -> the bytes the guest writes to it]
    CutAt,             \* registers in whose transfers the host may reset the machine
    NvCells,           \* registers of the NVRAM the guest uses
    MaxClocks          \* bound: clocks after which the model stops the time

VARIABLES
    t,       \* the clock's statics, see TimeType
    nvram,   \* [dirty, cell]: nvram_dirty and the contents
    op,      \* i2c_data[0]
    arg,     \* i2c_data[1]
    pos,     \* i2c_data_pos
    asked,   \* the register the guest named in the transfer under way, or none
    start,   \* history: what the clock showed when it started, until it is set
    total,   \* history: clocks counted while it ran
    set,     \* history: the guest has set the clock
    cut,     \* history: a reset cut off a transfer since the last access
    stray    \* history: an access acted on another register than its transfer
             \* named, although no transfer was cut off before it

rtcVars == <<t, nvram, op, arg, pos, asked, start, total, set, cut, stray>>

TimeType == [running : BOOLEAN, vbaten : BOOLEAN, h24 : BOOLEAN,
             clocks : 0 .. ClocksPerSecond - 1,
             seconds : 0 .. 59, minutes : 0 .. 59, hours : 0 .. 23,
             dow : 0 .. 7, day : 1 .. 31, month : 1 .. 12, year : 0 .. 99]

None == -1
BCD(a) == (16 * (a \div 10)) + (a % 10)
UNBCD(a) == (10 * (a \div 16)) + (a % 16)
Bit(v, w) == (v \div w) % 2 = 1   \* w is the bit's weight
If(b, n) == IF b THEN n ELSE 0

-----------------------------------------------------------------------------
(* The calendar (rtc_step). *)

DaysPerMonth == <<31, 28, 31, 30, 31, 30, 31, 31, 30, 31, 30, 31>>
is_leap_year(c) == c.year % 4 = 0
Dpm(c) == DaysPerMonth[c.month] + If(c.month = 2 /\ is_leap_year(c), 1)

\* Each carries into the next only when it is full, as the early returns do.
NextYear(c) == [c EXCEPT !.year = IF @ + 1 = 100 THEN 0 ELSE @ + 1]
NextMonth(c) ==
    IF c.month + 1 <= 12 THEN [c EXCEPT !.month = @ + 1]
                         ELSE NextYear([c EXCEPT !.month = 1])

\* Mutation: the leap day is forgotten.
NextDay_noleap(c) ==
    IF c.day + 1 <= DaysPerMonth[c.month] THEN [c EXCEPT !.day = @ + 1]
                                          ELSE NextMonth([c EXCEPT !.day = 1])
NextDay(c) ==
    IF c.day + 1 <= Dpm(c) THEN [c EXCEPT !.day = @ + 1]
                           ELSE NextMonth([c EXCEPT !.day = 1])

NextWeekday(c) == [c EXCEPT !.dow = IF @ + 1 > 7 THEN 1 ELSE @ + 1]
NextHour(c) ==
    IF c.hours + 1 < 24 THEN [c EXCEPT !.hours = @ + 1]
                        ELSE NextDay(NextWeekday([c EXCEPT !.hours = 0]))
NextMinute(c) ==
    IF c.minutes + 1 < 60 THEN [c EXCEPT !.minutes = @ + 1]
                          ELSE NextHour([c EXCEPT !.minutes = 0])
NextSecond(c) ==
    IF c.seconds + 1 < 60 THEN [c EXCEPT !.seconds = @ + 1]
                          ELSE NextMinute([c EXCEPT !.seconds = 0])

\* One call of rtc_step with the clocks of one instruction.
Stepped(c, n) ==
    IF c.clocks + n < ClocksPerSecond THEN [c EXCEPT !.clocks = @ + n]
    ELSE NextSecond([c EXCEPT !.clocks = @ + n - ClocksPerSecond])

-----------------------------------------------------------------------------
(* The registers (rtc_read, rtc_write). *)

\* Mutation: noon is read as midnight.
ReadHours_noon(c) ==
    LET h == IF c.h24 THEN c.hours
             ELSE IF c.hours % 12 = 0 THEN 12 ELSE c.hours % 12
    IN  BCD(h) + If(~c.h24 /\ c.hours > 12, 32) + If(~c.h24, 64)

\* The hours register: in the 12 hour form bit 6 is set and bit 5 says PM.
ReadHours(c) ==
    LET h == IF c.h24 THEN c.hours
             ELSE IF c.hours % 12 = 0 THEN 12 ELSE c.hours % 12
    IN  BCD(h) + If(~c.h24 /\ c.hours >= 12, 32) + If(~c.h24, 64)

\* What a read of register r returns.
RtcRead(c, n, r) ==
    CASE r = 0 -> BCD(c.seconds) + If(c.running, 128)
      [] r = 1 -> BCD(c.minutes)
      [] r = 2 -> ReadHours(c)
      [] r = 3 -> c.dow + If(c.vbaten, 8) + If(c.running, 32)
      [] r = 4 -> BCD(c.day)
      [] r = 5 -> BCD(c.month) + If(is_leap_year(c), 32)
      [] r = 6 -> BCD(c.year)
      [] r \in NvCells -> n.cell[r]
      [] OTHER -> IF r >= 96 THEN 255 ELSE 0

WrittenHours(v) ==
    IF ~Bit(v, 64) THEN UNBCD(v % 64)
    ELSE (IF UNBCD(v % 32) = 12 THEN 0 ELSE UNBCD(v % 32)) + If(Bit(v, 32), 12)

\* The clock after v was written to register r.
Written(c, r, v) ==
    CASE r = 0 -> [c EXCEPT !.running = Bit(v, 128), !.seconds = UNBCD(v % 128)]
      [] r = 1 -> [c EXCEPT !.minutes = UNBCD(v)]
      [] r = 2 -> [c EXCEPT !.h24 = ~Bit(v, 64), !.hours = WrittenHours(v)]
      [] r = 3 -> [c EXCEPT !.dow = v % 8, !.vbaten = Bit(v, 32)]
      [] r = 4 -> [c EXCEPT !.day = UNBCD(v)]
      [] r = 5 -> [c EXCEPT !.month = UNBCD(v)]
      [] r = 6 -> [c EXCEPT !.year = UNBCD(v)]
      [] OTHER -> c

\* v keeps the field of register r in its range.
InRange(r, v) ==
    CASE r = 0 -> UNBCD(v % 128) \in 0 .. 59
      [] r = 1 -> UNBCD(v) \in 0 .. 59
      [] r = 2 -> WrittenHours(v) \in 0 .. 23
      [] r = 4 -> UNBCD(v) \in 1 .. 31
      [] r = 5 -> UNBCD(v) \in 1 .. 12
      [] r = 6 -> UNBCD(v) \in 0 .. 99
      [] OTHER -> TRUE

-----------------------------------------------------------------------------
(* The reference: a date is a number of days since 1 January 2000. *)

Dates == {x \in (0 .. 99) \X (1 .. 12) \X (1 .. 31) :
            x[3] <= DaysPerMonth[x[2]] + If(x[2] = 2 /\ x[1] % 4 = 0, 1)}
DaysBefore == <<0, 31, 59, 90, 120, 151, 181, 212, 243, 273, 304, 334>>
DayNumber(c) ==
    (365 * c.year) + ((c.year + 3) \div 4) + DaysBefore[c.month]
        + If(c.month > 2 /\ c.year % 4 = 0, 1) + c.day - 1
SecondOfDay(c) == (3600 * c.hours) + (60 * c.minutes) + c.seconds

\* The guest writes dates and times in range, also where a reset cut a transfer
\* off: the next access then takes a register's number for its value.
RtcAssumption ==
    /\ ClocksPerSecond \in Nat \ {0} /\ DataLen \in Nat /\ DataLen >= 2
    /\ NvCells \subseteq 32 .. 95 /\ MaxClocks \in Nat
    /\ Starts \subseteq Dates \X ((0 .. 23) \X (0 .. 59) \X (0 .. 59))
    /\ CutAt \subseteq DOMAIN Guest
    /\ \A r \in DOMAIN Guest :
          /\ r \in 0 .. 6 \cup NvCells /\ Guest[r] \subseteq 0 .. 255
          /\ \A v \in Guest[r] : InRange(r, v)
    /\ \A r \in CutAt, q \in DOMAIN Guest : InRange(r, q)

\* The host's clock at x = <<date, <<hours, minutes, seconds>>>>; 1 January
\* 2000 was a Saturday, and tm_wday = 0 becomes 7.
HostTime(x) ==
    LET c == [running |-> TRUE, vbaten |-> TRUE, h24 |-> TRUE, clocks |-> 0,
              seconds |-> x[2][3], minutes |-> x[2][2], hours |-> x[2][1],
              dow |-> 0, day |-> x[1][3], month |-> x[1][2], year |-> x[1][1]]
    IN  [c EXCEPT !.dow = ((DayNumber(c) + 5) % 7) + 1]

\* rtc_init(false): the chip powers up stopped.
Stopped ==
    [running |-> FALSE, vbaten |-> TRUE, h24 |-> TRUE, clocks |-> 0,
     seconds |-> 0, minutes |-> 0, hours |-> 0, dow |-> 1, day |-> 1, month |-> 1, year |-> 0]

RtcInit ==
    /\ t \in {HostTime(x) : x \in Starts} \cup {Stopped}
    /\ nvram = [dirty |-> FALSE, cell |-> [r \in NvCells |-> 0]]
    /\ op = 0 /\ arg = 0 /\ pos = 0 /\ asked = None
    /\ start = t /\ total = 0
    /\ set = FALSE /\ cut = FALSE /\ stray = FALSE

rtc_step(n) ==
    /\ t.running
    /\ total + n <= MaxClocks
    /\ t' = Stepped(t, n)
    /\ total' = total + n
    /\ UNCHANGED <<nvram, op, arg, pos, asked, start, set, cut, stray>>

\* rtc_i2c_data: a byte is kept at pos while there is room.
rtc_i2c_data(b) ==
    /\ op' = IF pos = 0 THEN b ELSE op
    /\ arg' = IF pos = 1 THEN b ELSE arg
    /\ pos' = IF pos < DataLen THEN pos + 1 ELSE pos

\* The first byte of a write transfer names a register.
NameRegister(r) ==
    /\ asked = None
    /\ rtc_i2c_data(r)
    /\ asked' = r
    /\ UNCHANGED <<t, nvram, start, total, set, cut, stray>>

\* The registers as the code finds them when the value byte v has been added.
OpWith(v) == IF pos = 0 THEN v ELSE op
ArgWith(v) == IF pos = 1 THEN v ELSE arg

\* The transfer under way is over, and has acted on register r.
Accessed(r) ==
    /\ stray' = (r # asked /\ ~cut)
    /\ asked' = None /\ cut' = FALSE

\* The second byte is its value, and rtc_write acts on both.
WriteValue(v) ==
    /\ asked # None /\ v \in Guest[asked]
    /\ op' = OpWith(v) /\ arg' = ArgWith(v) /\ pos' = 0
    /\ t' = Written(t, OpWith(v), ArgWith(v))
    /\ nvram' = IF OpWith(v) \in NvCells
                THEN [dirty |-> TRUE, cell |-> [nvram.cell EXCEPT ![OpWith(v)] = ArgWith(v)]]
                ELSE nvram
    /\ set' = (set \/ OpWith(v) <= 6)
    /\ start' = IF set' THEN Stopped ELSE start
    /\ Accessed(OpWith(v))
    /\ UNCHANGED total

\* A read transfer that follows: rtc_read returns the register in op.
ReadValue ==
    /\ asked # None
    /\ Accessed(op)
    /\ pos' = 0
    /\ UNCHANGED <<t, nvram, op, arg, start, total, set>>

\* A machine reset restarts the bus and leaves the chip as it is.
BusReset ==
    /\ asked \in CutAt
    /\ asked' = None /\ cut' = TRUE
    /\ UNCHANGED <<t, nvram, op, arg, pos, start, total, set, stray>>

RtcNext ==
    \/ \E n \in 1 .. ClocksPerSecond : rtc_step(n)
    \/ \E r \in DOMAIN Guest : NameRegister(r)
    \/ \E r \in DOMAIN Guest : \E v \in Guest[r] : WriteValue(v)
    \/ ReadValue
    \/ BusReset

RtcSpec == RtcInit /\ [][RtcNext]_rtcVars

-----------------------------------------------------------------------------
(* Properties. *)

\* Every field of the clock keeps its range as long as the guest writes dates
\* and times in range; a month outside 1..12 would index past days_per_month.
RtcTypeOK ==
    /\ t \in TimeType
    /\ nvram.dirty \in BOOLEAN /\ nvram.cell \in [NvCells -> 0 .. 255]
    /\ op \in 0 .. 255 /\ arg \in 0 .. 255 /\ pos \in 0 .. DataLen
    /\ asked \in DOMAIN Guest \cup {None}

\* Seconds since the start by the clocks counted, and midnights among them.
Elapsed == (start.clocks + total) \div ClocksPerSecond
Midnights == (SecondOfDay(start) + Elapsed) \div 86400

\* Until the guest sets it, the calendar shows the time it started from plus the
\* clocks it was given, by way of day numbers: month lengths, leap years and the
\* end of 2099 right, and the day of the week advancing with every midnight.
CalendarCountsDays ==
    ~set => /\ DayNumber(t) = (DayNumber(start) + Midnights) % 36525
            /\ SecondOfDay(t) = (SecondOfDay(start) + Elapsed) % 86400
            /\ t.dow = ((start.dow - 1 + Midnights) % 7) + 1

\* What the time registers read, written back, leaves the clock as it is: BCD
\* and the 12 and 24 hour forms are inverse to each other in every state.
TimeRoundTrips ==
    \A r \in {0, 1, 2, 4, 6} : Written(t, r, RtcRead(t, nvram, r)) = t

\* An access acts on the register its transfer named, although what was sent
\* is kept in i2c_data from one transfer to the next: only the one access that
\* follows a reset in the middle of a transfer may go astray.
OwnRegister == ~stray

\* The registers keep what they are given: in range, as it was written, and at the
\* register it was written to (rtc_read, rtc_write, rtc_i2c_data).
RegistersKeep == RtcTypeOK /\ TimeRoundTrips /\ OwnRegister
=============================================================================
