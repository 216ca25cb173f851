------------------------------- MODULE MCBoard -------------------------------
(***************************************************************************)
(* Parts of the board that share no state: the memory map, the I2C bus bit *)
(* by bit, the clock behind it, and a cartridge.  A behaviour exercises    *)
(* one of them, chosen at the start.                                       *)
(***************************************************************************)
EXTENDS MemoryBus, RtcClock, I2cBus, Cartridge, TLC

VARIABLE device

\* A map of one plain byte, a boot page of two and one byte of firmware.
MCBoot == {2, 3}
MCRom == [a \in MCBoot |-> a - 1]

\* A second before midnight on the last day of every month in a leap year, and
\* of those that differ in a common year; 28 February of a leap year; the end
\* of the century; and noon of a day.
SomeTimes ==
    {<<<<24, m, d>>, <<23, 59, 59>>>> : m \in {1, 3, 5, 7, 8, 10, 12}, d \in {31}}
    \cup {<<<<24, m, d>>, <<23, 59, 59>>>> : m \in {4, 6, 9, 11}, d \in {30}}
    \cup {<<d, <<23, 59, 59>>>> :
            d \in {<<24, 2, 28>>, <<24, 2, 29>>, <<25, 2, 28>>, <<0, 2, 28>>, <<0, 2, 29>>,
                   <<99, 12, 31>>}}
    \cup {<<<<24, 2, 29>>, <<11, 59, 59>>>>}

\* Times in range, in both hour forms: running and not, 11 PM, noon, midnight,
\* and a cell of the NVRAM.
TimeSetter ==
    0 :> {89, 217} @@ 2 :> {35, 114, 82} @@ 4 :> {49} @@ 33 :> {1}

\* Two devices that answer.
TwoDevices == {<<0, 1>>, <<1, 0>>}

ASSUME BoardAssumption == I2cAssumption /\ RtcAssumption

BoardInit ==
    /\ device \in {"memory", "bus", "clock", "cartridge"}
    /\ Init /\ I2cInit /\ RtcInit /\ CartInit
    /\ device # "memory" => \A a \in Ram : RAM[a] = 0
    /\ device # "clock" => t = Stopped

BoardNext ==
    \/ device = "memory" /\ Next /\ UNCHANGED <<i2cVars, rtcVars, cartVars>>
    \/ device = "bus" /\ I2cNext /\ UNCHANGED <<vars, rtcVars, cartVars>>
    \/ device = "clock" /\ RtcNext /\ UNCHANGED <<vars, i2cVars, cartVars>>
    \/ device = "cartridge" /\ CartNext /\ UNCHANGED <<vars, i2cVars, rtcVars>>

BoardSpec ==
    BoardInit /\ [][BoardNext /\ UNCHANGED device]_<<device, vars, i2cVars, rtcVars, cartVars>>

=============================================================================
