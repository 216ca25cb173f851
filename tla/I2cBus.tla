------------------------------- MODULE I2cBus -------------------------------
(***************************************************************************)
(* The I2C bus on the two low pins of the first VIA's port A, bit by bit:  *)
(* i2c_step, which looks at the two lines whenever one of them has         *)
(* changed, and a guest that drives the lines the way the protocol says.   *)
(*                                                                         *)
(* The guest (ROM code that is not in the repository) changes one line at  *)
(* a time, sends START when the bus is at rest, refuses (NACK) the last    *)
(* byte it reads, and ends a transfer with STOP.  Every change of a line   *)
(* is seen: via1_write and the emulator's loop both call i2c_step.         *)
(***************************************************************************)
EXTENDS Integers, Sequences

CONSTANTS
    Bits,       \* bits of a byte, 8 in the code
    Known,      \* device numbers that answer, DEVICE_SMC and DEVICE_RTC
    MaxBytes    \* bound: bytes of one transfer, its address included

I2cAssumption ==
    /\ Bits \in Nat /\ Bits >= 2
    /\ Known \subseteq [1 .. Bits - 1 -> 0 .. 1]
    /\ MaxBytes \in Nat

\* A byte by its bits, from the highest.
Octet == [1 .. Bits -> 0 .. 1]
Zeros == [i \in 1 .. Bits |-> 0]

\* v shifted left by one, with a new lowest bit.
Shifted(v, bit) == [i \in 1 .. Bits |-> IF i = Bits THEN bit ELSE v[i + 1]]

\* The two parts of an address byte: v >> 1 and v & 1.
DeviceOf(v) == [i \in 1 .. Bits - 1 |-> v[i]]
ReadBit(v) == v[Bits] = 1

NoByte == <<>>
STATE_STOP == -1
STATE_START == 0

VARIABLES
    clk, data,   \* the lines as the guest drives them: clk_in, data_in
    out,         \* data_out, what the guest reads
    dev,         \* [state, read_mode, value, count, device]
    log,         \* history: calls to the devices in this transfer
    guest,       \* where the guest is in its transfer
    sent         \* history: what the guest has sent and read in it

i2cVars == <<clk, data, out, dev, log, guest, sent>>

Call(op, device, byte) == [op |-> op, device |-> device, byte |-> byte]

-----------------------------------------------------------------------------
(* i2c_step, for the lines c and d; clk and data are what it saw last. *)

Start(c, d) == dev.state = STATE_STOP /\ c = 0 /\ d = 0

\* A STOP is looked for in state 1 only: the clock that precedes it has been
\* taken for the first bit of another byte.
Stop(c, d) == dev.state = 1 /\ c = 1 /\ d = 1 /\ data = 0

\* A device's byte goes out; it is fetched with the first of its bits.
BitOut(fetched) ==
    LET v == IF dev.state = 0 THEN fetched ELSE dev.value
    IN  /\ out' = v[1]
        /\ dev' = [dev EXCEPT !.state = @ + 1, !.value = Shifted(v, 0)]
        /\ log' = IF dev.state = 0 THEN Append(log, Call("read", dev.device, fetched)) ELSE log

BitIn(d) ==
    /\ out' = 1
    /\ dev' = [dev EXCEPT !.state = @ + 1, !.value = Shifted(dev.value, d)]
    /\ UNCHANGED log

\* The guest's answer to a byte read: NACK ends the reading.
ReadDone(d) ==
    /\ out' = 1
    /\ dev' = [dev EXCEPT !.state = STATE_START,
                          !.count = IF d = 1 THEN 0 ELSE @,
                          !.read_mode = IF d = 1 THEN FALSE ELSE @]
    /\ UNCHANGED log

\* Mutation: the register byte already makes the device write.
WriteDone_eager ==
    /\ out' = 0
    /\ dev' = [dev EXCEPT !.state = STATE_START, !.device = IF dev.count = 0 THEN DeviceOf(dev.value) ELSE @,
                          !.read_mode = IF dev.count = 0 THEN ReadBit(dev.value) ELSE @,
                          !.count = IF @ = 2 THEN 2 ELSE @ + 1]
    /\ log' = IF dev.count = 0 THEN <<Call("address", DeviceOf(dev.value), NoByte)>>
              ELSE Append(log, Call("write", dev.device, dev.value))

\* The byte received is the address, the register, or a value for it.
WriteDone ==
    LET device  == DeviceOf(dev.value)
        refused == dev.count = 0 /\ device \notin Known
    IN  /\ out' = IF refused THEN 1 ELSE 0
        /\ dev' = [dev EXCEPT
               !.state     = STATE_START,
               !.device    = IF dev.count = 0 THEN device ELSE @,
               !.read_mode = IF dev.count = 0 THEN ~refused /\ ReadBit(dev.value) ELSE @,
               !.count     = IF refused THEN 0 ELSE IF @ = 2 THEN 2 ELSE @ + 1]
        /\ log' = IF refused THEN <<>>
                  ELSE IF dev.count = 0 THEN <<Call("address", device, NoByte)>>
                  ELSE Append(log, Call(IF dev.count = 1 THEN "select" ELSE "write",
                                        dev.device, dev.value))

\* The clock rises while a transfer is under way.
Clocked(d, fetched) ==
    \/ dev.state < Bits /\ dev.read_mode  /\ BitOut(fetched)
    \/ dev.state < Bits /\ ~dev.read_mode /\ BitIn(d)
    \/ dev.state = Bits /\ dev.read_mode  /\ ReadDone(d)
    \/ dev.state = Bits /\ ~dev.read_mode /\ WriteDone

i2c_step(c, d) ==
    /\ clk' = c /\ data' = d
    /\ \/ /\ Start(c, d)
          /\ dev' = [dev EXCEPT !.state = STATE_START]
          /\ UNCHANGED <<out, log>>
       \/ /\ Stop(c, d)
          /\ dev' = [dev EXCEPT !.state = STATE_STOP, !.count = 0, !.read_mode = FALSE]
          /\ UNCHANGED <<out, log>>
       \/ /\ dev.state # STATE_STOP /\ ~Stop(c, d) /\ c = 1 /\ clk = 0
          /\ \E fetched \in Octet : Clocked(d, fetched)
       \/ /\ ~Start(c, d) /\ ~Stop(c, d) /\ ~(dev.state # STATE_STOP /\ c = 1 /\ clk = 0)
          /\ UNCHANGED <<out, dev, log>>

-----------------------------------------------------------------------------
(* The guest.  "next" is the clock low between two bytes; bit number Bits *)
(* of a byte is its acknowledgement. *)

GuestStart ==
    /\ guest.at = "rest"
    /\ i2c_step(1, 0)
    /\ guest' = [guest EXCEPT !.at = "start"]
    /\ sent' = <<>>

GuestFirstClock ==
    /\ guest.at = "start"
    /\ i2c_step(0, 0)
    /\ guest' = [guest EXCEPT !.at = "next", !.kind = "address"]
    /\ UNCHANGED sent

\* The first bit of a byte, or the release of the line for the device's.
GuestByte(v) ==
    /\ guest.at = "next" /\ guest.kind # "none"
    /\ Len(sent) < MaxBytes
    /\ guest.kind = "read" => v = Zeros
    /\ i2c_step(0, IF guest.kind = "read" THEN 1 ELSE v[1])
    /\ guest' = [guest EXCEPT !.at = "low", !.byte = v, !.bit = 0]
    /\ UNCHANGED sent

\* The clock goes up and the guest looks at the line.
GuestClockUp ==
    /\ guest.at = "low"
    /\ i2c_step(1, data)
    /\ guest' = [guest EXCEPT
           !.at = "high",
           !.byte = IF guest.kind = "read" /\ guest.bit < Bits THEN Shifted(@, out') ELSE @,
           !.ack = IF guest.kind # "read" /\ guest.bit = Bits THEN out' = 0 ELSE @]
    /\ UNCHANGED sent

GuestClockDown ==
    /\ guest.at = "high" /\ guest.bit < Bits
    /\ i2c_step(0, data)
    /\ guest' = [guest EXCEPT !.at = "set", !.bit = @ + 1]
    /\ UNCHANGED sent

\* The next bit goes on the line; for the acknowledgement the guest releases
\* it, or after a byte read says whether it wants another.
GuestSet(more) ==
    /\ guest.at = "set"
    /\ more => guest.kind = "read" /\ guest.bit = Bits /\ Len(sent) + 1 < MaxBytes
    /\ i2c_step(0, IF guest.kind # "read" /\ guest.bit < Bits THEN guest.byte[guest.bit + 1]
                   ELSE IF more THEN 0 ELSE 1)
    /\ guest' = [guest EXCEPT !.at = "low", !.more = more]
    /\ UNCHANGED sent

\* What follows the byte just finished.
KindAfter ==
    IF ~guest.ack \/ (guest.kind = "read" /\ ~guest.more) THEN "none"
    ELSE IF guest.kind # "address" THEN guest.kind
    ELSE IF ReadBit(guest.byte) THEN "read" ELSE "write"

\* The byte just finished as a call to the device.
CallMade ==
    IF guest.kind = "address" THEN Call("address", DeviceOf(guest.byte), NoByte)
    ELSE Call(IF guest.kind = "write" /\ Len(sent) = 1 THEN "select" ELSE guest.kind,
              sent[1].device, guest.byte)

GuestByteDone ==
    /\ guest.at = "high" /\ guest.bit = Bits
    /\ i2c_step(0, data)
    /\ sent' = IF guest.ack THEN Append(sent, CallMade) ELSE sent
    /\ guest' = [guest EXCEPT !.at = "next", !.kind = KindAfter]

\* STOP: the data line low, the clock up, the data line up.
GuestStop ==
    \/ /\ guest.at = "next" /\ guest.kind # "read"
       /\ i2c_step(0, 0)
       /\ guest' = [guest EXCEPT !.at = "stop"]
       /\ UNCHANGED sent
    \/ /\ guest.at = "stop" /\ clk = 0
       /\ i2c_step(1, 0)
       /\ UNCHANGED <<guest, sent>>
    \/ /\ guest.at = "stop" /\ clk = 1
       /\ i2c_step(1, 1)
       /\ guest' = [guest EXCEPT !.at = "rest", !.kind = "none", !.byte = Zeros, !.bit = 0]
       /\ UNCHANGED sent

\* machine_reset at any point: i2c_reset_state takes the engine to STOP, leaving
\* data_out, and via1_init lets the clock go; the data line stays as it was.
I2cReset ==
    /\ dev' = [dev EXCEPT !.state = STATE_STOP, !.read_mode = FALSE, !.value = Zeros, !.count = 0]
    /\ clk' = 1
    /\ guest' = [guest EXCEPT !.at = "boot", !.kind = "none", !.byte = Zeros, !.bit = 0]
    /\ UNCHANGED <<data, out, log, sent>>

\* The restarted guest lets go of the data line too.
GuestBoot ==
    /\ guest.at = "boot"
    /\ i2c_step(1, 1)
    /\ guest' = [guest EXCEPT !.at = "rest"]
    /\ UNCHANGED sent

-----------------------------------------------------------------------------
I2cInit ==
    /\ clk = 1 /\ data = 0 /\ out = 0
    /\ dev = [state |-> STATE_STOP, read_mode |-> FALSE, value |-> Zeros, count |-> 0,
            device |-> DeviceOf(Zeros)]
    /\ log = <<>>
    /\ guest = [at |-> "boot", kind |-> "none", byte |-> Zeros, bit |-> 0, ack |-> FALSE,
                more |-> FALSE]
    /\ sent = <<>>

I2cNext ==
    \/ GuestStart \/ GuestFirstClock
    \/ \E v \in Octet : GuestByte(v)
    \/ GuestClockUp \/ GuestClockDown
    \/ \E more \in BOOLEAN : GuestSet(more)
    \/ GuestByteDone
    \/ GuestStop
    \/ I2cReset \/ GuestBoot

I2cSpec == I2cInit /\ [][I2cNext]_i2cVars

-----------------------------------------------------------------------------
\* Types of all variables (i2c.c's statics; the count of bytes matters up to 2).
I2cTypeOK ==
    /\ clk \in 0 .. 1 /\ data \in 0 .. 1 /\ out \in 0 .. 1
    /\ dev \in [state : -1 .. Bits, read_mode : BOOLEAN, value : Octet, count : 0 .. 2,
                device : [1 .. Bits - 1 -> 0 .. 1]]

\* After every byte the devices have been called with exactly what the guest
\* sent, in order, and the guest has read exactly what they returned; an
\* address was acknowledged if and only if a device has it (i2c_step).
DeliveredAsSent == guest.at = "next" /\ guest.kind # "address" => log = sent

\* However a transfer ended, the bus at rest is one where the next START is
\* recognised and the next byte is an address (STATE_STOP is left by START only).
ReadyAtRest ==
    guest.at \in {"rest", "boot"} => dev.state = STATE_STOP /\ dev.count = 0 /\ ~dev.read_mode

\* The engine implements transfers of whole bytes.
Transfers == INSTANCE I2cTransfers WITH
    Byte <- Octet,
    bus <- IF dev.count = 0 THEN "idle"
           ELSE IF dev.read_mode THEN "read"
           ELSE IF dev.count = 1 THEN "write" ELSE "value"

\* The calls i2c_step makes are those of byte transfers (I2cTransfers), which
\* is what SmcInput assumes of the bus, and between a guest and the devices they
\* carry the bytes that were sent, and leave the bus ready.
TransfersImplemented == Transfers!Spec /\ [](I2cTypeOK /\ DeliveredAsSent /\ ReadyAtRest)
=============================================================================
