------------------------------ MODULE SmcInput ------------------------------
(***************************************************************************)
(* The input path of the machine: the host's keyboard and mouse events go  *)
(* into two ring buffers (i2c.c), and the guest takes them out through the *)
(* System Management Controller (smc.c) with byte transfers on the I2C bus *)
(* (I2cBus models the bits of such a transfer).                            *)
(*                                                                         *)
(* The two sides interleave at the granularity of a byte: the host's       *)
(* events arrive between frames, whatever the guest has reached in a       *)
(* transfer, and so does a machine reset.  A mouse report is psize bytes,  *)
(* read one I2C byte at a time.  What its bytes say is left out: a byte in *)
(* the mouse ring is its number 1, 2, ... within its report, which is what *)
(* the framing properties are about.                                       *)
(***************************************************************************)
EXTENDS ByteRing

CONSTANTS
    KbdSize,      \* KBD_SIZE, 16 in the code
    MseSize,      \* MSE_SIZE, 16 in the code
    CountSize,    \* values of mse_count (uint8_t), 256 in the code
    Codes,        \* key codes of the host's keys: keynum going down, keynum + 128 going up
    GuestBytes,   \* bytes the guest writes to the bus
    Held,         \* may the power button have been held (-longpwron), or not
    MaxSends      \* bound: sends pending on an axis of the mouse, 0 to 2

ASSUME SizeAssumption ==
    /\ KbdSize \in Nat /\ KbdSize >= 2
    /\ MseSize \in Nat /\ MseSize >= 6
    /\ CountSize \in Nat /\ CountSize > 4
ASSUME KeyAssumption == Codes \subseteq 1 .. 255 /\ GuestBytes \subseteq 0 .. 255
ASSUME SendAssumption == MaxSends \in 0 .. 2 /\ Held \subseteq BOOLEAN

\* Register offsets of the SMC that read something (smc_read).
OffKeyMouse == 67   \* 0x43: key code, then the bytes of a mouse report
OffMouse    == {66, 33}   \* 0x42, 0x21: mouse report only
OffKeyOnly  == 65   \* 0x41: key code only, the default
OffKey      == 7    \* 0x07
OffPower    == 9    \* 0x09: was the power button held
OffMouseId  == 34   \* 0x22

\* Register offsets that write something (smc_write).
CmdPower  == 1
CmdReset  == 2
CmdNmi    == 3
CmdLed    == 5
CmdSetId  == 32   \* 0x20
CmdReadOp == 64   \* 0x40

VARIABLES
    kbd,      \* kbd_buffer, kbd_head, kbd_tail
    mse,      \* mse_buffer, mse_head, mse_tail
    mouse,    \* [id, dx, dy]: mouse_device_id; sends each axis still needs
    smc,      \* smc.c's statics, see SmcType
    bus,      \* where the guest is in an I2C transfer
    power,    \* FALSE once main_shutdown() ended the program
    polite,   \* environment, chosen at start: the guest keeps to the SMC's two
              \* forms, offset then read and offset with one value, and the host
              \* does not reset the machine inside one
    trans,    \* history: bytes a polite guest wrote since it last read, was reset
              \* or began to write
    torn      \* history: the mouse ring was flushed inside a report

vars == <<kbd, mse, mouse, smc, bus, power, polite, trans, torn>>

\* The guest has sent an offset, and neither its value nor a read yet.
OffsetSent == Len(trans) = 1

-----------------------------------------------------------------------------
(* Mouse reports. *)

\* The code sizes a report by the device id alone, in mouse_send and smc_read.
PacketSize(id) == IF id \in {3, 4} THEN 4 ELSE 3

\* The bytes of one report, queued one by one.
AddReport(r, id) ==
    LET add(ring, v) == RingAdd(MseSize, ring, v)
        three == add(add(add(r, 1), 2), 3)
    IN  IF id \in {3, 4} THEN add(three, 4) ELSE three

\* Mutation: as if the ring held as many bytes as it has slots.
mouse_send_full(r, id) ==
    IF RingCount(MseSize, r) <= MseSize - PacketSize(id) THEN AddReport(r, id) ELSE r

\* mouse_send queues a whole report or nothing.
mouse_send(r, id) ==
    IF RingCount(MseSize, r) < MseSize - PacketSize(id) THEN AddReport(r, id) ELSE r

\* The ring after one send or two.
SendMany(r, id, n) ==
    IF n = 1 THEN mouse_send(r, id) ELSE mouse_send(mouse_send(r, id), id)

Least(a, b) == IF a < b THEN a ELSE b
AtLeastOne(n) == IF n = 0 THEN 1 ELSE n

\* mouse_send_state: the loop ends when one axis, not both, is drained, and it
\* takes off what it tried to send whether or not the ring had room.
mouse_send_state(dx, dy) ==
    LET n == AtLeastOne(Least(dx, dy))
    IN  /\ mse' = SendMany(mse, mouse.id, n)
        /\ mouse' = [mouse EXCEPT !.dx = dx - Least(dx, n), !.dy = dy - Least(dy, n)]

\* The id a request leaves in mouse_device_id (mouse_set_device_id).
AcceptedId(d) == IF d \in {3, 4} THEN 3 ELSE 0

-----------------------------------------------------------------------------
(* The SMC's registers. *)

SmcType == [op         : 0 .. 255,       \* i2c_data[0]
            arg        : 0 .. 255,       \* i2c_data[1]
            pos        : 0 .. 2,         \* i2c_data_pos; past 1 nothing is read back
            read_op    : 0 .. 255,       \* default_read_op
            read_state : 0 .. 1,         \* default_read_state
            mse_count  : 0 .. CountSize - 1,
            long_press : BOOLEAN,        \* pwr_long_press
            led        : {0, 255},       \* activity_led
            reset      : BOOLEAN]        \* smc_requested_reset

\* smc_i2c_data: the byte goes where the position points.
smc_i2c_data(s, v) ==
    [s EXCEPT !.op  = IF s.pos = 0 THEN v ELSE @,
              !.arg = IF s.pos = 1 THEN v ELSE @,
              !.pos = Least(@ + 1, 2)]

\* Mutation: the position of the operation before is left for the next one.
Done_stale(s) == [s EXCEPT !.op = s.read_op]

\* Every register operation ends by selecting the default read offset.
Done(s) == [s EXCEPT !.op = s.read_op, !.pos = 0]

\* mse_count after one more byte of a report: back to 0 with the last byte.
NextCount(size) ==
    LET count == (smc.mse_count + 1) % CountSize
    IN  IF smc.mse_count > 0 /\ count = size THEN 0 ELSE count

\* A read of a mouse offset: start a report only when a whole one is queued,
\* go on with one that was started, else answer a single zero.
smc_read_mouse ==
    LET size  == PacketSize(mouse.id)
        count == NextCount(size)
    IN  IF smc.mse_count > 0 \/ RingCount(MseSize, mse) >= size
        THEN /\ mse' = RingNext(MseSize, mse)
             /\ smc' = Done([smc EXCEPT
                    !.mse_count = count,
                    !.read_state = IF smc.mse_count > 0 /\ (smc.mse_count + 1) % CountSize = size
                                   THEN 0 ELSE @])
        ELSE /\ smc' = Done([smc EXCEPT !.mse_count = 0, !.read_state = 0])
             /\ UNCHANGED mse

smc_read_key(state) ==
    /\ kbd' = RingNext(KbdSize, kbd)
    /\ smc' = Done([smc EXCEPT !.read_state = state])

smc_read ==
    \/ /\ smc.op = OffKeyMouse /\ smc.read_state = 0
       /\ smc_read_key(1)
       /\ UNCHANGED mse
    \/ /\ smc.op \in OffMouse \/ (smc.op = OffKeyMouse /\ smc.read_state # 0)
       /\ smc_read_mouse
       /\ UNCHANGED kbd
    \/ /\ smc.op = OffKeyOnly
       /\ smc_read_key(0)
       /\ UNCHANGED mse
    \/ /\ smc.op = OffKey
       /\ smc_read_key(smc.read_state)
       /\ UNCHANGED mse
    \/ /\ smc.op \notin OffMouse \cup {OffKeyMouse, OffKeyOnly, OffKey}
       /\ smc' = Done([smc EXCEPT !.long_press = IF smc.op = OffPower THEN FALSE ELSE @])
       /\ UNCHANGED <<kbd, mse>>

\* smc_write acts on the register i2c_data[0] with the value i2c_data[1].  s is
\* smc after the byte just received.
smc_write(s) ==
    /\ smc' = Done([s EXCEPT
           !.reset = @ \/ (s.op = CmdPower /\ s.arg = 1) \/ (s.op = CmdReset /\ s.arg = 0),
           !.led = IF s.op = CmdLed THEN (IF s.arg >= 128 THEN 255 ELSE 0) ELSE @,
           !.read_op = IF s.op = CmdReadOp THEN s.arg ELSE @,
           !.read_state = IF s.op = CmdReadOp THEN 0 ELSE @])
    /\ power' = ~(s.op = CmdPower /\ s.arg = 0)
    /\ IF s.op = CmdSetId
       THEN /\ mouse' = [mouse EXCEPT !.id = AcceptedId(s.arg)]
            /\ mse' = RingFlush(mse)
            /\ torn' = (s.mse_count > 0)
       ELSE UNCHANGED <<mouse, mse, torn>>

-----------------------------------------------------------------------------
(* The host. *)

\* handle_keyboard: a key going down queues its number, one going up the
\* number with bit 7 set; either byte alone may be dropped by a full ring.
HostKey(code) ==
    /\ power
    /\ kbd' = RingAdd(KbdSize, kbd, code)
    /\ UNCHANGED <<mse, mouse, smc, bus, power, trans, torn>>

\* The events of one video_update that touch the mouse: movement adds to what
\* is pending, then mouse_send_state runs once.
HostMouse(mx, my) ==
    /\ power
    /\ mouse_send_state(Least(mouse.dx + mx, MaxSends), Least(mouse.dy + my, MaxSends))
    /\ UNCHANGED <<kbd, smc, bus, power, trans, torn>>

\* machine_reset, from the guest's request at the top of the emulator loop or
\* from the host's reset key.  i2c_reset_state takes the bus to STOP and empties
\* both rings; it leaves mse_count, the offset and its position alone.  The guest
\* starts over.
MachineReset(fromHost) ==
    /\ power
    /\ smc.reset \/ (fromHost /\ (polite => ~ OffsetSent))
    /\ kbd' = RingFlush(kbd)
    /\ mse' = RingFlush(mse)
    /\ smc' = [smc EXCEPT !.reset = FALSE]
    /\ bus' = "stop"
    /\ trans' = <<>>
    /\ torn' = (smc.mse_count > 0)
    /\ UNCHANGED <<mouse, power>>

-----------------------------------------------------------------------------
(* The guest: one byte of an I2C transfer per action.  The emulator loop *)
(* honours a reset request before it runs another instruction. *)

GuestRuns == power /\ ~smc.reset

\* START and the address byte of the SMC, for writing or for reading.
GuestAddress(mode) ==
    /\ GuestRuns
    /\ bus = "stop"
    /\ polite => mode = "read" \/ ~ OffsetSent
    /\ bus' = mode
    /\ trans' = IF mode = "write" THEN <<>> ELSE trans
    /\ UNCHANGED <<kbd, mse, mouse, smc, power, torn>>

\* The first byte after the address is only stored; every later one is stored
\* and makes the SMC act.
GuestByte(v) ==
    /\ GuestRuns
    /\ bus \in {"write", "value"}
    /\ polite => Len(trans) < 2
    /\ trans' = IF polite THEN Append(trans, v) ELSE <<>>
    /\ IF bus = "write"
       THEN /\ smc' = smc_i2c_data(smc, v)
            /\ UNCHANGED <<mse, mouse, power, torn>>
       ELSE smc_write(smc_i2c_data(smc, v))
    /\ bus' = "value"
    /\ UNCHANGED kbd

\* The SMC fetches the byte when the first of its bits is clocked out; the
\* guest's NACK afterwards takes the bus back to expecting an address.
GuestRead(nack) ==
    /\ GuestRuns
    /\ bus = "read"
    /\ smc_read
    /\ bus' = IF nack THEN "stop" ELSE "read"
    /\ trans' = <<>>
    /\ UNCHANGED <<mouse, power, torn>>

GuestStop ==
    /\ GuestRuns
    /\ bus \in {"write", "value"}
    /\ bus' = "stop"
    /\ UNCHANGED <<kbd, mse, mouse, smc, power, trans, torn>>

-----------------------------------------------------------------------------
\* i2c_data is zero at start: the very first default read is of offset 0.
Init ==
    /\ kbd = EmptyRing(KbdSize)
    /\ mse = EmptyRing(MseSize)
    /\ mouse = [id |-> 3, dx |-> 0, dy |-> 0]
    /\ \E held \in Held :
         smc = [op |-> 0, arg |-> 0, pos |-> 0, read_op |-> OffKeyOnly,
                read_state |-> 0, mse_count |-> 0, long_press |-> held,
                led |-> 0, reset |-> FALSE]
    /\ bus = "stop"
    /\ power = TRUE
    /\ polite \in BOOLEAN
    /\ trans = <<>>
    /\ torn = FALSE

Next ==
    \/ \E code \in Codes : HostKey(code)
    \/ \E mx, my \in 0 .. MaxSends : HostMouse(mx, my)
    \/ \E fromHost \in BOOLEAN : MachineReset(fromHost)
    \/ \E mode \in {"write", "read"} : GuestAddress(mode)
    \/ \E v \in GuestBytes : GuestByte(v)
    \/ \E nack \in BOOLEAN : GuestRead(nack)
    \/ GuestStop

Spec == Init /\ [][Next /\ UNCHANGED polite]_vars

-----------------------------------------------------------------------------
\* Types of all variables: ring indices stay inside the rings and the mouse
\* ring holds report bytes only (i2c.c, smc.c).
TypeOK ==
    /\ kbd \in Ring(KbdSize, 0 .. 255)
    /\ mse \in Ring(MseSize, 0 .. 4)
    /\ mouse \in [id : {0, 3}, dx : 0 .. MaxSends, dy : 0 .. MaxSends]
    /\ smc \in SmcType
    /\ bus \in {"stop", "write", "value", "read"}
    /\ power \in BOOLEAN /\ polite \in BOOLEAN
    /\ torn \in BOOLEAN
    /\ trans \in Seq(0 .. 255) /\ Len(trans) <= 2

Reports == Contents(MseSize, mse)

\* The mouse ring never holds part of a report except the rest of the one being
\* read: its bytes follow each other in order, a report of the current device's
\* size after a report, and the last one is complete.  This is what the room
\* check in mouse_send and the flush in mouse_set_device_id are for.
WholeReports ==
    LET size == PacketSize(mouse.id)
    IN  /\ \A i \in 1 .. Len(Reports) - 1 :
              Reports[i + 1] = IF Reports[i] = size THEN 1 ELSE Reports[i] + 1
        /\ Reports # <<>> => Reports[Len(Reports)] = size

\* The reader and the mouse agree where reports begin: the ring holds whole
\* reports, and as long as it was not flushed inside one, mse_count says which
\* byte of the report comes out next, and that byte is there: smc_read's
\* assumption that a started report has enough data.
ReaderInStep ==
    /\ WholeReports
    /\ ~torn => IF smc.mse_count = 0
                THEN Reports # <<>> => Reports[1] = 1
                ELSE Reports # <<>> /\ Reports[1] = smc.mse_count + 1

ReportsInStep == TypeOK /\ ReaderInStep

\* Whatever transfers, resets and host events came before, what the SMC does for
\* a guest that keeps to the two forms is about the bytes of this operation: a
\* write acts on the offset and the value just sent; a read after an offset reads
\* there, and one without reads at the default (or, before the first operation,
\* at 0).  i2c_data and i2c_data_pos are never cleared by a STOP or a reset.
ActsOnOwnBytes ==
    [][polite =>
         /\ \A v \in GuestBytes : GuestByte(v) /\ OffsetSent =>
                LET s == smc_i2c_data(smc, v) IN <<s.op, s.arg>> = Append(trans, v)
         /\ \A nack \in BOOLEAN : GuestRead(nack) =>
                smc.op \in IF OffsetSent THEN {trans[1]} ELSE {smc.read_op, 0}]_vars

\* The two rings and the code around them implement the two bounded queues of
\* InputQueues: key codes in order and never invented, reports whole.
IQ == INSTANCE InputQueues WITH
          Code <- Codes, KbdRoom <- KbdSize - 1,
          MseRoom <- MseSize - 1,
          keys <- Contents(KbdSize, kbd), bytes <- Reports, size <- PacketSize(mouse.id)

\* SmcInput implements the queues the guest is meant to see.
QueuesImplemented == IQ!Spec
=============================================================================
