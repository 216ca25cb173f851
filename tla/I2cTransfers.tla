---------------------------- MODULE I2cTransfers ----------------------------
(***************************************************************************)
(* What the bit engine of i2c.c promises its devices: transfers made of    *)
(* whole bytes.  A transfer starts with an address; then come bytes the    *)
(* device is given, of which the first only sets the register, or bytes it *)
(* is asked for, until the master refuses one or ends the transfer.        *)
(***************************************************************************)
EXTENDS Naturals, Sequences

CONSTANTS Byte, Known   \* bytes; device numbers that answer

VARIABLES
    bus,     \* what the next byte is
    log      \* the calls of the transfer under way

vars == <<bus, log>>

Init == bus = "idle" /\ log = <<>>

Address(device, reading) ==
    /\ bus = "idle"
    /\ bus' = IF reading THEN "read" ELSE "write"
    /\ log' = <<[op |-> "address", device |-> device, byte |-> <<>>]>>

\* Nobody answers to the address; the next byte is an address again.
Refuse == bus = "idle" /\ log' = <<>> /\ UNCHANGED bus

Give(v) ==
    /\ bus \in {"write", "value"}
    /\ bus' = "value"
    /\ log' = Append(log, [op |-> IF bus = "write" THEN "select" ELSE "write",
                           device |-> log[1].device, byte |-> v])

Ask(v) ==
    /\ bus = "read"
    /\ log' = Append(log, [op |-> "read", device |-> log[1].device, byte |-> v])
    /\ UNCHANGED bus

\* A NACK, a STOP or a machine reset.
End == bus' = "idle" /\ UNCHANGED log

Next ==
    \/ \E d \in Known, reading \in BOOLEAN : Address(d, reading)
    \/ Refuse
    \/ \E v \in Byte : Give(v) \/ Ask(v)
    \/ End

Spec == Init /\ [][Next]_vars
=============================================================================
