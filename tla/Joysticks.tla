------------------------------ MODULE Joysticks ------------------------------
(***************************************************************************)
(* Game controllers (joystick.c): the host's come and go, are given the    *)
(* SNES ports that -joy1 to -joy4 enable, and the guest shifts their       *)
(* buttons in through VIA port A, one bit of every port at a time.  Every  *)
(* store to port A calls joystick_set_latch and joystick_set_clock with    *)
(* the levels of its pins.                                                 *)
(*                                                                         *)
(* A shift register is the sequence of bits still in it; past its end it   *)
(* shifts zeros.                                                           *)
(***************************************************************************)
EXTENDS Integers, Sequences, FiniteSets

CONSTANTS
    Slots,          \* the ports, 1 .. NUM_JOYSTICKS
    Buttons,        \* bits 1 .. Buttons of a register are buttons,
    Ones,           \* and these after them are set (| 0xF000)
    Table,          \* the length of Joystick_controllers
    MaxId,          \* bounds the controllers ever connected,
    MaxScans        \* and the guest's scans

\* A controller has no slot from the start if there are more than slots, and is
\* then entered twice: by joystick_init and by SDL's event (joystick.c:156).
JoyAssumption ==
    /\ Slots \subseteq Nat /\ Buttons \in Nat \ {0} /\ Ones \in Nat /\ MaxScans \in Nat
    /\ MaxId \in Nat /\ Table \in Nat /\ Table >= 2 * MaxId

VARIABLES
    controllers,        \* Joystick_controllers
    enabled,            \* Joystick_slots_enabled
    Joystick_slots,
    Joystick_latch, Joystick_data,
    connected,          \* ids of the host's controllers
    announced,          \* ids whose SDL_JOYDEVICEADDED is still to come
    last_id,
    clock,              \* the guest's clock pin
    scan,               \* bits read in the guest's scan; -1 between scans
    scans,
    held,               \* history: the buttons of each port at the last latch
    seen,               \* history: the bits the guest has read of each port
    changed             \* history: latches since a port's controller changed, at most 2

joyVars == <<controllers, enabled, Joystick_slots, Joystick_latch, Joystick_data, connected,
          announced, last_id, clock, scan, scans, held, seen, changed>>

host == <<controllers, enabled, Joystick_slots, connected, announced, last_id, changed>>
reading == <<scan, scans, held, seen, clock>>

None == -1
NoController == {0}         \* held at a port without one
Bits == Buttons + Ones
ScanLen == Bits + 1         \* what a scan reads: at the last a connected port is 0

\* A table entry.  button_mask is the set of the buttons not held.
Entry == [instance_id : Int, button_mask : SUBSET (1 .. Buttons), shift_mask : Seq({0, 1})]
Free == [instance_id |-> None, button_mask |-> 1 .. Buttons, shift_mask |-> <<>>]
Known(id) == {i \in 1 .. Table : controllers[i].instance_id = id}
First(S) == CHOOSE i \in S : \A j \in S : i <= j

-----------------------------------------------------------------------------
(* The host. *)

\* joystick_add: a controller that has no port gets the first free one that is
\* enabled, and an entry of the table.
Added(id) ==
    LET exists == \E s \in enabled : Joystick_slots[s] = id
        free == {s \in enabled : Joystick_slots[s] = None}
        room == Known(None)
    IN  IF exists THEN UNCHANGED <<controllers, Joystick_slots, changed>>
        ELSE /\ IF free = {} THEN UNCHANGED <<Joystick_slots, changed>>
                ELSE /\ Joystick_slots' = [Joystick_slots EXCEPT ![First(free)] = id]
                     /\ changed' = [changed EXCEPT ![First(free)] = 0]
             /\ controllers' = [controllers EXCEPT
                                  ![First(room)] = [Free EXCEPT !.instance_id = id]]

Connect ==
    /\ last_id < MaxId
    /\ last_id' = last_id + 1
    /\ connected' = connected \cup {last_id'} /\ announced' = announced \cup {last_id'}
    /\ UNCHANGED <<controllers, enabled, Joystick_slots, changed>>

joystick_add(id) ==
    /\ id \in announced
    /\ announced' = announced \ {id}
    /\ IF id \in connected THEN Added(id)
       ELSE UNCHANGED <<controllers, Joystick_slots, changed>>
    /\ UNCHANGED <<enabled, connected, last_id>>

SlotsWithout(id) == [s \in Slots |-> IF Joystick_slots[s] = id THEN None ELSE Joystick_slots[s]]

\* A controller is unplugged: SDL's removal event follows that of its arrival.
joystick_remove(id) ==
    /\ id \in connected \ announced
    /\ connected' = connected \ {id}
    /\ changed' = [s \in Slots |-> IF Joystick_slots[s] = id THEN 0 ELSE changed[s]]
    /\ Joystick_slots' = SlotsWithout(id)
    /\ controllers' = IF Known(id) = {} THEN controllers
                      ELSE [controllers EXCEPT ![First(Known(id))].instance_id = None]
    /\ UNCHANGED <<enabled, announced, last_id>>

\* joystick_button_down and _up, on the first entry of the controller.
Press(id, b) ==
    /\ id \in connected /\ Known(id) # {}
    /\ controllers' = [controllers EXCEPT ![First(Known(id))].button_mask =
                           IF b \in @ THEN @ \ {b} ELSE @ \cup {b}]
    /\ UNCHANGED <<enabled, Joystick_slots, connected, announced, last_id, changed>>

Host ==
    /\ \/ Connect
       \/ \E id \in 1 .. MaxId : joystick_add(id) \/ joystick_remove(id)
       \/ \E id \in 1 .. MaxId, b \in 1 .. Buttons : Press(id, b)
    /\ UNCHANGED <<Joystick_latch, Joystick_data, reading>>

-----------------------------------------------------------------------------
(* The guest's stores to port A. *)

\* The entry that port s shifts from, or 0.
Shifts(s) ==
    IF Joystick_slots[s] = None \/ Known(Joystick_slots[s]) = {} THEN 0
    ELSE First(Known(Joystick_slots[s]))

Bit(seq) == IF seq = <<>> THEN 0 ELSE Head(seq)
Rest(seq) == IF seq = <<>> THEN seq ELSE Tail(seq)

\* do_shift: a port without a controller reads one; the bits are added to data.
Shifted(table, data) ==
    [s \in Slots |-> IF data[s] = 1 \/ Shifts(s) = 0 THEN 1
                     ELSE Bit(table[Shifts(s)].shift_mask)]
AfterShift(table) ==
    [i \in 1 .. Table |-> IF \E s \in Slots : Shifts(s) = i
                          THEN [table[i] EXCEPT !.shift_mask = Rest(@)] ELSE table[i]]

\* The table with every controller's buttons in its register.
Latched ==
    [i \in 1 .. Table |->
        IF controllers[i].instance_id = None THEN controllers[i]
        ELSE [controllers[i] EXCEPT !.shift_mask =
                 [b \in 1 .. Bits |->
                     IF b > Buttons \/ b \in controllers[i].button_mask THEN 1 ELSE 0]]]

Zeros == [s \in Slots |-> 0]

\* Mutation: a store that leaves the clock low shifts too.
ClockShifts_anyLevel(clk) == TRUE

ClockShifts(clk) == clk

\* A store of the two pins: joystick_set_latch(latch), joystick_set_clock(clk).
WritePortA(latch, clk) ==
    /\ Joystick_latch' = latch
    /\ IF latch
       THEN Joystick_data' = Shifted(Latched, Joystick_data) /\ controllers' = AfterShift(Latched)
       ELSE IF ClockShifts(clk)
       THEN Joystick_data' = Shifted(controllers, Zeros) /\ controllers' = AfterShift(controllers)
       ELSE UNCHANGED <<Joystick_data, controllers>>
    /\ UNCHANGED <<enabled, Joystick_slots, connected, announced, last_id>>

-----------------------------------------------------------------------------
(* The guest's scan: latch, then for each bit a read and a clock pulse.      *)

Latch ==
    /\ scan = -1 /\ scans < MaxScans
    /\ WritePortA(TRUE, FALSE)
    /\ scan' = 0 /\ scans' = scans + 1
    /\ held' = [s \in Slots |-> IF Shifts(s) = 0 THEN NoController
                                ELSE (1 .. Buttons) \ controllers[Shifts(s)].button_mask]
    /\ seen' = [s \in Slots |-> <<>>]
    /\ changed' = [s \in Slots |-> IF changed[s] = 2 THEN 2 ELSE changed[s] + 1]
    /\ UNCHANGED clock

Unlatch ==
    /\ scan = 0 /\ Joystick_latch
    /\ WritePortA(FALSE, FALSE)
    /\ UNCHANGED <<reading, changed>>

\* It reads a bit of every port, then raises the clock.
Read ==
    /\ scan \in 0 .. ScanLen - 1 /\ ~ Joystick_latch /\ ~ clock
    /\ seen' = [s \in Slots |-> Append(seen[s], Joystick_data[s])]
    /\ WritePortA(FALSE, TRUE)
    /\ clock' = TRUE /\ scan' = scan + 1
    /\ UNCHANGED <<scans, held, changed>>

ClockLow ==
    /\ clock
    /\ WritePortA(FALSE, FALSE)
    /\ clock' = FALSE
    /\ scan' = IF scan = ScanLen THEN -1 ELSE scan
    /\ UNCHANGED <<scans, held, seen, changed>>

JoyDone == scan = -1 /\ scans = MaxScans /\ UNCHANGED joyVars

JoyInit ==
    /\ enabled \in SUBSET Slots \ {{}}
    /\ connected \in {{}} \cup {1 .. n : n \in 1 .. MaxId}
    /\ announced = connected    \* SDL announces those that joystick_init added
    /\ last_id = Cardinality(connected)
    /\ Joystick_slots = [s \in Slots |->
            LET nth == Cardinality({z \in enabled : z <= s})
            IN  IF s \in enabled /\ nth \in connected THEN nth ELSE None]
    /\ controllers = [i \in 1 .. Table |->
            [Free EXCEPT !.instance_id = IF i \in connected THEN i ELSE None]]
    /\ Joystick_latch = FALSE /\ Joystick_data = Zeros
    /\ clock = FALSE /\ scan = -1 /\ scans = 0
    /\ held = [s \in Slots |-> NoController] /\ seen = [s \in Slots |-> <<>>]
    /\ changed = [s \in Slots |-> 2]

JoyNext == Host \/ Latch \/ Unlatch \/ Read \/ ClockLow \/ JoyDone

JoySpec == JoyInit /\ [][JoyNext]_joyVars

-----------------------------------------------------------------------------
(* Properties. *)

JoyTypeOK ==
    /\ \A i \in 1 .. Table : /\ controllers[i].instance_id \in {None} \cup 1 .. last_id
                             /\ Len(controllers[i].shift_mask) <= Bits
    /\ Joystick_slots \in [Slots -> {None} \cup connected]
    /\ \A s, z \in Slots : Joystick_slots[s] = Joystick_slots[z] /\ s # z => Joystick_slots[s] = None
    /\ Joystick_data \in [Slots -> {0, 1}]
    /\ scan \in -1 .. ScanLen /\ scans \in 0 .. MaxScans

\* A scan reads of every port the buttons that its controller held at the latch,
\* whatever is pressed or plugged in at other ports meanwhile; then the ones, and
\* a zero where there is a controller, but ones only where there is none.  A
\* port's first scan after a change is an exception: its first bit is added to
\* the last one of the scan before (joystick.c:236 clears none), and a controller
\* plugged in during a scan shifts zeros.
ScanReadsButtons ==
    /\ JoyTypeOK
    /\ scan = ScanLen => \A s \in Slots : changed[s] = 2 =>
          seen[s] = [b \in 1 .. ScanLen |->
                        IF held[s] = NoController THEN 1
                        ELSE IF b <= Buttons /\ b \in held[s] THEN 0
                        ELSE IF b <= Bits THEN 1 ELSE 0]
=============================================================================
