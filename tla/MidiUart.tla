------------------------------ MODULE MidiUart ------------------------------
(***************************************************************************)
(* A UART of the MIDI card (midi.c).  The host's MIDI thread queues events *)
(* as bytes, with running status; each bit's time a step on the emulator's *)
(* thread passes bytes from the queue to the receiver's FIFO and from the  *)
(* transmitter's FIFO to the parser in front of the synthesizer; the guest *)
(* serves the UART's interrupts.  The guest here copies all it receives to *)
(* the transmitter, so that a key played on the host sounds.               *)
(*                                                                         *)
(* In this build no bus decodes the registers: midi_serial_read and        *)
(* midi_serial_write have no caller, no divisor is ever set, and the UART  *)
(* stays as midi_serial_init left it.  What is modelled is the routines,   *)
(* as a machine whose bus reaches them would use them.                     *)
(*                                                                         *)
(* Both FIFOs are enabled, the line is 8N1 and the divisor that of MIDI,   *)
(* without which the code drops what is written.  Modem lines and resets,  *)
(* and messages other than a sysex and those with data are left out.       *)
(***************************************************************************)
EXTENDS Integers, Sequences

CONSTANTS
    Data,         \* data bytes, those below 80
    Events,       \* what the thread may get: [cmd, data]
    Fifo,         \* bytes of a FIFO, 16 in the code
    Trigger,      \* fcr_ififo_trigger_level_bytes
    Queue,        \* bytes of midi_event_fifo, 256 in the code
    Bits,         \* bits of a byte on the line, 10 in the code
    TimeoutBytes, \* bytes of silence before a timeout, 4 in the code
    MaxEvents     \* bound: events the thread gets

VARIABLES
    queue,            \* midi_event_fifo
    in_last,          \* in_midi_last_command, "" for 0
    ififo, ofifo,
    ibits, obits,     \* ibyte_bits_remain, obyte_bits_remain
    rx_timeout, rx_timeout_enabled,
    thre_intr, thre_bits,
    lsr_oe, iir,
    midi_state, out_last, out_data,  \* midi_byte_out's state and what it collects
    pc, held, room,   \* the guest's handler; bytes it holds; bytes it may write
    accepted, midi_played, \* history: events queued, and played
    overrun           \* history: has the receiver lost a byte
midiVars == <<queue, in_last, ififo, ofifo, ibits, obits, rx_timeout, rx_timeout_enabled,
              thre_intr, thre_bits, lsr_oe, iir, midi_state, out_last, out_data,
              pc, held, room, accepted, midi_played, overrun>>

inVars == <<queue, in_last, accepted>>
guestVars == <<pc, held, room>>
synthVars == <<midi_state, out_last, out_data, midi_played>>

Tail1(s) == SubSeq(s, 2, Len(s))

\* Status bytes: with two data bytes, with one, and those of a sysex.
TwoData == {"80", "90", "b0"}
OneData == {"c0"}
Status == TwoData \cup OneData \cup {"f0", "f7"}

\* The FIFOs hold something, data bytes are no status bytes, and an event has as
\* many as its status says.
ASSUME MidiAssumption ==
    /\ Fifo \in Nat \ {0} /\ Queue \in Nat /\ Data \cap Status = {}
    /\ Events \subseteq [cmd : TwoData, data : {<<u, v>> : u, v \in Data}]
                    \cup [cmd : OneData, data : {<<u>> : u \in Data}]
                    \cup [cmd : {"f0"}, data : Seq(Data)]

-----------------------------------------------------------------------------
(* The MIDI thread.                                                        *)

\* Mutation: any running status serves.
Running_any(cmd) == in_last # ""

\* The status of the event before is this one's, and not queued again.
Running(cmd) == in_last = cmd

\* midi_event_enqueue_normal, _short and _sysex: what they append, and the
\* running status they leave; a sysex ends it.  An event that has no room is
\* dropped whole, and the next one begins with its status.
Enqueue(ev) ==
    LET n == Len(ev.data)
        encoded == IF Running(ev.cmd) THEN ev.data ELSE <<ev.cmd>> \o ev.data
    IN  CASE ev.cmd \in TwoData \cup OneData ->
               IF Len(queue) >= Queue - n THEN [bytes |-> << >>, last |-> "", ok |-> FALSE]
               ELSE [bytes |-> encoded, last |-> ev.cmd, ok |-> TRUE]
          [] ev.cmd = "f0" ->
               IF Len(queue) >= (Queue - 1) - (n + 2)
               THEN [bytes |-> << >>, last |-> "", ok |-> FALSE]
               ELSE [bytes |-> <<"f0">> \o ev.data \o <<"f7">>, last |-> "", ok |-> TRUE]

handle_midi_event(ev) ==
    /\ Len(accepted) < MaxEvents /\ ~ overrun
    /\ LET q == Enqueue(ev)
       IN  /\ queue' = queue \o q.bytes
           /\ in_last' = q.last
           /\ accepted' = IF q.ok THEN Append(accepted, ev) ELSE accepted
    /\ UNCHANGED <<ififo, ofifo, ibits, obits, rx_timeout, rx_timeout_enabled, thre_intr,
                   thre_bits, lsr_oe, iir, guestVars, synthVars, overrun>>

-----------------------------------------------------------------------------
(* The UART.                                                               *)

\* iir_check, of the state after a step, with all interrupts but the modem's
\* enabled.
iir_check ==
    iir' = IF lsr_oe' THEN "line"
           ELSE IF Len(ififo') >= Trigger THEN "data"
           ELSE IF ififo' # << >> /\ rx_timeout_enabled' /\ rx_timeout' = 0 THEN "timeout"
           ELSE IF thre_intr' THEN "thre"
           ELSE "none"

\* midi_byte_out.  The synthesizer's calls are the events played.
Play(cmd, data) == midi_played' = Append(midi_played, [cmd |-> cmd, data |-> data])
midi_byte_out(b) ==
    LET normal ==
            IF b \in Status
            THEN /\ midi_state' = IF b = "f0" THEN "SysEx" ELSE "Normal"
                 /\ out_last' = IF b \in {"f0", "f7"} THEN "" ELSE b
                 /\ out_data' = << >>
            ELSE /\ midi_state' = IF out_last \in TwoData THEN "Param" ELSE "Normal"
                 /\ out_data' = IF out_last \in TwoData THEN <<b>> ELSE << >>
                 /\ UNCHANGED out_last
    IN  CASE midi_state = "Normal" ->
               /\ normal
               /\ IF b \notin Status /\ out_last \in OneData THEN Play(out_last, <<b>>)
                  ELSE UNCHANGED midi_played
          [] midi_state = "Param" ->
               /\ Play(out_last, Append(out_data, b))
               /\ midi_state' = "Normal" /\ out_data' = << >>
               /\ UNCHANGED out_last
          [] midi_state = "SysEx" ->
               IF b \in Status THEN normal /\ Play("f0", out_data)
               ELSE out_data' = Append(out_data, b) /\ UNCHANGED <<midi_state, out_last, midi_played>>

\* The last byte leaves the FIFO, and no delay is due.
RunsEmpty == Len(ofifo) = 1 /\ thre_bits = 0

Transmit ==
    LET left == IF obits > 0 THEN obits - 1 ELSE 0
    IN  IF ofifo = << >>
        THEN /\ obits' = left
             /\ thre_bits' = IF thre_bits > 0 THEN thre_bits - 1 ELSE 0
             /\ thre_intr' = (thre_intr \/ thre_bits = 1)
             /\ UNCHANGED <<ofifo, synthVars>>
        ELSE IF left = 0
        THEN /\ midi_byte_out(Head(ofifo))
             /\ ofifo' = Tail1(ofifo)
             /\ thre_intr' = (thre_intr \/ RunsEmpty)
             /\ obits' = Bits
             /\ UNCHANGED thre_bits
        ELSE obits' = left /\ UNCHANGED <<ofifo, thre_intr, thre_bits, synthVars>>

\* A byte that finds the FIFO full is lost.
Receive ==
    LET left == IF ibits > 0 /\ queue # << >> THEN ibits - 1 ELSE ibits
        waited == IF rx_timeout > 0 THEN rx_timeout - 1 ELSE 0
        full == Len(ififo) >= Fifo
    IN  IF left = 0 /\ queue # << >>
        THEN /\ ififo' = IF full THEN ififo ELSE Append(ififo, Head(queue))
             /\ rx_timeout_enabled' = (rx_timeout_enabled \/ ~ full)
             /\ rx_timeout' = IF full THEN waited ELSE TimeoutBytes * Bits
             /\ lsr_oe' = (lsr_oe \/ full) /\ overrun' = (overrun \/ full)
             /\ queue' = Tail1(queue)
             /\ ibits' = Bits
        ELSE /\ ibits' = left /\ rx_timeout' = waited
             /\ UNCHANGED <<ififo, rx_timeout_enabled, lsr_oe, overrun, queue>>

\* midi_serial_step, for the time of one bit.
midi_serial_step ==
    /\ Transmit /\ Receive /\ iir_check
    /\ UNCHANGED <<in_last, accepted, guestVars>>

-----------------------------------------------------------------------------
(* The guest: an interrupt handler that copies.                            *)

\* Reading the IIR forgets the transmitter's interrupt, whatever cause it tells.
ReadIir ==
    /\ pc = "idle" /\ iir # "none"
    /\ thre_intr' = FALSE
    /\ pc' = "lsr"
    /\ UNCHANGED <<ififo, lsr_oe, rx_timeout, rx_timeout_enabled>> /\ iir_check
    /\ UNCHANGED <<inVars, ofifo, ibits, obits, thre_bits, held, room, synthVars, overrun>>

\* Reading the LSR clears its errors and leaves the IIR as it is.
ReadLsr ==
    /\ pc = "lsr"
    /\ lsr_oe' = FALSE
    /\ pc' = IF ififo # << >> THEN "read"
             ELSE IF ofifo = << >> /\ held # << >> THEN "write" ELSE "idle"
    /\ room' = Fifo
    /\ UNCHANGED <<inVars, ififo, ofifo, ibits, obits, rx_timeout, rx_timeout_enabled, thre_intr,
                   thre_bits, iir, held, synthVars, overrun>>

\* midi_serial_dequeue_ibyte.
ReadRbr ==
    /\ pc = "read" /\ pc' = "lsr"
    /\ held' = Append(held, Head(ififo))
    /\ ififo' = Tail1(ififo)
    /\ rx_timeout_enabled' = (ififo' # << >>)
    /\ rx_timeout' = IF ififo' = << >> THEN rx_timeout ELSE TimeoutBytes * Bits
    /\ UNCHANGED <<thre_intr, lsr_oe>> /\ iir_check
    /\ UNCHANGED <<inVars, ofifo, ibits, obits, thre_bits, room, synthVars, overrun>>

\* midi_serial_enqueue_obyte: as many bytes as the FIFO has, after it was empty.
WriteThr ==
    /\ pc = "write"
    /\ held' = Tail1(held) /\ room' = room - 1
    /\ pc' = IF room' > 0 /\ held' # << >> THEN "write" ELSE "idle"
    /\ IF Len(ofifo) < Fifo
       THEN /\ ofifo' = Append(ofifo, Head(held))
            /\ thre_intr' = FALSE
            /\ thre_bits' = IF ofifo = << >> THEN Bits - 1 ELSE 0
       ELSE UNCHANGED <<ofifo, thre_intr, thre_bits>>
    /\ UNCHANGED <<ififo, lsr_oe, rx_timeout, rx_timeout_enabled>> /\ iir_check
    /\ UNCHANGED <<inVars, ibits, obits, synthVars, overrun>>

Handler == ReadIir \/ ReadLsr \/ ReadRbr \/ WriteThr

-----------------------------------------------------------------------------
MidiInit ==
    /\ queue = << >> /\ in_last = ""
    /\ ififo = << >> /\ ofifo = << >>
    /\ ibits = Bits /\ obits = 0
    /\ rx_timeout = 0 /\ rx_timeout_enabled = FALSE
    /\ thre_intr = TRUE /\ thre_bits = 0
    /\ lsr_oe = FALSE /\ iir = "thre"
    /\ midi_state = "Normal" /\ out_last = "" /\ out_data = << >>
    /\ pc = "idle" /\ held = << >> /\ room = 0
    /\ accepted = << >> /\ midi_played = << >> /\ overrun = FALSE

MidiNext ==
    \/ \E ev \in Events : handle_midi_event(ev)
    \/ midi_serial_step
    \/ Handler

MidiSpec == MidiInit /\ [][MidiNext]_midiVars

-----------------------------------------------------------------------------
(* Properties. *)

\* What the host's keys send comes out of the synthesizer event by event, in
\* order, however steps and the guest's handler interleave: an event dropped
\* for want of room is dropped whole, and the running status of the thread that
\* encodes agrees with that of the parser, as long as the receiver loses no
\* byte (handle_midi_event, midi_byte_out).
PlaysWhatIsPressed ==
    ~ overrun => /\ Len(midi_played) <= Len(accepted)
                 /\ midi_played = SubSeq(accepted, 1, Len(midi_played))
=============================================================================
