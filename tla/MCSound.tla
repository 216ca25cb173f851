------------------------------ MODULE MCSound ------------------------------
(***************************************************************************)
(* What sound goes through: VERA's PCM channel, between the guest and the  *)
(* renderer; the mixer's ring, between the renderer and SDL's thread; the  *)
(* WAV recorder, that is handed the renderer's samples; and the MIDI       *)
(* card's UART, between the host's MIDI thread, the guest and the          *)
(* synthesizer.  They share no state: a frame that the renderer takes from *)
(* the channel has no trace of it when it enters the ring, mixed.  So a    *)
(* behaviour exercises one of the four, chosen at the start.               *)
(***************************************************************************)
EXTENDS AudioRing, PcmFifo, WavRecorder, MidiUart

VARIABLE sound

\* A note, of two data bytes, a program change, of one, and a sysex.
SomeEvents ==
    {[cmd |-> "90", data |-> <<"key", "vel">>], [cmd |-> "c0", data |-> <<"prg">>],
     [cmd |-> "f0", data |-> <<"x">>]}

ASSUME SoundAssumption == PcmAssumption /\ WavAssumption /\ MidiAssumption

mixerVars == vars
allVars == <<sound, mixerVars, pcmVars, wavVars, midiVars>>

SoundInit ==
    /\ sound \in {"mixer", "pcm", "wav", "midi"}
    /\ Init /\ PcmInit /\ WavInit /\ MidiInit
    /\ sound # "wav" => Wav_record_state = "PAUSED"

SoundNext ==
    \/ sound = "mixer" /\ Next /\ UNCHANGED <<sound, pcmVars, wavVars, midiVars>>
    \/ sound = "pcm" /\ PcmNext /\ UNCHANGED <<sound, mixerVars, wavVars, midiVars>>
    \/ sound = "wav" /\ WavNext /\ UNCHANGED <<sound, mixerVars, pcmVars, midiVars>>
    \/ sound = "midi" /\ MidiNext /\ UNCHANGED <<sound, mixerVars, pcmVars, wavVars>>

SoundSpec == SoundInit /\ [][SoundNext]_allVars
=============================================================================
