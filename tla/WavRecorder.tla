----------------------------- MODULE WavRecorder -----------------------------
(***************************************************************************)
(* The WAV recorder (wav_recorder.c): audio_render hands it the samples it *)
(* has mixed, the guest commands it by the emulator's registers, and the   *)
(* header is written again, with the sizes, when the recording ends.       *)
(*                                                                         *)
(* A sample is 0 for silence, or its number among those rendered.  Only    *)
(* the header's data size is kept, in samples; the other size is that plus *)
(* a constant.                                                             *)
(***************************************************************************)
EXTENDS Integers, Sequences

CONSTANTS
    WavLen,     \* most samples of a call
    MaxSamples  \* bound: samples rendered in all

WavAssumption == WavLen \in Nat /\ MaxSamples \in Nat

VARIABLES
    Wav_record_state,
    wav_file,    \* is it open
    wav_samples_written,
    disk,        \* the file: [size, data], size the header's
    wav_rendered,  \* number of the sample rendered last
    due,         \* history: what the recording in progress is to hold
    begun,       \* history: recordings begun
    failed,      \* history: a file could not be opened or written
    running
wavVars == <<Wav_record_state, wav_file, wav_samples_written, disk, wav_rendered, due, begun,
             failed, running>>

NoFile == [size |-> 0, data |-> << >>]

\* wav_begin: the file starts over, its header says nothing yet.
wav_begin(samples) ==
    /\ begun' = begun + 1
    /\ \/ /\ wav_file' = TRUE
          /\ disk' = [NoFile EXCEPT !.data = samples]
          /\ wav_samples_written' = wav_samples_written + Len(samples)
          /\ UNCHANGED failed
       \/ /\ wav_file' = FALSE /\ failed' = TRUE /\ disk' \in {disk, NoFile}
          /\ UNCHANGED wav_samples_written

\* wav_add; when the write fails the file is closed as it is.
wav_add(samples) ==
    /\ UNCHANGED begun
    /\ \/ /\ wav_file
          /\ disk' = [disk EXCEPT !.data = @ \o samples]
          /\ wav_samples_written' = wav_samples_written + Len(samples)
          /\ UNCHANGED <<wav_file, failed>>
       \/ /\ wav_file
          /\ wav_file' = FALSE /\ failed' = TRUE /\ UNCHANGED <<disk, wav_samples_written>>
       \/ ~ wav_file /\ UNCHANGED <<wav_file, disk, wav_samples_written, failed>>

Loud(samples) == \E i \in DOMAIN samples : samples[i] # 0

\* Mutation: the samples that start the recording are not in it.
Recorded_after(samples) == << >>

\* What goes into a recording that starts with these samples.
Recorded(samples) == samples

wav_recorder_process(samples) ==
    CASE Wav_record_state = "AUTOSTARTING" /\ Loud(samples) ->
           /\ Wav_record_state' = "RECORDING"
           /\ wav_begin(Recorded(samples))
           /\ due' = samples
      [] Wav_record_state = "RECORDING" ->
           /\ wav_add(samples)
           /\ due' = due \o samples
           /\ UNCHANGED Wav_record_state
      [] OTHER ->
           UNCHANGED <<Wav_record_state, wav_file, wav_samples_written, disk, due, begun, failed>>

\* audio_render, that mixes the samples.
Render ==
    /\ running
    /\ \E loud \in [1..WavLen -> BOOLEAN], n \in 1..WavLen :
           /\ wav_rendered + n <= MaxSamples
           /\ wav_rendered' = wav_rendered + n
           /\ wav_recorder_process([i \in 1..n |-> IF loud[i] THEN wav_rendered + i ELSE 0])
    /\ UNCHANGED running

\* The guest's write to $9FB6.  A recording that was in progress is not ended.
wav_recorder_set(command) ==
    /\ running /\ begun < 2
    /\ Wav_record_state' = CASE command = 0 -> "PAUSED"
                             [] command = 1 -> "RECORDING"
                             [] command = 2 -> "AUTOSTARTING"
    /\ IF command = 1 THEN wav_begin(<< >>) /\ due' = << >>
       ELSE UNCHANGED <<wav_file, wav_samples_written, disk, due, begun, failed>>
    /\ UNCHANGED <<wav_rendered, running>>

\* main_shutdown: wav_recorder_shutdown, wav_end.
Exit ==
    /\ running /\ running' = FALSE
    /\ LET ends == Wav_record_state = "RECORDING" /\ wav_file
       IN  /\ wav_file' = (wav_file /\ ~ ends)
           /\ disk' = IF ends THEN [disk EXCEPT !.size = wav_samples_written] ELSE disk
    /\ UNCHANGED <<Wav_record_state, wav_samples_written, wav_rendered, due, begun, failed>>

Done == ~ running /\ UNCHANGED wavVars

\* main: wav_recorder_set_path of the name given, with ",wait", ",auto" or
\* neither; wav_begin then opens the file at once.
WavInit ==
    /\ Wav_record_state \in {"PAUSED", "AUTOSTARTING", "RECORDING"}
    /\ wav_file = (Wav_record_state = "RECORDING")
    /\ begun = IF wav_file THEN 1 ELSE 0
    /\ wav_samples_written = 0 /\ disk = NoFile /\ wav_rendered = 0
    /\ due = << >> /\ failed = FALSE /\ running = TRUE

WavNext ==
    \/ Render
    \/ \E command \in 0..2 : wav_recorder_set(command)
    \/ Exit
    \/ Done

WavSpec == WavInit /\ [][WavNext]_wavVars

-----------------------------------------------------------------------------
\* One recording, once begun and not paused, is in the file from the sample that
\* started it to the last, and after the exit the header counts it
\* (wav_recorder_process, wav_end).
RecordingIsWhole ==
    ~ failed /\ begun = 1 /\ Wav_record_state = "RECORDING" =>
        /\ disk.data = due
        /\ ~ running => disk.size = Len(disk.data)

\* "Please exit the emulator before reading the WAV file" (README.md): then the
\* header of a recording that the guest paused ("`0` pauses") counts the samples
\* the file holds (wav_recorder_set, wav_recorder_shutdown).
HeaderCounts ==
    ~ running /\ ~ failed /\ begun = 1 /\ Wav_record_state = "PAUSED" =>
        disk.size = Len(disk.data)
=============================================================================
