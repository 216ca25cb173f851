------------------------------ MODULE MemoryBus ------------------------------
(***************************************************************************)
(* The flat memory map of memory.c: RAM, the boot page whose reads go to   *)
(* the boot ROM while SYSCTL's overlay bit is set, the firmware banks that *)
(* drop the CPU's stores, and the I/O page.  The CPU, the SD card's DMA,   *)
(* the loader, the debugger and the machine reset all reach this memory,   *)
(* each by a path of its own.                                              *)
(*                                                                         *)
(* A program may copy the boot page to the RAM under it, byte by byte,     *)
(* and then clear the overlay bit; interrupts, DMA and resets come between *)
(* any two of those steps.                                                 *)
(***************************************************************************)
EXTENDS Integers

CONSTANTS
    Plain,      \* addresses of ordinary RAM
    Boot,       \* $00:FF00-$00:FFFF
    Firmware,   \* banks $F0-$FF
    Unmapped,   \* addresses of the I/O page nothing answers at
    Vector,     \* $00:FFFC, in the boot page
    Byte,       \* values of a byte
    boot_rom    \* [Boot -> Byte], the image given with -boot

Ram == Plain \cup Boot \cup Firmware

ASSUME MapAssumption ==
    /\ Plain \cap Boot = {} /\ Plain \cap Firmware = {} /\ Boot \cap Firmware = {}
    /\ Unmapped \cap Ram = {}
    /\ Vector \in Boot
    /\ boot_rom \in [Boot -> Byte]
    /\ 0 \in Byte

VARIABLES
    RAM,        \* the 16 MB array
    overlay,    \* sysctl_overlay
    turbo,      \* sysctl_turbo
    open_bus,   \* the last byte on the bus
    pc,         \* where the CPU started after its last reset
    cpu,        \* the byte the CPU last read, and from where
    copied,     \* history: boot page addresses whose last store was the ROM's byte
    loaded      \* history: the last byte a loader or the DMA put into the firmware

vars == <<RAM, overlay, turbo, open_bus, pc, cpu, copied, loaded>>

\* What the CPU reads at a with the overlay mapped or not (real_read6502, io_read).
SeenWith(mapped, a) ==
    IF a \in Unmapped THEN open_bus
    ELSE IF a \in Boot /\ mapped THEN boot_rom[a]
    ELSE RAM[a]
Seen(a) == SeenWith(overlay, a)

\* Mutation: the overlay swallows writes as it shadows reads.
Stored_shadowed(a, v) ==
    IF a \in Plain \/ (a \in Boot /\ ~overlay) THEN [RAM EXCEPT ![a] = v] ELSE RAM

\* The array after the CPU stored v at a (write6502): a store to the boot page
\* always reaches the RAM under it, one to the firmware is dropped.
Stored(a, v) == IF a \in Plain \cup Boot THEN [RAM EXCEPT ![a] = v] ELSE RAM

\* memory_init leaves noise in RAM under -randram; -load then fills any of it.
Init ==
    /\ RAM \in [Ram -> Byte]
    /\ overlay = TRUE /\ turbo = FALSE
    /\ open_bus = boot_rom[Vector] /\ pc = boot_rom[Vector]
    /\ cpu = [at |-> Vector, got |-> boot_rom[Vector]]
    /\ copied = {} /\ loaded = [a \in Firmware |-> RAM[a]]

Read(a) ==
    /\ cpu' = [at |-> a, got |-> Seen(a)]
    /\ open_bus' = Seen(a)
    /\ UNCHANGED <<RAM, overlay, turbo, pc, copied, loaded>>

Write(a, v) ==
    /\ RAM' = Stored(a, v)
    /\ open_bus' = v
    /\ copied' = IF a \notin Boot THEN copied
                 ELSE IF v = boot_rom[a] THEN copied \cup {a} ELSE copied \ {a}
    /\ UNCHANGED <<overlay, turbo, pc, cpu, loaded>>

\* A store of v to $9F80: bit 0 is the overlay, bit 2 turbo (io_write).
WriteSysctl(o, t, v) ==
    /\ overlay' = o /\ turbo' = t
    /\ open_bus' = v
    /\ UNCHANGED <<RAM, pc, cpu, copied, loaded>>

\* A byte of the card's DMA goes to the array past the CPU's checks.
Dma(a, v) ==
    /\ RAM' = [RAM EXCEPT ![a] = v]
    /\ loaded' = IF a \in Firmware THEN [loaded EXCEPT ![a] = v] ELSE loaded
    /\ copied' = IF a \notin Boot THEN copied
                 ELSE IF v = boot_rom[a] THEN copied \cup {a} ELSE copied \ {a}
    /\ UNCHANGED <<overlay, turbo, open_bus, pc, cpu>>

\* Mutation: the CPU is reset before the memory is.
MachineReset_cpu_first ==
    /\ pc' = Seen(Vector) /\ open_bus' = Seen(Vector)
    /\ cpu' = [at |-> Vector, got |-> Seen(Vector)]
    /\ overlay' = TRUE /\ turbo' = FALSE
    /\ UNCHANGED <<RAM, copied, loaded>>

\* machine_reset: memory_reset maps the overlay again, and only then does
\* reset6502 fetch the vector, over the bus.
MachineReset ==
    /\ overlay' = TRUE /\ turbo' = FALSE
    /\ pc' = SeenWith(TRUE, Vector) /\ open_bus' = SeenWith(TRUE, Vector)
    /\ cpu' = [at |-> Vector, got |-> SeenWith(TRUE, Vector)]
    /\ UNCHANGED <<RAM, copied, loaded>>

Next ==
    \/ \E a \in Ram \cup Unmapped : Read(a)
    \/ \E a \in Ram \cup Unmapped, v \in Byte : Write(a, v)
    \/ \E o, t \in BOOLEAN, v \in Byte : WriteSysctl(o, t, v)
    \/ \E a \in Ram, v \in Byte : Dma(a, v)
    \/ MachineReset

Spec == Init /\ [][Next]_vars

-----------------------------------------------------------------------------
(* Properties. *)

TypeOK ==
    /\ RAM \in [Ram -> Byte]
    /\ overlay \in BOOLEAN /\ turbo \in BOOLEAN
    /\ open_bus \in Byte /\ pc \in Byte
    /\ cpu \in [at : Ram \cup Unmapped, got : Byte]
    /\ copied \subseteq Boot /\ loaded \in [Firmware -> Byte]

\* A program that runs from the boot page may copy itself down and unmap the
\* ROM while it runs ("without disturbing the instruction stream", memory.c:302):
\* where a byte has been copied and not stored over, the CPU reads the ROM's
\* byte whichever way the overlay is, also after resets, DMA and interrupts.
CopyIsSeamless == \A a \in copied : Seen(a) = boot_rom[a]

\* After a reset the CPU starts from the boot ROM's vector, whatever the
\* program before it stored in the boot page and whether it had unmapped it.
ResetBootsFromRom == pc = boot_rom[Vector]

\* The firmware the CPU reads is what the loaders put there, whatever the CPU
\* stored in between (write6502's protection against the DMA's free path).
FirmwareIsLoaded == \A a \in Firmware : Seen(a) = loaded[a]

\* After every reset the processor starts from the boot ROM, and what it boots
\* reads the firmware the loaders left (machine_reset, write6502).
BootsAsLoaded == TypeOK /\ ResetBootsFromRom /\ FirmwareIsLoaded
=============================================================================
