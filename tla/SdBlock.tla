------------------------------- MODULE SdBlock -------------------------------
(***************************************************************************)
(* The SD block device of the SYSCTL page (sdblock.c): its registers, the  *)
(* block buffer behind the data port, the image file, and the DMA into     *)
(* memory, under a guest that writes the registers byte by byte in any     *)
(* order, a debugger that reads them, and machine resets.                  *)
(*                                                                         *)
(* The address registers are digits in base Base, so memory has Base^2     *)
(* bytes (the code's 2^24) and a block address is below Base^2 (2^32).     *)
(***************************************************************************)
EXTENDS Integers, Sequences

CONSTANTS Base,       \* values of an address byte
          BlockSize,  \* 512
          CardSize,   \* whole blocks in the image file
          BlockCounts,     \* values the guest writes to COUNT
          Byte        \* data bytes

SdAssumption ==
    /\ Base \in Nat \ {0, 1}
    /\ BlockSize \in Nat \ {0}
    /\ (Base * Base) % BlockSize = 0
    /\ CardSize \in 1..(Base * Base)
    /\ {0, 1} \subseteq BlockCounts
    /\ \A n \in BlockCounts : n \in Nat /\ n * BlockSize <= Base * Base
    /\ 0 \in Byte

VARIABLES reg_lba, reg_mem, reg_count, reg_error,
          blkbuf, bufptr,
          img,      \* "none", "rw", or "ro" when only "rb" could open it
          card,     \* contents of the image file
          RAM,
          passed    \* bytes through the data port since the last command,
                    \* or since the pointer last came round

registers == <<reg_lba, reg_mem, reg_count, reg_error>>
sdVars == <<registers, blkbuf, bufptr, img, card, RAM, passed>>

Digits == 0..(Base - 1)
MemSize == Base * Base
Addr == 0..(MemSize - 1)
Lba == 0..(Base * Base - 1)
Blocks == 0..(CardSize - 1)
BlockBytes == [1..BlockSize -> Byte]

-----------------------------------------------------------------------------
(* sdblock.c: read_block, write_block *)
Readable(lba) == img # "none" /\ lba < CardSize
Writable(lba) == img = "rw" /\ lba < CardSize

\* Mutation: every block of a run is the first one.
Block_first(lba) == card[reg_lba]

Block(lba) == card[lba]

\* One block by DMA: RAM[(mem + b) & 0xFFFFFF] for each byte b.
DmaBlock(mem, ram, bytes) ==
    [a \in Addr |-> IF (a - mem) % MemSize < BlockSize
                    THEN bytes[((a - mem) % MemSize) + 1] ELSE ram[a]]

\* CMD_READ's loop: what its variables and memory are before the first block.
LoopStart == [lba |-> reg_lba, mem |-> reg_mem, ram |-> RAM, error |-> FALSE]

\* One turn.  It returns from do_command at a block it cannot read.
LoopTurn(s) ==
    IF s.error \/ ~Readable(s.lba) THEN [s EXCEPT !.error = TRUE]
    ELSE [lba |-> s.lba + 1, mem |-> (s.mem + BlockSize) % MemSize,
          ram |-> DmaBlock(s.mem, s.ram, Block(s.lba)), error |-> FALSE]

\* After i turns.
ReadLoop[i \in Nat] == IF i = 0 THEN LoopStart ELSE LoopTurn(ReadLoop[i - 1])

(* do_command *)
SdCommand ==
    /\ bufptr' = 0
    /\ passed' = <<>>
    /\ UNCHANGED <<reg_lba, reg_mem, reg_count, img>>

CMD_READ ==
    LET done == ReadLoop[reg_count]
    IN  /\ SdCommand
        /\ RAM' = done.ram
        /\ reg_error' = done.error
        /\ UNCHANGED <<blkbuf, card>>

CMD_READBUF ==
    /\ SdCommand
    /\ reg_error' = ~Readable(reg_lba)
    /\ blkbuf' = IF Readable(reg_lba) THEN Block(reg_lba) ELSE blkbuf
    /\ UNCHANGED <<card, RAM>>

CMD_WRITE ==
    /\ SdCommand
    /\ reg_error' = ~Writable(reg_lba)
    /\ card' = IF Writable(reg_lba) THEN [card EXCEPT ![reg_lba] = blkbuf] ELSE card
    /\ UNCHANGED <<blkbuf, RAM>>

CMD_RESET ==
    /\ SdCommand
    /\ reg_error' = FALSE
    /\ UNCHANGED <<blkbuf, card, RAM>>

CMD_other ==
    /\ SdCommand
    /\ reg_error' = TRUE
    /\ UNCHANGED <<blkbuf, card, RAM>>

-----------------------------------------------------------------------------
(* sdblock_write and sdblock_read *)
Low(x) == x % Base
High(x) == x \div Base

WriteLba(high, value) ==
    /\ reg_lba' = IF high THEN value * Base + Low(reg_lba) ELSE High(reg_lba) * Base + value
    /\ UNCHANGED <<reg_mem, reg_count, reg_error, blkbuf, bufptr, img, card, RAM, passed>>

WriteMem(high, value) ==
    /\ reg_mem' = IF high THEN value * Base + Low(reg_mem) ELSE High(reg_mem) * Base + value
    /\ UNCHANGED <<reg_lba, reg_count, reg_error, blkbuf, bufptr, img, card, RAM, passed>>

WriteCount(value) ==
    /\ reg_count' = value
    /\ UNCHANGED <<reg_lba, reg_mem, reg_error, blkbuf, bufptr, img, card, RAM, passed>>

Through(byte) == IF Len(passed) = BlockSize THEN <<byte>> ELSE Append(passed, byte)

Advance == bufptr' = (bufptr + 1) % BlockSize

WriteData(value) ==
    /\ blkbuf' = [blkbuf EXCEPT ![bufptr + 1] = value]
    /\ Advance
    /\ passed' = Through(value)
    /\ UNCHANGED <<registers, img, card, RAM>>

ReadData ==
    /\ Advance
    /\ passed' = Through(blkbuf[bufptr + 1])
    /\ UNCHANGED <<registers, blkbuf, img, card, RAM>>

DebuggerPeek == UNCHANGED sdVars

(* main.c: machine_reset reaches memory_reset, which leaves the block device *)
(* as it is: sdblock_reset has no caller.                                    *)
MachineReset == UNCHANGED sdVars

(* main.c: sdblock_attach on an image that may be missing or read-only *)
SdInit ==
    /\ reg_lba = 0
    /\ reg_mem = 0
    /\ reg_count = 1
    /\ reg_error = FALSE
    /\ blkbuf = [i \in 1..BlockSize |-> 0]
    /\ bufptr = 0
    /\ img \in {"none", "rw", "ro"}
    /\ card = [b \in Blocks |-> [i \in 1..BlockSize |-> 0]]
    /\ RAM = [a \in Addr |-> 0]
    /\ passed = <<>>

SdNext ==
    \/ \E high \in BOOLEAN, value \in Digits : WriteLba(high, value) \/ WriteMem(high, value)
    \/ \E value \in BlockCounts : WriteCount(value)
    \/ \E value \in Byte : WriteData(value)
    \/ ReadData
    \/ DebuggerPeek
    \/ CMD_READ \/ CMD_READBUF \/ CMD_WRITE \/ CMD_RESET \/ CMD_other
    \/ MachineReset

SdSpec == SdInit /\ [][SdNext]_sdVars

-----------------------------------------------------------------------------
\* The n-th byte that passes the data port after a command is the n-th byte of
\* the buffer, for reads and writes in any mixture, whatever registers were
\* written meanwhile and whatever a debugger looked at (bufptr in do_command and
\* sdblock_read).
WindowInStep ==
    /\ bufptr = Len(passed) % BlockSize
    /\ \A i \in 1..Len(passed) : blkbuf[i] = passed[i]

\* The device is a store of blocks (BlockStore): whatever the order of register
\* writes, data port accesses, commands, peeks and resets, memory and card change
\* only as asked, by whole blocks, around the end of memory where need be and up to
\* the end of the card; and its data port is in step with the guest.
Store == INSTANCE BlockStore
            WITH lba <- reg_lba, mem <- reg_mem, count <- reg_count, error <- reg_error,
                 usable <- img # "none"
BlocksImplemented == Store!Spec /\ []WindowInStep
=============================================================================
