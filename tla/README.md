# A TLA+ model of the X816 emulator

The X816 emulator runs a flat 16 MB 65C816 machine with the peripherals of the
Commander X16: VERA (video and PCM sound), two VIA 6522, the System Management
Controller (SMC) with keyboard and mouse, a real time clock, an SD card reached
by DMA, a YM2151. This directory models its devices in TLA+, checks them with
TLC on small instances, and proves with TLAPS, for every instance, the results
that matter most. Paths below are relative to the repository's `src/`.

Everything is about one question: the emulator's devices are state machines that
five parties drive in an order nobody fixes - the guest program, one bus access
at a time; the main loop, by an instruction's clocks at a time; the host (SDL
events, the audio and MIDI threads, controllers that are plugged in); the host's
files, where a write can fail and a process can be killed; the machine reset,
which clears some state and leaves some - and a test exercises one of those
orders.

## 1. Inventory

### How the parts interact

`main.c:1687-2069` (`emulator_loop`) is the scheduler. One iteration honours a
pending reset, lets the debugger and the host file system trap act, executes one
instruction (`step6502`), then steps every device by the clocks it took: VIA 1,
millisecond timer, SPI, serial bus, VIA 2, beam, I2C (once per clock), automatic
typing, RTC, audio, MIDI. At the end of a frame it writes the NVRAM file, takes
the host's events (`video_update`) and measures time. Last it samples the
interrupt line. All of that is one thread. SDL's audio thread only runs
`audio_callback`; the MIDI library's only queues events (`handle_midi_event`).

| Part | State | Operations | Talks to | Hard behaviour | What makes it correct |
|---|---|---|---|---|---|
| Memory bus (`memory.c`) | 16 MB RAM, overlay and turbo bits, open bus | CPU read/write, SYSCTL, DMA, loader, reset | every device | reads and writes of a page differ; paths with and without protection | the boot program can copy and unmap the page it runs from; a reset starts from the ROM; firmware is protected from the CPU and open to loaders |
| Millisecond timer (`memory.c`) | counter, remainder, latch | step, read of 4 bytes, debugger's read, reset | main loop, guest | reading tears | every clock counted once; a reading is whole |
| SD block device (`sdblock.c`) | registers, 512 byte buffer, pointer, image | register writes, 4 commands, data port, reset | RAM by DMA, host file | partial transfers, wrap-around, debugger's peek | blocks move whole; the error bit tells how far |
| I2C (`i2c.c`) | line levels, bit count, byte, direction, device | one step per line change, reset | VIA 1 port A, SMC, RTC | START and STOP are level changes among data bits | devices see exactly the bytes sent |
| SMC and input (`smc.c`, `i2c.c`, `keyboard.c`) | two rings, offset/value/position, report counter | host key, host mouse, byte transfers, reset | I2C, host | a report read over several transfers while the host adds, resets or a new device id comes | reports whole, reader in step, own bytes only |
| RTC and NVRAM (`rtc.c`) | calendar, 64 cells, register pointer | step, read, write, reset of the bus | I2C, NVRAM file | carries; two hour forms; pointer survives transfers | counts days; round trips; own register |
| VIA (`via.c`) | counters, latches, flags | step, register reads and writes, reset | interrupt line, I2C, controllers | an instruction's clocks at once over several expiries | interrupts on time and once |
| VERA ports and blitter (`video.c`) | VRAM, palette, two addresses, prefetch | data and address registers, FX, blits, reset | beam | prefetch and copies go stale | what is ahead or copied is the memory |
| VERA beam (`video.c`, `vera2.c`) | two line counters, ISR, collisions, latched base | step, register writes, reset | interrupt line, main loop | two raster systems; mid-frame writes | one sync per frame, every line once, one base |
| PCM (`vera_pcm.c`) | 4 KB ring, indices and count, loop | write, control, render, reset | mixer | frames cut, restart, loop | whole frames in order |
| Audio output (`audio.c`) | mixer ring, two indices, count | render (emulator), callback (SDL thread) | two threads | overflow and skip | order kept, no silence with sound waiting |
| CPU (`cpu/`) | registers, mode and widths, wait state | instructions, IRQ, NMI, reset | bus, main loop | interrupts of different modes nest; a masked one ends a wait | an interrupt is invisible to the program; widths and registers agree; no wakeup is lost |
| Host file system (`ieee.c`) | 16 channels, the open files, the command line, the listing, the current directory | TALK, LISTEN, OPEN, CLOSE and bytes, commands, block transfers | KERNAL-signed image or `-serial`; host files | protocol state survives from call to call; names resolve twice | a channel's bytes are its file's; a listing shows every entry once; nothing is overwritten unasked |
| Compressed images (`files.c`) | image, temporary copy, position, dirty flag | open, seek, read, write, close | host disk | killed between two chunks; a full disk | the image is the old one or the new one, or its copy is whole |
| Cartridges (`cartridge.c`) | bank kinds, banks, `.crt`, `.nvram` | makecart's commands, start, exit | host disk | two files read in step; partial failures | it starts as it was made, with the NVRAM as it was left |
| Main loop (`main.c`) | frame, NVRAM and its dirty flag, exit countdown, warp mode | an iteration, the ways out | all devices, user | an exit between a store and the end of a frame | NVRAM saved, last picture whole, an exit that is asked for happens |
| Automatic typing (`keyboard.c`) | text, timer | one step per iteration | SMC ring | a full ring, a reset, a guest that reads late | the text arrives once, in order, and no key stays held |
| Controllers (`joystick.c`) | ports, table, latch, shift registers | plug, unplug, press, latch, clock | VIA 1 port A, SDL | changes between two bits of a scan | a scan reads what was held at its latch |
| MIDI (`midi.c`) | UART registers, FIFOs, queue, parsers | accesses, a step per bit, MIDI thread | host's MIDI, synthesizer; in this build no bus | running status at both ends, full FIFOs | whole events in order |
| WAV recorder (`wav_recorder.c`) | state, file, header | samples, guest's commands, exit | mixer, host disk | paused, failed or never started when it ends | the file is the recording and the header counts it |
| Serial bus, SPI and SD protocol (`serial.c`, `vera_spi.c`, `sdcard.c`) | bit engine; shift state and command buffer | bus steps, byte transfers | VIA 2, VERA | command framing; no card can be attached in this build | frames complete |

The full list with the status of each part is `components` in PROJECT.json; the
places where something can go wrong that a test would hardly reach are its
`hazards`.

### What is modelled now

| Module | Models | State and actions against the code |
|---|---|---|
| `Cpu816` | control of `cpu/` and the loop's look at the interrupt line | `e p pc k sp` are `regs`, `stack` the bytes a program may still pull; an action per instruction or family that affects control; `Poll` is the end of an iteration of `emulator_loop` |
| `Alu816` | what instructions compute | digits of any even number of values (`Digit`) and a base below it (`Ten`) stand for hexadecimal and decimal digits; one operator per instruction on values, carry and flags, in both widths; C's `&`, `\|` and `^` are constants, which `MCInstructions` sets to the bitwise operators |
| `Address816` | where they find operands | one operator per addressing mode of `cpu/modes.h`; `getvalue`, `putvalue` byte by byte |
| `BlockMove` | `mvn`, `mvp` | an instruction moves one byte; a handler with moves of its own may come after any |
| `ByteRing` | the ring of `i2c.c` | operators on a record [buf, head, tail], of any size (a parameter; both rings of `i2c.c` have 16 slots, `KBD_SIZE` and `MSE_SIZE`); `RingAdd`, `RingNext`, `RingFlush`, `RingCount` are the four static functions |
| `SmcInput` | `smc.c`, mouse reports, host events | `kbd`, `mse` are rings, `smc` the statics of `smc.c`; `GuestAddress/Byte/Read/Stop` are what `i2c_step` calls at byte boundaries; `HostKey`, `HostMouse`, `MachineReset`; `trans` is what the guest has sent in the transfer under way, which its guards read instead of the SMC's own position |
| `InputQueues` | abstract: two bounded queues | implemented by `SmcInput` |
| `Joysticks` | `joystick.c` | slots, the table SDL's events are looked up in, latch and shift; the guest's scan bit by bit |
| `AutoKeys` | `autokeys_step` | one event per step into a ring that may be full, in front of a guest that tracks Shift |
| `I2cBus` | `i2c_step` line by line | `dev` holds its statics, a byte as the function from its bits; the guest changes one line per step |
| `I2cTransfers` | abstract: transfers of whole bytes | implemented by `I2cBus`; what `SmcInput` and `RtcClock` start from |
| `RtcClock` | `rtc.c` | `t` the calendar, `op/arg/pos` the shared `i2c_data` |
| `MemoryBus` | `memory.c` map | one action per path to memory |
| `Cartridge` | `cartridge.c` | makecart's commands, `cartridge_load` and `cartridge_save_nvram` over two files |
| `SdBlock` | `sdblock.c` | registers byte by byte, four commands, data port, debugger, reset |
| `BlockStore` | abstract: whole blocks move | implemented by `SdBlock` |
| `GzFile` | `files.c` for a compressed image | unpacking and packing a block at a time, with kills and full disks between; `short` remembers that packing was cut and only the copy is whole, `GiveUp` is where the code gives that copy up |
| `HostFs` | `ieee.c` | the KERNAL's calls on channels over a tree of directories; `resolve_path`, OPEN's modes, the commands, the listing (which, opened to write, is a file with the name `$`) |
| `VeraPorts` | ports, palette window, FX line mode, blitter | the action names are the registers |
| `VeraBeam` | `video_step`, ISR, VERA2's base | a step ends at most one line of each raster; `since` is what the frame under way has done, a line drawn twice included |
| `PcmFifo` | `vera_pcm.c` | a frame may fall due at any moment, and a store to the control register may change the format at any moment |
| `AudioRing` | the ring of `audio.c` | `audio_render`'s locked part and `audio_callback`, one step each as SDL's lock makes them |
| `WavRecorder` | `wav_recorder.c` | samples are numbers; the guest's commands, failing writes, the exit |
| `MidiUart` | a UART of `midi.c` | a step per bit's time; both FIFOs, running status at both ends, the interrupt causes; a handler that copies input to output. The routines as they are written: in this build nothing calls `midi_serial_read` or `midi_serial_write` and `clockdec` is never set, so the UART stands still |
| `MsTimer` | `timer_step`, `timer_read` | guest reads byte by byte, debugger looks |
| `ViaTimers` | both timers of `via_step` | the loop over an instruction's clocks is a recursive function; timer 2 stands still while it counts pulses (nothing in the code counts them up). The interrupt enable register, ports, shift register and PB7 are left out |
| `MainLoop` | `emulator_loop`'s frames and exits | an iteration is an instruction and what follows it; `phase` says where the process is or which way it left |

`Cpu816` runs arbitrary programs within a discipline: stacks do not overflow, a
handler returns (`rti`) in the mode and with the stack pointer it was entered
with, the stack pointer is moved only while nothing is on the stack, and a program
that has something there enters emulation mode in page 1 only. Without it no
interrupt can return properly on the real processor either. Values that only data
would decide (what PLP finds in a byte pushed as data) are nondeterministic.

`MC*` modules instantiate them. Modules that share no state are checked in one
run: a behaviour exercises one of them, chosen at the start, and the others keep
their initial states. For properties of single modules that loses nothing, since no
step of one changes another's variables. So that one run can hold several and one
proof module can speak of each, their names differ: a module's behaviour is `Init`,
`Next`, `Spec` for the first of a run and `SdInit`, `SdNext`, `SdSpec` for another,
and what its constants must satisfy is an operator (`SdAssumption`) or a named ASSUME.
`MCBoard` extends memory, clock, I2C and the cartridge;
`MCInstructions` (on `MCCpu816`) extends the four modules of the processor; `MCStorage` (on
`MCHostFs`) extends the block device and the image; `MCInput` the SMC and the
controllers; `MCLoop` frames and typing; `MCClocked` what the loop steps by clocks and
VERA's ports; `MCSound` the mixer, PCM, the recorder and the MIDI card.
The modules that do share state are composed where that happens: the rings of
`ByteRing` inside `SmcInput` and `AutoKeys`, the bus's promise `I2cTransfers` under
`SmcInput` and `RtcClock`, and the loop's look at the interrupt line in `Cpu816`.

## 2. What the runs check

| Run | Instance and why it is enough | What it shows |
|---|---|---|
| `cpu` | modes: two program counters, two banks, pages of 7 bytes, 6 bytes on the stack, which is two nested interrupts in emulation mode or one in native mode with bytes of the program around it; decimal mode stays off there, being saved and restored as the interrupt mask is. Arithmetic: ten words of four digits of four values, three of them decimal; among the words both ends, the sign's boundary and digits that are not decimal, in every pair and width. Addresses: bytes of three values, so that direct page, page, bank and 16 bit wrap-arounds all occur. Moves: two, with a handler's nested in them | `WidthsHold`, `NoLostWakeup`, `ReturnsAsEntered`; `AddsAndSubtracts` (decimal sums and differences in decimal mode, the order of the operands in binary), `WideIsTwoNarrow`; `AsOn6502`; `MoveIsWhole` |
| `board` | memory: a byte or two of each kind and three byte values. I2C: bytes of 3 bits, transfers of 4 bytes, two devices and an unknown one, resets at any bit. Clock: times a second before each kind of carry, two clocks a second, three clocks, hours in both forms, resets inside transfers to a cell of the NVRAM. Cartridge: three banks of two cells, two commands, two starts, kills and failing files | `CopyIsSeamless`, `BootsAsLoaded`; `TransfersImplemented` (bits implement `I2cTransfers`, bytes arrive as sent, the bus is ready after each); `CalendarCountsDays` (date and weekday against day numbers), `RegistersKeep`; `LastNvramKept` |
| `storage` | files: channels to read, write and command, two inodes, names that fold to the same letter, two acts that change something, a unit besides the drive's, the listing opened to read and to write. Blocks: a card of two blocks behind four addresses, memory of four bytes, none to two blocks, so that transfers wrap, run off the card and ask for nothing. Image: two blocks, three openings | `FilesAreKept` (what is read and stored is the file in order, whatever is opened, talked to or closed in between), `ListingIsWhole`; `BlocksImplemented`; `ImageOldOrNew` (after a kill or a full disk while packing, that the copy is whole) |
| `input` | rings of 3 and 6 slots, so that indices wrap and a report does not always fit; 3 and 4 byte reports; a counter of 3 bits; a guest that keeps to the SMC's two forms of transfer and one that does not. Two ports, two buttons, two controllers that come and go, at least one there at the start, two scans | `ReportsInStep` (reports stay whole and the reader knows where they begin), `ActsOnOwnBytes` (for the first guest: what the SMC does is about the offset and value of that operation, whatever transfers came before), `QueuesImplemented`; `ScanReadsButtons` |
| `loop` | frames of two instructions, every second drawn in warp mode, two stores to the NVRAM, one restart; texts with and without the shifted layer through a ring of three bytes, with a reset | `SavedOnExit`, `LastPictureWhole`, `ExitsWhenAsked`; `TypesTheText`; `TextArrives` |
| `clocked` | milliseconds of 3 clocks and instructions of up to 7, past the wrap of four bytes; VIA counters of 9 values; 4 visible lines in 7, both rasters, two line interrupts, two values of each part of the base. Ports: 3 bytes, one in the palette, both ports, increments, line mode, a blit whose destination wraps; a reset leaves one of the contents of `Noise` | `CountsEveryClock`, `ReadIsWhole`; `TimersOnTime`; `FramesAreWhole`; `FetchedIsFresh`, `PaletteFollows`, `BlitIsExact` |
| `sound` | a mixer ring of three buffers of three frames over four turns; a PCM ring of 8 bytes with streams of 11 and all frame sizes, changed in mid-stream too; recordings of five samples; two MIDI events through FIFOs of two bytes with a trigger level of two and a queue of five, so that all three fill up | `PlaysInOrder`, `HoldsTheRest`; `PlaysWholeFrames`; `RecordingIsWhole`; `PlaysWhatIsPressed` |

Every property has a mutant of the code that breaks it (operators named
`x_what_is_wrong`, each a plausible slip in the function it replaces).

`CHECK_DEADLOCK FALSE` stands where a part may stop: the bounded runs of files,
cartridges, scans and starts end, and so do the emulator's own exits.

### Refinement

`SmcInput` implements `InputQueues` (the slots of a ring from tail to head are the
queue), `I2cBus` implements `I2cTransfers` (a transfer's byte happens at the line
change at which the code calls the device), `SdBlock` implements `BlockStore` (a
command is one step there as in the code; what the guest puts into the buffer is
not the card's until a command). Each is a `PROPERTY` of the run that has it.

### Fairness

Safety properties need none. The properties that say something must happen assume
of the code only what its unconditional loops give:

- `ExitsWhenAsked`: the loop goes on (`WF Run`): `emulator_loop` is `for (;;)` and
  nothing in an iteration waits for more than the host's clock. The user's events,
  warp mode and the debugger are not fair, and the property excepts a program that the
  debugger holds.
- `TextArrives`: the loop calls `autokeys_step` every iteration, and the guest's
  program reads the SMC's ring now and again. The second is the guest's, so a guest
  that never reads is out; one that reads late, or lets the ring fill up, is in.

### Where the code departs from what the repository says

| Run | The statement | What the code does |
|---|---|---|
| `cpu_stack_page` | "values that are fixed at their given value due to the current processor state [...] the high byte of SP if emulation mode is active" (`README.md:449`) | `tcs` loads all 16 bits of the stack pointer in either mode; `txs` and `xce` keep its high byte at 1 |
| `headless_exit` | $9FBC is a "Guest-requested exit, for test harnesses", "Deferred to the next frame boundary" (`src/memory.c:451`) | with `-testbench` there are no frame boundaries (`src/main.c:1911`): the guest asks for ever |
| `wav_pause` | "exit the emulator before reading the WAV file" (`README.md:323`), 0 "pauses" (`README.md:345`) | the header is written only if the exit finds the recorder recording (`src/wav_recorder.c:145`): after one sample, a pause and the exit, the sample is in the file and the header says that there are none |
| `host_absolute` | a name that begins with / is appended "to the fsroot_path", not to the current directory (`src/ieee.c:408`); "forbid overwrite unless requested" (`src/ieee.c:1601`) | for a new name with a path the current directory is put in front all the same (`src/ieee.c:612`), and a file that exists there is emptied |
| `cartridge_seek` | the NVRAM file "overwrites any data present in NVRAM banks in the CRT file" (`README.md:527`) | skipping a bank of the `.crt` seeks to the file's end instead (`src/cartridge.c:95` and the constants of `files.h`): what follows the NVRAM bank is lost |

Seen while modelling. The models have those that lie in what they model; where one
limits a property, the property says so:

- A render of more than one buffer at once overflows the mixer's ring, whose skip is
  one buffer (`src/audio.c:408`); `RingSafe` assumes that it is not.
- Line mode adds port 0's increment to port 1 without the mask of the address space
  (against `src/video.c:1676`); `TypeOK` of `VeraPorts` says how far it can get.
- `sdblock_reset` has no caller: the device keeps its registers over a reset.
- The third byte of an SMC transfer becomes an offset with the previous value as its
  argument (`src/smc.c:131`): `<<5, 0, 2>>` resets the machine.
- `via_step` counts `cnt` clocks twice when an instruction's last clock takes
  timer 1 past zero (`src/via.c:178`). It is the only case in which the cut into
  instructions matters (`TimersOnTime`).
- `rtc_write` takes VBATEN from bit 5 where `rtc_read` shows it at bit 3, and
  does not mask the leap year bit out of the month; a month written back in a
  leap year indexes past `days_per_month`. The model's guest stays in range.
- Multi-byte transfers to the RTC do not advance its register.
- A machine reset or a new mouse id between the bytes of a report leaves
  `mse_count`; the next reads take bytes from an empty ring or across a report.
  `ReaderInStep` excludes exactly that (`torn`).
- `penaltyd` is not cleared before an instruction (`src/cpu/fake6502.c:289`),
  so one access with an unaligned direct page slows every later instruction.
- An NMI that the SMC raises within an `mvn` or `mvp` whose destination is the
  VIA pushes the address after the move, and the move then takes 3 from the
  handler's (`src/cpu/instructions.h:837-843`).
- In decimal mode `sbc` computes V from the carry it has just changed
  (`src/cpu/instructions.h:617`); `WideIsTwoNarrow` excepts it.
- A looping PCM channel survives a machine reset; a restart after the write
  index has wrapped plays less than the sample.
- The NVRAM is marked clean though its file could not be opened (`src/main.c:1919`);
  `SavedOnExit` excepts that.
- A cartridge's uninitialised NVRAM banks are saved but never loaded, and shift the
  initialised ones behind them in the file: `LastNvramKept` is of cartridges that have
  none of those before other banks with contents. `makecart` passes a count of one, so
  that only the first of several files is imported; an empty file imported at the top
  bank makes the loop over banks endless (`src/cartridge.c:371`); a compressed `.crt` is
  not looked for under the name that has one.
- A compressed image that can only be read drops the guest's writes without an error,
  and a full disk while packing shortens it: the results of the writes are not looked at.
- A controller's first bit is added to the last of the scan before; one that is plugged
  in during a scan shifts zeros, which are buttons held (`ScanReadsButtons` has both).
- A recording that is started a second time empties its file, but
  `wav_samples_written` goes on from the first (`src/wav_recorder.c:46`, `126`): the
  header then counts more samples than there are. `HeaderCounts` and
  `RecordingIsWhole` are of recordings that are started once.
- A host's reset between an offset and the read or value that belongs to it leaves the
  SMC's position behind, so that the next offset is taken for a value (`ActsOnOwnBytes`
  is of a guest that is not reset there).
- A kill while a compressed image is packed leaves it cut off, and the copy, which is
  whole, is what the next start overwrites before it reads anything; a full disk while
  packing ends with the copy deleted (`src/files.c:190`). `ImageOldOrNew` says that the
  copy is whole until then.
- `Ctrl`+`V` (`README.md:298`) puts ten characters into a scratch `BRAM` that the guest
  cannot reach (`src/memory.c:93`), and then the paste never ends, since nothing counts
  `NDX` down (`src/main.c:2040`); with `-pastewarp` (`README.md:151`) warp mode stays on.
- `$` opened on a channel to write is not the listing but a host file with that name
  (`src/ieee.c:1581`).
- The MIDI card's registers are on no page of this machine's bus: `midi_serial_read` and
  `midi_serial_write` have no caller, though the README lists the card (`README.md:32`).

## 3. What is proved

TLAPS proves these for every value of the constants that meets the named
assumptions, of which the runs' instances are examples. A theorem `XCorrect` has a
component's own specification as its hypothesis and the property that the run checks
as its conclusion.

| Theorem (module) | Says | How |
|---|---|---|
| `AddIsQueueAdd`, `NextIsQueueNext` (`Input_proofs`) | the ring of `i2c.c`, of any size, is a queue of `size - 1` bytes | the slots from tail to head are a sequence (`ContentsAt`); adding touches the slot after its end |
| `InputCorrect`, `OperationsCorrect` (`Input_proofs`) | the mouse ring holds whole reports and `mse_count` says which byte of one comes next, for rings and counters of any size; for a guest that keeps to the two forms, what a write or a read does is about the offset and value sent in that operation, whatever transfers, host events and resets between operations came before | `SmcInv` adds to `ReaderInStep` how the SMC's position and offset stand to what the guest has sent in the transfer under way (`PositionInStep`); that no transfer leaves a position behind follows from it. That a report goes in whole or not at all is `SendsGrow`: `mouse_send_state`'s room check is of the bytes it is about to add |
| `InputImplementsQueues` (`Input_proofs`) | `SmcInput` implements `InputQueues` | step by step over the two theorems about the ring, from `SmcInv` |
| `ControllersCorrect` (`Input_proofs`) | a scan reads what was held at its latch, for any ports, buttons and controllers | `JoyInv`: a slot's controller, the table's entries and SDL's instances agree (`HostTypes`, `Plugged`), and in a scan a register is what was latched shifted by the bits read, with what a controller that came or went left in it (`InScan`). That a controller plugged in finds room in the table (`Room`) counts entries by the pigeonhole principle |
| `TypingCorrect` (`Input_proofs`) | for any text and ring: unless a byte found the ring full or a reset emptied it, what the guest has decoded is a prefix of the text that `-autokeys` types, and when all is typed and read it is the text, with no key held | `AutoInv`: a guest that reads on what is in the ring, and what is to come of the character under way, ends with no key held, and what it then has heard with what is left to type is the text (`InTune`, `Hears`). `MeantMeans`: what a text means to the guest, a recursion from its end, is defined for every text |
| `I2cImplementsTransfers` (`Board_proofs`) | `I2cBus` implements `I2cTransfers`, for bytes of any width of at least two bits | an inductive invariant relates the bit count, the bits shifted so far and the line levels to the guest's position in its byte; `AllShifted` says what a byte is when its last bit is in |
| `CopyCorrect`, `BootCorrect` (`Board_proofs`) | a copied boot page is seamless; a reset boots from the ROM and reads the firmware that was loaded | `BusInv`: the stored byte at a copied address is the ROM's, so the overlay makes no difference |
| `CalendarCorrect`, `RegistersCorrect` (`Board_proofs`) | the calendar is the start plus the clocks, as days, seconds and weekday, through carries, month lengths, leap years and the century's end; fields keep their ranges; a register read and written back changes nothing; accesses act on their own register | `NextDayCounts` and `NextSecondCounts`: the routines that carry from field to field add one to the day number and to the second of the day; `RtcInv` keeps ranges, the named register and the pending start |
| `CartridgeCorrect` (`Board_proofs`) | a cartridge of any number and size of banks whose NVRAM comes last starts as it was made, with the NVRAM as the last orderly end left it, whatever was imported, killed, cut off or not there | `CartInv`: a file written whole is the banks of its types in order, made or left (`InCart`, `InNvram`). `LoadStep`, by induction over the banks: both files have been read exactly as far as they were written for the banks before, the first one as long as nothing was taken from the second (`ReadSoFar`), which is where the form is needed. `ImportDoes`: the last bank of a file is filled, and one that is cut ends with the cartridge |
| `ImageSafe` (`Storage_proofs`) | for an image of any size and contents, opened any number of times: a closed image is what its last handle wrote or what it was before, an open one reads as it was written, and from the moment the image is emptied until it is whole, killed or not, the copy is | `GzStages` says for each stage of opening and closing which of image and copy is whole and which a prefix of which; that a loop's prefix grows block by block to the whole is `PrefixGrows` and `WholePrefix` |
| `SdImplementsStore` (`Storage_proofs`) | `SdBlock` implements `BlockStore`, for addresses, blocks and cards of any size | `LoopInvariant`, by induction: after i turns of the command's loop memory or card is what laying i blocks at once makes it, around the end of memory and up to the end of the card; `DigitsJoin` for registers written byte by byte; `WindowInStep` for the data port |
| `FilesCorrect` (`Storage_proofs`) | for any tree, files, channels and order of a guest's calls: what a channel reads is its file from the start, to the end if that was marked; a file written holds what the host took, in order | `HandleHolds` says for each way a file is opened what contents, handle position and the bytes passed have to do with each other; `HandlesApart`, that no file is open twice, which is what `PoliteOpen` asks of the guest, so that one channel's bytes disturb no other |
| `ListingCorrect` (`Storage_proofs`) | for any directory: a listing read to its end shows each entry asked for once | `ListHolds`: what was told and what of the rest would be shown make the whole, with no entry in both; `FirstIs`, that the next entry comes before all that are left |
| `TimerCounts`, `TimerReads` (`Clocked_proofs`) | every clock counted once, readings never torn, for any rate and byte width | bytes already got and the latch are digits of the same counter value `began`; four digits of a number below `Base^4` are that number (`FourDigits`) |
| `ViaCorrect` (`Clocked_proofs`) | each load of a VIA timer interrupts in the instruction it is due in and not before, once for a one-shot timer 1; the cut of time into instructions does not matter, but for the one case named in section 2 | the loop over an instruction's clocks is defined for every count (`LoopStops`) and agrees with one clock at a time (`TurnIsClocks`, `ClocksAdd`), by induction; `KeepsTime` |
| `BeamCorrect` (`Clocked_proofs`) | an undisturbed frame draws each line exactly once and before the sync, raises each interrupt once, shows one base, for every screen | `BeamInv` adds what the frame under way has done so far (`SoFar`): the lines above the beam are drawn, an interrupt is raised if its line is above |
| `PortsFetchFresh`, `PaletteCorrect`, `BlitCorrect` (`Clocked_proofs`) | what a port fetched ahead is the memory unless something else wrote there; the palette is its window; a copy is exact wherever it wraps | `PortsInv`; for the copy, `CopyMoves` by induction on the bytes: a byte still to be read is not yet overwritten, which needs the destination outside what is to be read |
| `RingSafe`, `CallbackCount` (`Sound_proofs`) | any buffers and any interleaving: if a render yields at most one buffer, no overflow, counters agree, pending frames are the latest, frames play in order | `RingInv` adds to the counters that slot `rdidx + k` holds frame `rendered - written + k + 1` and that what was played is older than all of those; without the content of the slots, order is not inductive |
| `PcmHolds`, `PcmInFrames` (`Sound_proofs`) | the PCM ring holds the rest of the stream, in order; whole frames are played, except where a byte was refused, half a frame found or the format changed inside the stream | `PcmInv`: the slots from the read index on are the rest, and where the stream ended lies before the write index; sizes are what the frame sizes divide |
| `RecordingCorrect` (`Sound_proofs`) | a recording that is not paused is in the file from its first sample to its last and its header counts it | `WavInv`: until the first failure or command the file and the header are those of one recording |
| `MidiCorrect` (`Sound_proofs`) | as long as the receiver loses no byte, what the synthesizer plays is the events that the queue accepted, whole, once and in order, for FIFOs and queues of any size and however the host's keys, the guest's handler and the UART's steps interleave | `MidiInv` places the events not yet played in one stream, that of output FIFO, the byte in the guest's hands, input FIFO and queue: where each ends and that it is spelled there, with a status of its own or under that of the event before; what the parser has of the first (`Remembered`); and that the guest never writes more than there is room for (`GuestInRoom`) |
| `FileSafe`, `PictureSafe` (`Loop_proofs`) | for frames of any length: every way out leaves in the file what the last end of a frame found, and all there is where it follows one; the guest's exit follows a picture drawn whole after it asked | `FileInv`: unless a write failed, the file is what the last end of a frame found, and the NVRAM too unless it is marked dirty. `PictureInv`: after the request warp mode is off; with one frame left to count, the frame that runs is whole so far, or about to begin |
| `WidthsCorrect`, `WakeupCorrect` (`Cpu816_proofs`) | register widths and index registers agree in every mode; no processor waits for an interrupt it was told of; for any vectors, operands and stack | both are inductive as they stand: whatever byte comes from the stack, `plp` and `rti` repair it, and every instruction leads to the loop's look at the line |
| `ReturnsCorrect` (`Cpu816_proofs`) | an interrupt is invisible to the program it interrupts: rti brings back counter, bank, status and stack pointer, whatever nested in the handler | `StackInv`: the bytes of every unfinished frame lie untouched above the stack pointer. They are addressed by their place in a page, since a mode change or txs moves the pointer from page to page, and two places never meet as fewer bytes are on the stack than a page has (the bound in the guards of the pushes) |
| `MovesCorrect` (`Cpu816_proofs`) | `mvn` and `mvp` move what they were asked to, whichever way and wherever they wrap, though an interrupt may come after each byte and its handler move blocks of its own | `MoveInv`: what lies between where a move began and the bytes it has left has been copied, for the move under way and each one a handler interrupted; their banks are apart |
| `AddressesCorrect` (`Cpu816_proofs`) | in emulation mode with direct page and data bank 0 the indexed and indirect modes find the bytes a 6502 finds, page wrap-arounds included, for bytes of any size | the types suffice: index registers are one byte there, and the rest is arithmetic with remainders |
| `ArithmeticCorrect` (`Cpu816_proofs`) | in decimal mode `adc` and `sbc` of decimal bytes and words are addition and subtraction in decimal, with carry and borrow; after a binary subtraction carry, sign and overflow order the operands, for digits of any even number of values and any base below | the invariant is only that registers and memory hold words (`AluType`). A corrected digit is the digit of the sum in the base with the carry out of it (`DigitOfSum`, `DigitOfDifference`); two digits of any base add up in its square (`TwoDigitsAdd`), used once for the digits of a byte and once for the bytes of a word |
| `WidthsAgree` (`Cpu816_proofs`) | one wide addition, subtraction or shift is two narrow ones that pass the carry on | `WordSums` is the same step in binary; a word's sign is its upper byte's (`NegativeWord2`), so signs and overflows agree; in decimal both sides are the digits' lemmas again |

`NatLemmas` has what they share: division with remainder on the naturals and
the integers (the prover knows none), the least element, and induction. The library
states induction for an operator, which no backend can instantiate; `Induction` states it for a set of
naturals, and `Recursion` and `CountedRecursion` derive from it that a recursive
function on the naturals is defined. With those, what the model's loops compute is
proved for every input: the VIA's clocks, the blitter's and the block device's copies,
a cartridge's files, the count of days.

The assumptions are about sizes and contents (there is a block; a byte has two bits; a
digit has a top bit and values that are not decimal; frame sizes divide the ring) and
are named where the constants are declared.
`RingSafe`'s hypothesis, that a render yields at most a buffer, is the one the overflow of
section 2 shows to be necessary.

Only model-checked:

- the properties under fairness (`ExitsWhenAsked`, `TextArrives`), and
  ENABLED: out of the prover's reach.

## 4. What is left out

- Inside modelled parts: what report, sample and pixel values are; PSG and
  sprite windows (handled like the palette's); FX modes other than line mode;
  NTSC's progressive mode; interrupt enable registers; resampling; an
  instruction's clocks, which nothing in the repository states; the 65C02 mode, which
  `main.c` never selects; the file system's memory addresses of block transfers and its
  hand-over to an SD card image; a UART's modem lines, format, divisor and 16450 mode,
  and its real-time messages; a controller table of more than 16 entries.
- Pasting (`Ctrl`+`V`, `-bas`, `-prg`; `src/main.c:1999-2065`) writes into the keyboard
  buffer of the Commander X16's KERNAL in `BRAM`, of which `src/memory.c:93-98` says that
  it is "inert scratch" and not reachable on X816: no access of the guest's takes a
  character out, so there is no behaviour of this machine to state. What a paste does to
  warp mode is a choice of `MainLoop`'s interrupts.
- `HostFs` is modelled, but of this machine `src/main.c:143-146` says: "X816 has no KERNAL,
  so the IEEE/hostfs layer [...] has nothing to attach to [...] Off by default". Its calls
  arrive only with an image that carries the KERNAL's signature (`is_kernal`,
  `src/main.c:390`) or over `-serial`; what the module says is of those.
- The serial bus (`serial.c`) reaches VIA 2 only with `-serial`; what it does with a
  byte is `HostFs`.
- The SD card behind the SPI port cannot be attached (`sdcard_set_path` has no caller),
  so of `vera_spi.c` only the shift register runs.
- Drawing, the PSG and the YM2151 are functions of registers and memory, or vendored;
  what they raise is an input of `VeraBeam`. The VERA2 bitmap has its display base there.
- Option parsing, the debugger's display and disassembler, the test bench's line
  interpreter, the browser's exports, tables and the vendored libraries have no control
  worth a state machine. The GIF recorder wraps a vendored encoder.
- Hazards without a property are in PROJECT.json with the reason.

## 5. Plan

Modelling: FX cache and nibble modes in `VeraPorts`; the serial bus's bit engine as a refinement of `HostFs`' calls.

Proofs: the safety properties of every passing run are proved; with the modelling
above would come the FX modes' share of `PortsInv` and a refinement of `HostFs`.
