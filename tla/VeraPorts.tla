------------------------------ MODULE VeraPorts ------------------------------
(***************************************************************************)
(* The paths by which the guest reaches VERA's video memory (video.c): two *)
(* data ports, each with an address that increments itself and a byte      *)
(* fetched ahead, and the blitter, which works on the memory alone.  A     *)
(* store through a port also goes to the palette when its address lies in  *)
(* the palette's window (vera_window_write); the PSG's and the sprites'    *)
(* windows are handled alike.                                              *)
(*                                                                         *)
(* The memory is VramSize bytes for 128 KB and an address LoSize times a   *)
(* high part, which stands for the upper two of its three registers.  Of   *)
(* the FX features the line mode of port 1 is modelled, its fixed point    *)
(* position reduced to whether it crosses a pixel; the cache, the nibble,  *)
(* polygon and affine modes are not.                                       *)
(***************************************************************************)
EXTENDS Integers

CONSTANTS
    LoSize,        \* values of ADDRx_L
    HiSize,        \* values of ADDRx_M and ADDRx_H together
    PortByte,      \* values of a byte
    PaletteWindow, \* addresses of the palette
    Incs,          \* increments the guest selects
    Ports,         \* data ports the guest uses
    Blits,         \* [src, dst, len] the guest gives the blitter
    Noise,         \* contents of the memory after a reset
    LineMode       \* may the guest turn on FX line mode

VramSize == LoSize * HiSize
VramAddr == 0 .. VramSize - 1
BlitRegisters == [src : VramAddr, dst : VramAddr, len : VramAddr]

PortsAssumption ==
    /\ LoSize \in Nat \ {0} /\ HiSize \in Nat \ {0}
    /\ PortByte \subseteq 0 .. 255 /\ 0 \in PortByte
    /\ PaletteWindow \subseteq VramAddr /\ Incs \subseteq Int
    /\ Ports \subseteq {0, 1} /\ LineMode \in BOOLEAN
    /\ Noise \subseteq [VramAddr -> PortByte]
    /\ Blits \subseteq BlitRegisters

VARIABLES
    vram,      \* video_ram
    palette,   \* palette, of the addresses in PaletteWindow
    addr,      \* io_addr; line mode may leave the address space
    inc,       \* increments[io_inc]
    rddata,    \* io_rddata, the bytes fetched ahead
    addrsel,   \* io_addrsel
    line,      \* fx_addr1_mode = 1
    blt,       \* [src, dst, len]: the blitter's registers
    others,    \* history: was the byte under port p's address changed, other
               \* than through port p, since p fetched it
    apart      \* history: palette addresses changed in the memory alone

portVars == <<vram, palette, addr, inc, rddata, addrsel, line, blt, others, apart>>

Both == {0, 1}
Cell(a) == a % VramSize      \* vram_at
DefaultPalette == [a \in PaletteWindow |-> 0]
NoBlit == [src |-> 0, dst |-> 0, len |-> 0]

-----------------------------------------------------------------------------
(* The data ports. *)

\* get_and_inc_address: the increment wraps, what line mode adds does not.
NextAddr(p, cross) ==
    Cell(addr[p] + inc[p]) + (IF p = 1 /\ line /\ cross THEN inc[0] ELSE 0)

\* Whether an access crosses a pixel matters in line mode only.
Crossings == IF line THEN BOOLEAN ELSE {FALSE}

\* After an access through p the byte at p's new address is fetched.
Refetched(p, a, m) ==
    /\ addr' = [addr EXCEPT ![p] = a]
    /\ rddata' = [rddata EXCEPT ![p] = m[Cell(a)]]

\* A store brings memory and palette together, unless line mode took the address
\* out of the space: the memory wraps it, the window does not know it.
ApartAfter(p) ==
    IF addr[p] \in VramAddr THEN apart \ {addr[p]}
    ELSE apart \cup (PaletteWindow \cap {Cell(addr[p])})

\* A read of DATA0 or DATA1 returns the byte fetched before.
DataRead(p, cross) ==
    /\ Refetched(p, NextAddr(p, cross), vram)
    /\ others' = [others EXCEPT ![p] = FALSE]
    /\ UNCHANGED <<vram, palette, inc, addrsel, line, blt, apart>>

\* Mutation: a store leaves what was fetched ahead alone.
DataWrite_nofetch(p, v, cross) ==
    LET m == [vram EXCEPT ![Cell(addr[p])] = v]
    IN  /\ vram' = m
        /\ palette' = IF addr[p] \in PaletteWindow THEN [palette EXCEPT ![addr[p]] = v] ELSE palette
        /\ apart' = ApartAfter(p)
        /\ addr' = [addr EXCEPT ![p] = NextAddr(p, cross)]
        /\ others' = [q \in Both |-> q # p /\ (others[q] \/ Cell(addr[q]) = Cell(addr[p]))]
        /\ UNCHANGED <<inc, rddata, addrsel, line, blt>>

\* Mutation: the window is decoded from the address after the increment.
DataWrite_late(p, v, cross) ==
    LET m == [vram EXCEPT ![Cell(addr[p])] = v]
        a == NextAddr(p, cross)
    IN  /\ vram' = m
        /\ palette' = IF a \in PaletteWindow THEN [palette EXCEPT ![a] = v] ELSE palette
        /\ apart' = ApartAfter(p)
        /\ Refetched(p, a, m)
        /\ others' = [q \in Both |-> q # p /\ (others[q] \/ Cell(addr[q]) = Cell(addr[p]))]
        /\ UNCHANGED <<inc, addrsel, line, blt>>

\* A store to DATA0 or DATA1 (fx_video_space_write, vera_window_write): the
\* memory wraps the address, the window compares it as it is.
DataWrite(p, v, cross) ==
    LET m == [vram EXCEPT ![Cell(addr[p])] = v]
    IN  /\ vram' = m
        /\ palette' = IF addr[p] \in PaletteWindow THEN [palette EXCEPT ![addr[p]] = v] ELSE palette
        /\ apart' = ApartAfter(p)
        /\ Refetched(p, NextAddr(p, cross), m)
        /\ others' = [q \in Both |-> q # p /\ (others[q] \/ Cell(addr[q]) = Cell(addr[p]))]
        /\ UNCHANGED <<inc, addrsel, line, blt>>

-----------------------------------------------------------------------------
(* The address registers, which act on the selected port. *)

Select(p) ==
    /\ addrsel' = p
    /\ UNCHANGED <<vram, palette, addr, inc, rddata, line, blt, others, apart>>

\* A write to an address register fetches the byte at the new address.
Fetched(a) ==
    /\ Refetched(addrsel, a, vram)
    /\ others' = [others EXCEPT ![addrsel] = FALSE]
    /\ UNCHANGED <<vram, palette, addrsel, line, blt, apart>>

SetLow(v) ==
    /\ Fetched(LoSize * (Cell(addr[addrsel]) \div LoSize) + v)
    /\ UNCHANGED inc

SetHigh(v, i) ==
    /\ Fetched((LoSize * v) + (addr[addrsel] % LoSize))
    /\ inc' = [inc EXCEPT ![addrsel] = i]

SetLineMode(b) ==
    /\ LineMode
    /\ line' = b
    /\ UNCHANGED <<vram, palette, addr, inc, rddata, addrsel, blt, others, apart>>

-----------------------------------------------------------------------------
(* The blitter, which runs to its end inside the write that starts it. *)

SetBlit(b) ==
    /\ blt' = b
    /\ UNCHANGED <<vram, palette, addr, inc, rddata, addrsel, line, others, apart>>

\* The copy's byte i.
ByteCopied(m, b, i) == [m EXCEPT ![Cell(b.dst + i)] = m[Cell(b.src + i)]]

\* Mutation: a copy runs one byte further.
Copied_long(m, b) ==
    LET after[i \in Nat] == IF i = 0 THEN m ELSE ByteCopied(after[i - 1], b, i - 1)
    IN  after[b.len + 1]

\* The memory after a copy: byte after byte, ascending, each end wrapping.
Copied(m, b) ==
    LET after[i \in Nat] == IF i = 0 THEN m ELSE ByteCopied(after[i - 1], b, i - 1)
    IN  after[b.len]

Filled(m, b, v) ==
    [a \in VramAddr |-> IF Cell(a - b.dst) < b.len THEN v ELSE m[a]]

\* What a blit leaves in its registers: pointers one past the end, length 0.
BltEnd(fill) ==
    [src |-> IF fill THEN blt.src ELSE Cell(blt.src + blt.len),
     dst |-> Cell(blt.dst + blt.len), len |-> 0]

\* blt_start works on the memory: it neither reaches the palette nor renews
\* what the ports have fetched.
Blitted(fill, m) ==
    /\ vram' = m
    /\ blt' = BltEnd(fill)
    /\ others' = [q \in Both |-> others[q] \/ Cell(Cell(addr[q]) - blt.dst) < blt.len]
    /\ apart' = apart \cup {a \in PaletteWindow : Cell(a - blt.dst) < blt.len}
    /\ UNCHANGED <<palette, addr, inc, rddata, addrsel, line>>

BltCopy == Blitted(FALSE, Copied(vram, blt))
BltFill(v) == Blitted(TRUE, Filled(vram, blt, v))

-----------------------------------------------------------------------------

\* Registers, default palette, and noise in the memory.  By a write to CTRL,
\* which then selects a port, or by machine_reset.
PortsReset(m, sel) ==
    /\ vram' = m /\ palette' = DefaultPalette
    /\ addr' = [p \in Both |-> 0] /\ inc' = [p \in Both |-> 0]
    /\ rddata' = [p \in Both |-> 0] /\ addrsel' = sel /\ line' = FALSE
    /\ blt' = NoBlit
    /\ others' = [p \in Both |-> TRUE] /\ apart' = PaletteWindow

PortsInit ==
    /\ vram \in Noise /\ palette = DefaultPalette
    /\ addr = [p \in Both |-> 0] /\ inc = [p \in Both |-> 0]
    /\ rddata = [p \in Both |-> 0] /\ addrsel = 0 /\ line = FALSE
    /\ blt = NoBlit
    /\ others = [p \in Both |-> TRUE] /\ apart = PaletteWindow

PortsNext ==
    \/ \E p \in Ports, c \in Crossings : DataRead(p, c)
    \/ \E p \in Ports, v \in PortByte, c \in Crossings : DataWrite(p, v, c)
    \/ \E p \in Ports : Select(p)
    \/ \E v \in 0 .. LoSize - 1 : SetLow(v)
    \/ \E v \in 0 .. HiSize - 1, i \in Incs : SetHigh(v, i)
    \/ \E b \in BOOLEAN : SetLineMode(b)
    \/ \E b \in Blits : SetBlit(b)
    \/ BltCopy
    \/ \E v \in PortByte : BltFill(v)
    \/ \E m \in Noise, p \in Ports : PortsReset(m, p)

PortsSpec == PortsInit /\ [][PortsNext]_portVars

-----------------------------------------------------------------------------
(* Properties. *)

\* Port 0's address stays in the space, and port 1's leaves it by no more than
\* the one increment that line mode adds, so vram_at wraps it right ("The address
\* space is 17 bits and auto-increment wraps within it", video.c:1676, is not
\* true of that increment).
AddressNearSpace ==
    /\ addr[0] \in VramAddr
    /\ addr[1] \in VramAddr \cup {a + i : a \in VramAddr, i \in Incs}

\* Types of all variables, with AddressNearSpace for the addresses (video.c).
PortTypes ==
    /\ vram \in [VramAddr -> PortByte] /\ palette \in [PaletteWindow -> PortByte]
    /\ addr \in [Both -> Int] /\ AddressNearSpace /\ inc \in [Both -> Incs \cup {0}]
    /\ rddata \in [Both -> PortByte] /\ addrsel \in Both /\ line \in BOOLEAN
    /\ blt \in BlitRegisters
    /\ others \in [Both -> BOOLEAN] /\ apart \subseteq PaletteWindow

\* Where a port points, the byte it has fetched is the one in the memory, as
\* long as nobody else stored there: each port's own stores, address writes and
\* moves renew it.  So a program that keeps an area to one port and leaves the
\* blitter out of it sees plain memory.  And every address stays in or near the
\* space (PortTypes).
FreshUnlessOthers == \A p \in Both : others[p] \/ rddata[p] = vram[Cell(addr[p])]

FetchedIsFresh == PortTypes /\ FreshUnlessOthers

\* What the guest stores in the palette's window it finds in the palette, and
\* the two part only where the blitter wrote, where line mode stored beyond the
\* end of the space, or since a reset.
PaletteFollows == \A a \in PaletteWindow \ apart : palette[a] = vram[a]

\* A copy whose destination does not start inside what is still to be read,
\* both ends wrapping, moves every byte and touches no other.
BlitIsExact ==
    LET inside(a) == Cell(a - blt.dst) < blt.len
        safe == Cell(blt.dst - blt.src) = 0 \/ Cell(blt.dst - blt.src) >= blt.len
    IN  safe => \A a \in VramAddr : Copied(vram, blt)[a] =
                    IF inside(a) THEN vram[Cell(blt.src + Cell(a - blt.dst))] ELSE vram[a]
=============================================================================
