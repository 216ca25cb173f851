------------------------------- MODULE Cpu816 -------------------------------
(***************************************************************************)
(* The control side of the 65C816 (cpu/): modes and register widths, the   *)
(* stack, interrupts, and the main loop that runs one instruction, then    *)
(* the devices, and then looks at the interrupt line.                      *)
(*                                                                         *)
(* Programs are arbitrary, within a discipline: stacks do not overflow, a  *)
(* handler returns in the mode and with the stack pointer it was entered   *)
(* with, and the stack is moved only while nothing is on it.  Data, and    *)
(* addressing, are left out: an instruction that only works on data        *)
(* appears by what it may do to the carry and to the index registers.  A   *)
(* byte on the stack is kept while the stack pointer is below it.          *)
(***************************************************************************)
EXTENDS Integers, Sequences, FiniteSets

CONSTANTS
    High, Low,  \* values of the halves of the program counter
    Banks,      \* values of k
    PageSize,   \* bytes of a page, 256 in the code
    Pages,      \* pages of bank 0, 256 in the code
    Targets,    \* where programs jump to
    Vectors,    \* [[e, kind] -> pc], the table at $FFE0 and $FFF0; $FFFC as "reset"
    Settable,   \* flags that programs set one at a time
    Masks,      \* operands of REP and SEP, bytes that PLP finds among data
    Stacks,     \* values programs move into the stack pointer
    MaxDepth,   \* bound: bytes on the stack
    MaxOwn      \* bound: those that one program, or handler, pushes itself

PcSize == High * Low
Pc == 0 .. PcSize - 1
Sp == 0 .. (Pages * PageSize) - 1
Kinds == {"cop", "brk", "nmi", "irq"}

\* The flags that control the processor; "X" is FLAG_INDEX_WIDTH and FLAG_BREAK.
Flags == {"C", "I", "D", "X", "M"}
Widths == {"X", "M"}

ASSUME CpuAssumption ==
    /\ High \in Nat \ {0} /\ Low \in Nat \ {0} /\ PageSize \in Nat /\ Pages \in Nat
    /\ PageSize > 2 /\ Pages > 1 /\ MaxDepth \in Nat /\ MaxDepth < PageSize /\ MaxOwn \in Nat
    /\ 0 \in Banks /\ Targets \subseteq Pc /\ Masks \subseteq SUBSET Flags
    /\ Settable \subseteq {"C", "I", "D"}
    /\ Stacks \subseteq Sp
    /\ \A e \in BOOLEAN, kind \in Kinds \cup {"reset"} : Vectors[<<e, kind>>] \in Pc

VARIABLES
    e, p, pc, k, sp,   \* regs; p is the set of the flags of status that are set
    wide,              \* has X or Y a high byte that is not zero
    waiting,
    stack,             \* [address -> [kind, v]] of the bytes on the stack
    line,              \* what the loop last saw of the devices' interrupts, forgotten
                       \* while an instruction runs
    phase,             \* "step": at the head of the loop; "poll": after step6502
    frames             \* history: the interrupts not yet returned from

regs == <<e, p, pc, k, sp, wide>>
vars == <<e, p, pc, k, sp, wide, waiting, stack, line, phase, frames>>

-----------------------------------------------------------------------------
(* The stack. *)

\* decsp and incsp, n times: in emulation mode the page stays.
Down(s, n) == IF e THEN (PageSize * (s \div PageSize)) + ((s - n) % PageSize)
              ELSE (s - n) % (Pages * PageSize)
Up(s, n) == IF e THEN (PageSize * (s \div PageSize)) + ((s + n) % PageSize)
            ELSE (s + n) % (Pages * PageSize)

Depth == Cardinality(DOMAIN stack)
Room(n) == Depth + n <= MaxDepth

\* push8 for each of bytes.
Push(bytes) ==
    LET cell == {Down(sp, i - 1) : i \in DOMAIN bytes}
    IN  /\ sp' = Down(sp, Len(bytes))
        /\ stack' = [a \in DOMAIN stack \cup cell |->
                        IF a \in cell
                        THEN bytes[CHOOSE i \in DOMAIN bytes : Down(sp, i - 1) = a]
                        ELSE stack[a]]

\* pull8, n times; the i-th byte pulled.
Pull(n) ==
    /\ sp' = Up(sp, n)
    /\ stack' = [a \in DOMAIN stack \ {Up(sp, i) : i \in 1 .. n} |-> stack[a]]
Byte(kind, v) == [kind |-> kind, v |-> v]
Pulled(i) == IF Up(sp, i) \in DOMAIN stack THEN stack[Up(sp, i)] ELSE Byte("data", 0)

\* What a byte on the stack means as status, and as a half of pc or as k.
AsStatus(b) == IF b.kind = "status" THEN {b.v} ELSE Masks
AsHalf(b, n) == IF b.kind = "half" /\ b.v < n THEN {b.v} ELSE 0 .. n - 1
AsBank(b) == IF b.kind = "bank" THEN {b.v} ELSE Banks

\* push16 of a program counter: its high half first.
PcBytes(a) == <<Byte("half", a \div Low), Byte("half", a % Low)>>

-----------------------------------------------------------------------------
(* Interrupts. *)

\* Mutation: the bank is not pushed.
Saved_bankless(kind, ret, status) ==
    PcBytes(ret) \o <<Byte("status", status)>>

\* What interrupt6502 pushes.  The status of emulation mode carries the B flag.
Saved(kind, ret, status) ==
    IF e
    THEN PcBytes(ret) \o <<Byte("status", IF kind = "brk" THEN status \cup {"X"}
                                          ELSE status \ {"X"})>>
    ELSE <<Byte("bank", k)>> \o PcBytes(ret) \o <<Byte("status", status)>>

\* interrupt6502, to return to ret with the given status.
Interrupt(kind, ret, status) ==
    /\ Room(Len(Saved(kind, ret, status)))
    /\ Push(Saved(kind, ret, status))
    /\ k' = 0
    /\ p' = (status \cup {"I"}) \ {"D"}
    /\ pc' = Vectors[<<e, IF e /\ kind = "brk" THEN "irq" ELSE kind>>]
    /\ frames' = Append(frames, [pc |-> ret, k |-> k, p |-> status, e |-> e, sp |-> sp',
                                 depth |-> Depth + Len(Saved(kind, ret, status))])
    /\ UNCHANGED <<e, wide>>

\* nmi6502: the host's key, or the SMC's command within the instruction.
Nmi ==
    /\ phase = "poll"
    /\ Interrupt("nmi", pc, p)
    /\ waiting' = FALSE
    /\ UNCHANGED <<line, phase>>

\* Mutation: a masked interrupt does not end WAI.
Woken_enabled == "I" \notin p

\* irq6502 ends WAI even where the interrupt is masked.
Woken == TRUE

\* The end of the loop's body: the devices' lines, or-ed; irq6502.
Poll(l) ==
    /\ phase = "poll"
    /\ line' = l
    /\ phase' = "step"
    /\ waiting' = (waiting /\ ~ (l /\ Woken))
    /\ IF l /\ "I" \notin p THEN Interrupt("irq", pc, p)
       ELSE UNCHANGED <<regs, stack, frames>>

\* reset6502: requested through the SMC, by the host's key or after STP.
Reset ==
    /\ e' = TRUE /\ k' = 0 /\ wide' = FALSE
    /\ pc' = Vectors[<<TRUE, "reset">>]
    /\ p' = (p \cup Widths \cup {"I"}) \ {"D"}
    /\ sp' = (2 * PageSize) - 3
    /\ waiting' = FALSE
    /\ stack' = << >> /\ frames' = << >>
    /\ UNCHANGED <<line, phase>>

-----------------------------------------------------------------------------
(* Instructions.  In emulation mode step6502 sets the width flags when it  *)
(* fetches one.                                                            *)

Fetched == IF e THEN p \cup Widths ELSE p
After(n) == (pc + n) % PcSize

Runs ==
    /\ phase = "step" /\ phase' = "poll"
    /\ ~ waiting
    /\ line' = FALSE

\* An instruction that leaves the control alone.
Plain == Runs /\ UNCHANGED <<e, k, waiting, frames>>

\* Arithmetic, loads and transfers: a carry, and an index register's high byte
\* where index registers are wide; tsx and mvn may clear one.
Compute(c, w) ==
    /\ Plain
    /\ w => wide \/ "X" \notin Fetched
    /\ p' = IF c THEN Fetched \cup {"C"} ELSE Fetched \ {"C"}
    /\ wide' = w
    /\ pc' = After(1)
    /\ UNCHANGED <<sp, stack>>

\* sec, sei and sed.
SetFlag(f) ==
    /\ Plain
    /\ p' = Fetched \cup {f}
    /\ pc' = After(1)
    /\ UNCHANGED <<sp, wide, stack>>

\* Index registers that become narrow lose their high bytes.
sep(m) ==
    /\ Plain
    /\ p' = Fetched \cup m
    /\ wide' = (wide /\ "X" \notin p')
    /\ pc' = After(1)
    /\ UNCHANGED <<sp, stack>>

ClearedBy(m) == IF e THEN (Fetched \ m) \cup Widths ELSE Fetched \ m

\* rep, clc, cli and cld.
ClearFlags(m) ==
    /\ Plain
    /\ p' = ClearedBy(m)
    /\ pc' = After(1)
    /\ UNCHANGED <<sp, wide, stack>>

\* The carry and the mode are exchanged.  A program with something on its stack
\* goes to emulation mode in page 1 only.
xce ==
    LET c == "C" \in Fetched
        q == (Fetched \ {"C"}) \cup (IF e THEN {"C"} ELSE {})
    IN  /\ Runs
        /\ e' = c
        /\ p' = IF c THEN q \cup Widths ELSE q
        /\ sp' = IF c THEN PageSize + (sp % PageSize) ELSE sp
        /\ Depth > 0 => sp' = sp
        /\ wide' = (wide /\ ~ c)
        /\ pc' = After(1)
        /\ UNCHANGED <<k, stack, waiting, frames>>

\* Jumps, branches and returns; jml and its like set k.
Jump(a, b) ==
    /\ Runs
    /\ pc' = a /\ k' = b /\ p' = Fetched
    /\ UNCHANGED <<e, sp, wide, stack, waiting, frames>>

\* txs: in emulation mode within page 1; a narrow index register has one byte.
txs(s) ==
    /\ Plain /\ Depth = 0
    /\ "X" \in Fetched => s < PageSize
    /\ sp' = IF e THEN PageSize + (s % PageSize) ELSE s
    /\ p' = Fetched /\ pc' = After(1)
    /\ UNCHANGED <<wide, stack>>

\* tcs: all of the accumulator, in either mode.
tcs(s) ==
    /\ Plain /\ Depth = 0
    /\ sp' = s
    /\ p' = Fetched /\ pc' = After(1)
    /\ UNCHANGED <<wide, stack>>

\* The program's own bytes are those it pushed since the last interrupt.
Others == IF frames = << >> THEN 0 ELSE frames[Len(frames)].depth
May(n) == Room(n) /\ Depth + n - Others <= MaxOwn
Owns(n) == Depth >= n + Others /\ \A i \in 1 .. n : Up(sp, i) \in DOMAIN stack

\* Pushes of data, and of return addresses, which a program treats as data.
PushData(n) ==
    /\ Plain /\ May(n)
    /\ Push([i \in 1 .. n |-> Byte("data", 0)])
    /\ p' = Fetched /\ pc' = After(1)
    /\ UNCHANGED wide

php ==
    /\ Plain /\ May(1)
    /\ Push(<<Byte("status", IF e THEN Fetched \cup {"X"} ELSE Fetched)>>)
    /\ p' = Fetched /\ pc' = After(1)
    /\ UNCHANGED wide

PullData(n) ==
    /\ Plain /\ Owns(n)
    /\ Pull(n)
    /\ p' = Fetched /\ pc' = After(1)
    /\ UNCHANGED wide

\* Mutation: a pulled status leaves the index registers' high bytes.
Narrowed_never(q) == wide

\* The index registers' high bytes under a status q that was pulled.
Narrowed(q) == wide /\ (e \/ "X" \notin q)

plp ==
    /\ Plain /\ Owns(1)
    /\ \E q \in AsStatus(Pulled(1)) :
          /\ p' = IF e THEN q \cup Widths ELSE q
          /\ wide' = Narrowed(q)
    /\ Pull(1)
    /\ pc' = After(1)

\* brk and cop skip the byte that follows them.
Software(kind) ==
    /\ Runs
    /\ Interrupt(kind, After(2), Fetched)
    /\ UNCHANGED waiting

\* A handler returns as it was entered, with nothing of its own on the stack.
rti ==
    /\ Runs
    /\ frames # << >>
    /\ LET f == frames[Len(frames)]
       IN  e = f.e /\ sp = f.sp /\ Depth = f.depth
    /\ \E q \in AsStatus(Pulled(1)), l \in AsHalf(Pulled(2), Low), h \in AsHalf(Pulled(3), High) :
          /\ p' = IF e THEN q \cup Widths ELSE q
          /\ wide' = Narrowed(q)
          /\ pc' = (Low * h) + l
    /\ IF e THEN Pull(3) /\ k' = k ELSE Pull(4) /\ k' \in AsBank(Pulled(4))
    /\ frames' = SubSeq(frames, 1, Len(frames) - 1)
    /\ UNCHANGED <<e, waiting>>

wai ==
    /\ Runs
    /\ waiting' = TRUE
    /\ p' = Fetched /\ pc' = After(1)
    /\ UNCHANGED <<e, k, sp, wide, stack, frames>>

\* step6502 while waiting only lets time pass.
Wait ==
    /\ phase = "step" /\ waiting
    /\ phase' = "poll" /\ line' = FALSE
    /\ UNCHANGED <<regs, waiting, stack, frames>>

-----------------------------------------------------------------------------
Init ==
    /\ e = TRUE /\ k = 0 /\ wide = FALSE
    /\ p = Widths \cup {"I"}
    /\ pc = Vectors[<<TRUE, "reset">>]
    /\ sp = (2 * PageSize) - 3
    /\ waiting = FALSE
    /\ stack = << >> /\ frames = << >>
    /\ line = FALSE /\ phase = "step"

Next ==
    \/ \E c, w \in BOOLEAN : Compute(c, w)
    \/ \E m \in Masks : sep(m) \/ ClearFlags(m)
    \/ \E f \in Settable : SetFlag(f)
    \/ xce
    \/ \E a \in Targets, b \in Banks : Jump(a, b)
    \/ \E s \in Stacks : txs(s) \/ tcs(s)
    \/ \E n \in 1 .. MaxOwn : PushData(n) \/ PullData(n)
    \/ php \/ plp
    \/ \E kind \in {"brk", "cop"} : Software(kind)
    \/ rti
    \/ wai \/ Wait
    \/ Nmi
    \/ \E l \in BOOLEAN : Poll(l)
    \/ Reset

Spec == Init /\ [][Next]_vars

-----------------------------------------------------------------------------
(* Properties. *)

\* Emulation mode has 8 bit registers, and narrow index registers have no high
\* byte: zpx, absx and their like add all 16 bits of X and Y in either width,
\* so a status that arrives from the stack, from an operand or from a change of
\* mode must leave no old high byte behind (sep, plp, rti, xce, step6502).
WidthsHold ==
    /\ e => Widths \subseteq p
    /\ "X" \in p => ~ wide

\* An interrupt is invisible to the program it interrupts, whatever handlers
\* nest in it and in whichever modes they run: rti restores the program
\* counter, the status, the stack pointer and, in native mode, the bank
\* (interrupt6502, rti).
ReturnsAsEntered ==
    [][rti => LET f == frames[Len(frames)]
              IN  /\ pc' = f.pc /\ p' = f.p /\ e' = f.e
                  /\ ~ e => k' = f.k
                  /\ sp' = Up(f.sp, IF e THEN 3 ELSE 4)
                  /\ frames' # << >> => Depth' >= frames'[Len(frames')].depth]_vars

\* A processor that waits when the loop begins again has no interrupt to wait
\* for: none is lost between the program's last look at a device and its wai,
\* masked or not (irq6502, emulator_loop).
NoLostWakeup == phase = "step" /\ waiting => ~ line

\* "values that are fixed at their given value due to the current processor
\* state. This applies to [...] the high byte of SP if emulation mode is
\* active" (README.md:449).
StackPageFixed == e => sp \div PageSize = 1
=============================================================================
