----------------------------- MODULE Address816 -----------------------------
(***************************************************************************)
(* Where instructions of the 65C816 find their operands (cpu/modes.h, and  *)
(* getvalue and putvalue in fake6502.c): one operator per addressing mode, *)
(* of the bytes that follow the opcode, and the addresses of a datum of    *)
(* one or two bytes.  Programs set the registers the modes add, and store  *)
(* over the pointers that the indirect modes read.                         *)
(***************************************************************************)
EXTENDS Integers

CONSTANTS
    ByteSize,   \* 256 in the code
    MemBanks,   \* banks of memory, 256 in the code
    Patterns,   \* memories to begin with: [Address -> 0 .. ByteSize - 1]
    Directs,    \* values of dp
    Indexes,    \* values of x and y
    StackBases, \* values of sp
    MaxStores   \* bound: stores to memory

Word == ByteSize * ByteSize
Space == MemBanks * Word
Address == 0 .. Space - 1

ASSUME AddressAssumption ==
    /\ ByteSize \in Nat /\ ByteSize > 2 /\ MemBanks \in Nat \ {0}
    /\ Patterns \subseteq [Address -> 0 .. ByteSize - 1]
    /\ Directs \subseteq 0 .. Word - 1 /\ Indexes \subseteq 0 .. Word - 1
    /\ StackBases \subseteq 0 .. Word - 1

VARIABLES
    adrE, dp, adrX, adrY, db, adrSp,  \* regs: e, dp, x, y, db, sp
    mem,
    stores
adrVars == <<adrE, dp, adrX, adrY, db, adrSp, mem, stores>>

-----------------------------------------------------------------------------
(* Addressing.                                                             *)

\* Mutation: the direct page never wraps.
direct_page_add_native(offset) == (dp + offset) % Word

\* In emulation mode an aligned direct page wraps at its end.
direct_page_add(offset) ==
    IF adrE /\ dp % ByteSize = 0 THEN dp + (offset % ByteSize) ELSE (dp + offset) % Word

Bank0(a) == mem[a % Word]
Word0(a, b) == Bank0(a) + (ByteSize * Bank0(b))
addr_with_db(a) == (db * Word) + a

zp(i, r) == direct_page_add(i + r)
abso(a) == addr_with_db(a)
absx(a, r) == (addr_with_db(a) + r) % Space
abslx(a, r) == (a + r) % Space
ind(a) == Word0(a, a + 1)
\* The bank of the program is 0 here.
ainx(a) == Word0(a + adrX, a + adrX + 1)

Pointer(i) == Word0(direct_page_add(i), direct_page_add(i + 1))
ind0(i) == addr_with_db(Pointer(i))
indx(i) == ind0(i + adrX)
indy(i) == (addr_with_db(Pointer(i)) + adrY) % Space
_zp_long_with_offset(i, r) ==
    (Pointer(i) + (Word * (Bank0(direct_page_add(i + 2)) % MemBanks)) + r) % Space

\* Neither of these wraps into bank 0.
sr(i) == adrSp + i
sridy(i) == Word0(adrSp + i, adrSp + i + 1) + adrY

\* The address of the second byte of a datum at ea: wrappedBankByte.
Second(ea, direct) == IF direct THEN (ea + 1) % Word ELSE (ea + 1) % Space

-----------------------------------------------------------------------------
(* Programs.                                                               *)

Operand == 0 .. ByteSize - 1
LongOperand == 0 .. Word - 1

\* Addresses that a program may store at, with what says a datum is direct.
Reached(i) ==
    {[ea |-> zp(i, r), direct |-> TRUE] : r \in {0, adrX, adrY}} \cup
    {[ea |-> a % Space, direct |-> FALSE] :
        a \in {ind0(i), indx(i), indy(i), _zp_long_with_offset(i, 0),
               _zp_long_with_offset(i, adrY), sr(i), sridy(i)}}
ReachedLong(a) ==
    {[ea |-> f, direct |-> FALSE] : f \in {abso(a), absx(a, adrX), absx(a, adrY), abslx(a, adrX)}}

\* putvalue: sta and its like, of one or two bytes.
Store(r, wide, v) ==
    /\ stores < MaxStores /\ stores' = stores + 1
    /\ mem' = [a \in Address |-> IF a = r.ea \/ (wide /\ a = Second(r.ea, r.direct)) THEN v
                                 ELSE mem[a]]
    /\ UNCHANGED <<adrE, dp, adrX, adrY, db, adrSp>>

\* tcd and pld, plb, tcs.
SetDirect == dp' \in Directs /\ UNCHANGED <<adrE, adrX, adrY, db, adrSp, mem, stores>>
SetBank == db' \in 0 .. MemBanks - 1 /\ UNCHANGED <<adrE, dp, adrX, adrY, adrSp, mem, stores>>
SetStack == adrSp' \in StackBases /\ UNCHANGED <<adrE, dp, adrX, adrY, db, mem, stores>>

\* ldx and ldy; in emulation mode of one byte.
SetIndex ==
    /\ adrX' \in Indexes /\ adrY' \in Indexes
    /\ adrE => adrX' < ByteSize /\ adrY' < ByteSize
    /\ UNCHANGED <<adrE, dp, db, adrSp, mem, stores>>

SetMode ==
    /\ adrE' \in BOOLEAN
    /\ adrX' = IF adrE' THEN adrX % ByteSize ELSE adrX
    /\ adrY' = IF adrE' THEN adrY % ByteSize ELSE adrY
    /\ adrSp' = IF adrE' THEN ByteSize + (adrSp % ByteSize) ELSE adrSp
    /\ UNCHANGED <<dp, db, mem, stores>>

AdrInit ==
    /\ adrE = TRUE /\ dp = 0 /\ adrX = 0 /\ adrY = 0 /\ db = 0
    /\ adrSp = (2 * ByteSize) - 3
    /\ mem \in Patterns
    /\ stores = 0

AdrNext ==
    \/ \E i \in Operand, wide \in BOOLEAN, v \in {0, ByteSize - 1} :
          \E r \in Reached(i) : Store(r, wide, v)
    \/ \E a \in {0, Word - 1}, wide \in BOOLEAN, v \in {0, ByteSize - 1} :
          \E r \in ReachedLong(a) : Store(r, wide, v)
    \/ SetDirect \/ SetBank \/ SetStack \/ SetIndex \/ SetMode

AdrSpec == AdrInit /\ [][AdrNext]_adrVars

-----------------------------------------------------------------------------
(* Properties. *)

\* In emulation mode, with the direct page and the data bank at 0, programs of
\* the 6502 find their data and their pointers where that processor has them,
\* the bank apart: what they add in page 0 wraps at its end, pointers too, and
\* what they add to an absolute address or to a pointer carries
\* (direct_page_add, indx, indy, absx, ind, ainx).
AsOn6502 ==
    LET page(i) == i % ByteSize
        word(a, b) == mem[a] + (ByteSize * mem[b])
        next(a) == (a + 1) % Word
    IN  adrE /\ dp = 0 /\ db = 0 =>
          /\ \A i \in Operand :
                /\ zp(i, adrX) = page(i + adrX)
                /\ ind0(i) = word(i, page(i + 1))
                /\ indx(i) = word(page(i + adrX), page(i + adrX + 1))
                /\ indy(i) % Word = (word(i, page(i + 1)) + adrY) % Word
          /\ \A a \in LongOperand :
                /\ absx(a, adrX) % Word = (a + adrX) % Word
                /\ ind(a) = word(a, next(a))
                /\ ainx(a) = word((a + adrX) % Word, next((a + adrX) % Word))
=============================================================================
