------------------------------- MODULE Alu816 -------------------------------
(***************************************************************************)
(* What instructions of the 65C816 compute (cpu/instructions.h, 65c02.h):  *)
(* arithmetic in binary and decimal, shifts, logic, comparisons, loads,    *)
(* transfers and their flags, in both widths of accumulator and index      *)
(* registers.  Operands come from one cell of memory, as wide as a word.   *)
(* A digit has Digit values, of which Ten are decimal; the bytes of the    *)
(* code have two digits of 16 and of 10, and so have those here.           *)
(***************************************************************************)
EXTENDS Integers

CONSTANTS
    Digit,     \* 16 in the code
    Ten,       \* 10 in the code
    Operands,  \* words that programs load
    MaxSteps,  \* bound: instructions since the last load from elsewhere
    BitAnd(_, _), BitOr(_, _), BitXor(_, _)  \* C's &, | and ^

ByteVals == Digit * Digit
WordVals == ByteVals * ByteVals

\* A digit's top bit is half of it, and there are digits that are not decimal.
ASSUME AluAssumption ==
    /\ Digit \in Nat /\ Digit % 2 = 0 /\ Ten \in Nat \ {0} /\ Ten < Digit
    /\ Operands \subseteq 0 .. WordVals - 1
    /\ \A a, b \in 0 .. WordVals - 1 :
          BitAnd(a, b) \in Nat /\ BitOr(a, b) \in Nat /\ BitXor(a, b) \in Nat

\* "D", "M" and "X" are FLAG_DECIMAL, FLAG_MEMORY_WIDTH and FLAG_INDEX_WIDTH.
AluFlags == {"C", "Z", "V", "N", "D", "M", "X"}

VARIABLES aluC, aluX, aluY, aluP, aluM, aluSteps
aluVars == <<aluC, aluX, aluY, aluP, aluM, aluSteps>>

\* memory_16bit and index_16bit.
Memory16 == "M" \notin aluP
Index16 == "X" \notin aluP

Vals(w) == IF w THEN WordVals ELSE ByteVals
Negative(n, w) == n % Vals(w) >= Vals(w) \div 2
Put(q, f, b) == IF b THEN q \cup {f} ELSE q \ {f}
One(q) == IF "C" \in q THEN 1 ELSE 0
Inverted(v, w) == (Vals(w) - 1) - v

\* zerocalc and signcalc.
NZ(q, n, w) == Put(Put(q, "Z", n % Vals(w) = 0), "N", Negative(n, w))

\* overflowcalc8 and overflowcalc16: n has the sign of neither operand.
Overflow(n, m, o, w) ==
    Negative(n, w) # Negative(m, w) /\ Negative(n, w) # Negative(o, w)

-----------------------------------------------------------------------------
(* Arithmetic.  An operation on a and v gives a value r and a status q.    *)

Result(n, q, w) == [r |-> n % Vals(w), q |-> NZ(q, n, w)]

\* adc and, with the operand's complement, sbc, in binary.
AddBinary(a, v, q, w) ==
    LET n == a + v + One(q)
    IN  Result(n, Put(Put(q, "V", Overflow(n, a, v, w)), "C", n >= Vals(w)), w)

Digits(w) == IF w THEN 0 .. 3 ELSE 0 .. 1
Top(w) == IF w THEN 3 ELSE 1
Weight(i) == CASE i = 0 -> 1 [] i = 1 -> Digit [] i = 2 -> ByteVals [] OTHER -> ByteVals * Digit
DigitOf(n, i) == (n \div Weight(i)) % Digit

\* The number of the digits f[i], the one on top being t.
Number(f, t, w) ==
    IF w THEN f[0] + (f[1] * Digit) + (f[2] * ByteVals) + (t * ByteVals * Digit)
    ELSE f[0] + (t * Digit)

\* tmp, tmp2, ... are t[0], t[1], ...
\* Mutation: a digit of ten is not carried.
DecimalSums_ten(a, v, c, w) ==
    LET t[i \in Digits(w)] == DigitOf(a, i) + DigitOf(v, i)
                + (IF i = 0 THEN c ELSE IF t[i - 1] > Ten THEN 1 ELSE 0)
    IN  t
DecimalSums(a, v, c, w) ==
    LET t[i \in Digits(w)] == DigitOf(a, i) + DigitOf(v, i)
                + (IF i = 0 THEN c ELSE IF t[i - 1] > Ten - 1 THEN 1 ELSE 0)
    IN  t

\* The overflow is that of the sum before its top digit is corrected.
AddDecimal(a, v, q, w) ==
    LET t == DecimalSums(a, v, One(q), w)
        fixed == [i \in Digits(w) |-> (t[i] + IF t[i] > Ten - 1 THEN Digit - Ten ELSE 0) % Digit]
        n == Number(fixed, fixed[Top(w)], w)
        ov == Number(fixed, t[Top(w)] % Digit, w)
    IN  Result(n, Put(Put(q, "V", Overflow(ov, a, v, w)), "C", t[Top(w)] > Ten - 1), w)

DecimalDifferences(a, v, c, w) ==
    LET t[i \in Digits(w)] == (DigitOf(a, i) - DigitOf(v, i))
                - (IF i = 0 THEN 1 - c ELSE IF t[i - 1] < 0 THEN 1 ELSE 0)
    IN  t

\* Borrows where a digit is below zero; of a word, the top digit is corrected
\* where it is not decimal, too.  The overflow takes the new carry.
SubtractDecimal(a, v, q, w) ==
    LET t == DecimalDifferences(a, v, One(q), w)
        wrong == [i \in Digits(w) |-> t[i] < 0 \/ (w /\ i = Top(w) /\ t[i] >= Ten)]
        fixed == [i \in Digits(w) |-> (t[i] - IF wrong[i] THEN Digit - Ten ELSE 0) % Digit]
        n == Number(fixed, fixed[Top(w)], w)
        carry == Number(fixed, t[Top(w)] % Digit, w) <= a
        ov == (a + Inverted(v, w) + (IF carry THEN 1 ELSE 0)) % Vals(w)
    IN  Result(n, Put(Put(q, "C", carry), "V", Overflow(ov, a, Inverted(v, w), w)), w)

adc(a, v, q, w) == IF "D" \in q THEN AddDecimal(a, v, q, w) ELSE AddBinary(a, v, q, w)
sbc(a, v, q, w) == IF "D" \in q THEN SubtractDecimal(a, v, q, w)
                   ELSE AddBinary(a, Inverted(v, w), q, w)
and(a, v, q, w) == Result(BitAnd(a, v), q, w)
ora(a, v, q, w) == Result(BitOr(a, v), q, w)
eor(a, v, q, w) == Result(BitXor(a, v), q, w)

\* cmp, cpx and cpy leave the register.
Compare(a, v, q, w) ==
    [r |-> a, q |-> Put(Put(Put(q, "C", a >= v), "Z", a = v), "N", Negative(a - v, w))]

\* Instructions that read a value, change it and put it back.
Shifted(n, out, q, w) == Result(n, Put(q, "C", out), w)
asl(v, q, w) == Shifted(2 * v, Negative(v, w), q, w)
lsr(v, q, w) == Shifted(v \div 2, v % 2 = 1, q, w)
\* Mutation: the carry enters at bit 7 in either width.
ror_byte(v, q, w) == Shifted((v \div 2) + (One(q) * (ByteVals \div 2)), v % 2 = 1, q, w)
rol(v, q, w) == Shifted((2 * v) + One(q), Negative(v, w), q, w)
ror(v, q, w) == Shifted((v \div 2) + (One(q) * (Vals(w) \div 2)), v % 2 = 1, q, w)
inc(v, q, w) == Result(v + 1, q, w)
dec(v, q, w) == Result(v - 1, q, w)
Tested(v, q, w) == Put(q, "Z", BitAnd(v, aluC % Vals(w)) = 0)
tsb(v, q, w) == [r |-> BitOr(v, aluC % Vals(w)), q |-> Tested(v, q, w)]
trb(v, q, w) == [r |-> BitAnd(v, Inverted(aluC % Vals(w), w)), q |-> Tested(v, q, w)]
stz(v, q, w) == [r |-> 0, q |-> q]

\* Bits 7 and 6 of the operand, of its low byte in either width, go to N and V.
bit(v, q, w) ==
    Put(Put(Put(q, "Z", BitAnd(aluC, v) % Vals(w) = 0), "N", (v % ByteVals) >= ByteVals \div 2),
        "V", (v % (ByteVals \div 2)) >= ByteVals \div 4)

\* Where branches go: bcs and bcc, bmi and bpl, bvs and bvc, of a status.
bcs(q) == "C" \in q
bmi(q) == "N" \in q
bvs(q) == "V" \in q

-----------------------------------------------------------------------------
(* The registers.                                                          *)

\* saveaccum, and a value of width w put into any register.
Save(reg, n, w) == IF w THEN n % WordVals ELSE (ByteVals * (reg \div ByteVals)) + (n % ByteVals)

AluStep == aluSteps < MaxSteps /\ aluSteps' = aluSteps + 1
Fetch(w) == aluM % Vals(w)

Accumulate ==
    /\ AluStep
    /\ \E o \in {adc(aluC % Vals(Memory16), Fetch(Memory16), aluP, Memory16),
                 sbc(aluC % Vals(Memory16), Fetch(Memory16), aluP, Memory16),
                 and(aluC % Vals(Memory16), Fetch(Memory16), aluP, Memory16),
                 ora(aluC % Vals(Memory16), Fetch(Memory16), aluP, Memory16),
                 eor(aluC % Vals(Memory16), Fetch(Memory16), aluP, Memory16),
                 Compare(aluC % Vals(Memory16), Fetch(Memory16), aluP, Memory16)} :
          aluC' = Save(aluC, o.r, Memory16) /\ aluP' = o.q
    /\ UNCHANGED <<aluX, aluY, aluM>>

cpx ==
    /\ AluStep
    /\ \E r \in {aluX, aluY} : aluP' = Compare(r % Vals(Index16), Fetch(Index16), aluP, Index16).q
    /\ UNCHANGED <<aluC, aluX, aluY, aluM>>

\* Of the accumulator, or of the cell.
Rewrites(v, w) ==
    {asl(v, aluP, w), lsr(v, aluP, w), rol(v, aluP, w), ror(v, aluP, w), inc(v, aluP, w), dec(v, aluP, w)}
RewriteA ==
    /\ AluStep
    /\ \E o \in Rewrites(aluC % Vals(Memory16), Memory16) :
          aluC' = Save(aluC, o.r, Memory16) /\ aluP' = o.q
    /\ UNCHANGED <<aluX, aluY, aluM>>
RewriteCell ==
    /\ AluStep
    /\ LET v == Fetch(Memory16)
       IN  \E o \in Rewrites(v, Memory16) \cup
                    {tsb(v, aluP, Memory16), trb(v, aluP, Memory16), stz(v, aluP, Memory16)} :
             aluM' = Save(aluM, o.r, Memory16) /\ aluP' = o.q
    /\ UNCHANGED <<aluC, aluX, aluY>>

\* The Rockwell instructions, which the 65C02 has: one bit of a byte.
smb ==
    /\ AluStep
    /\ \E b \in {1, ByteVals \div 2} :
          aluM' \in {Save(aluM, BitOr(aluM % ByteVals, b), FALSE),
                    Save(aluM, BitAnd(aluM % ByteVals, Inverted(b, FALSE)), FALSE)}
    /\ UNCHANGED <<aluC, aluX, aluY, aluP>>

Bit ==
    /\ AluStep
    /\ aluP' \in {bit(aluM, aluP, Memory16), Put(aluP, "Z", BitAnd(aluC, aluM) % Vals(Memory16) = 0)}
    /\ UNCHANGED <<aluC, aluX, aluY, aluM>>

lda ==
    /\ AluStep
    /\ aluC' = Save(aluC, aluM, Memory16) /\ aluP' = NZ(aluP, aluM, Memory16)
    /\ UNCHANGED <<aluX, aluY, aluM>>
ldx ==
    /\ AluStep
    /\ \/ aluX' = Save(aluX, aluM, Index16) /\ UNCHANGED aluY
       \/ aluY' = Save(aluY, aluM, Index16) /\ UNCHANGED aluX
    /\ aluP' = NZ(aluP, aluM, Index16)
    /\ UNCHANGED <<aluC, aluM>>
sta ==
    /\ AluStep
    /\ \/ aluM' = Save(aluM, aluC, Memory16)
       \/ \E r \in {aluX, aluY} : aluM' = Save(aluM, r, Index16)
    /\ UNCHANGED <<aluC, aluX, aluY, aluP>>

\* inx, iny, dex and dey.
inx ==
    /\ AluStep
    /\ \E d \in {1, -1} :
          \/ aluX' = Save(aluX, aluX + d, Index16) /\ aluP' = NZ(aluP, aluX + d, Index16) /\ UNCHANGED aluY
          \/ aluY' = Save(aluY, aluY + d, Index16) /\ aluP' = NZ(aluP, aluY + d, Index16) /\ UNCHANGED aluX
    /\ UNCHANGED <<aluC, aluM>>

\* tax and tay: as wide as the index register, whatever the accumulator's width.
tax ==
    /\ AluStep
    /\ \/ aluX' = Save(aluX, aluC, Index16) /\ UNCHANGED aluY
       \/ aluY' = Save(aluY, aluC, Index16) /\ UNCHANGED aluX
    /\ aluP' = NZ(aluP, aluC, Index16)
    /\ UNCHANGED <<aluC, aluM>>

\* txa and tya: a narrow index register clears b where the accumulator is wide.
txa ==
    /\ AluStep
    /\ \E r \in {aluX, aluY} :
          /\ aluC' = IF Memory16 /\ ~ Index16 THEN r % ByteVals ELSE Save(aluC, r, Memory16)
          /\ aluP' = NZ(aluP, r, Memory16 /\ Index16)
    /\ UNCHANGED <<aluX, aluY, aluM>>

txy ==
    /\ AluStep
    /\ \/ aluY' = Save(aluY, aluX, Index16) /\ aluP' = NZ(aluP, aluX, Index16) /\ UNCHANGED aluX
       \/ aluX' = Save(aluX, aluY, Index16) /\ aluP' = NZ(aluP, aluY, Index16) /\ UNCHANGED aluY
    /\ UNCHANGED <<aluC, aluM>>

xba ==
    /\ AluStep
    /\ aluC' = (ByteVals * (aluC % ByteVals)) + (aluC \div ByteVals)
    /\ aluP' = NZ(aluP, aluC \div ByteVals, FALSE)
    /\ UNCHANGED <<aluX, aluY, aluM>>

\* clc, sec, cld, sed and clv.
SetAluFlag ==
    /\ AluStep
    /\ aluP' \in {Put(aluP, f, b) : f \in {"C", "D"}, b \in BOOLEAN} \cup {aluP \ {"V"}}
    /\ UNCHANGED <<aluC, aluX, aluY, aluM>>

\* rep and sep of the width flags.
SetWidths ==
    /\ AluStep
    /\ aluP' \in {Put(aluP, f, b) : f \in {"M", "X"}, b \in BOOLEAN}
    /\ aluX' = IF "X" \in aluP' THEN aluX % ByteVals ELSE aluX
    /\ aluY' = IF "X" \in aluP' THEN aluY % ByteVals ELSE aluY
    /\ UNCHANGED <<aluC, aluM>>

-----------------------------------------------------------------------------
AluInit ==
    /\ aluC \in Operands /\ aluM \in Operands
    /\ aluX = 0 /\ aluY = 0
    /\ aluP \in SUBSET {"C", "D", "M", "X"}
    /\ aluSteps = 0

AluNext ==
    \/ Accumulate \/ cpx \/ RewriteA \/ RewriteCell \/ smb \/ Bit
    \/ lda \/ ldx \/ sta \/ inx \/ tax \/ txa \/ txy \/ xba \/ SetAluFlag \/ SetWidths

\* A program that goes on with other operands is another behaviour.
AluDone == aluSteps = MaxSteps /\ UNCHANGED aluVars

AluSpec == AluInit /\ [][AluNext \/ AluDone]_aluVars

-----------------------------------------------------------------------------
(* Properties. *)

\* What the digits of n stand for in decimal, where they all are decimal.
IsDecimal(n, w) == \A i \in Digits(w) : DigitOf(n, i) < Ten
InDecimal(n, w) ==
    DigitOf(n, 0) + (DigitOf(n, 1) * Ten)
        + IF w THEN (DigitOf(n, 2) * Ten * Ten) + (DigitOf(n, 3) * Ten * Ten * Ten) ELSE 0
DecimalSize(w) == IF w THEN Ten * Ten * Ten * Ten ELSE Ten * Ten

\* With the decimal flag set, adc and sbc of decimal operands give the decimal
\* sum and difference, with the carry out of, and the borrow into, the top
\* digit, in both widths and whatever the instructions before left in carry and
\* registers (the corrections of each digit in instructions.h).
DecimalIsDecimal ==
    \A w \in BOOLEAN :
        LET a == aluC % Vals(w)
            v == aluM % Vals(w)
            q == aluP \cup {"D"}
            sum == InDecimal(a, w) + InDecimal(v, w) + One(q)
            difference == InDecimal(a, w) - InDecimal(v, w) - (1 - One(q))
        IN  IsDecimal(a, w) /\ IsDecimal(v, w) =>
              /\ InDecimal(adc(a, v, q, w).r, w) = sum % DecimalSize(w)
              /\ IsDecimal(adc(a, v, q, w).r, w)
              /\ "C" \in adc(a, v, q, w).q <=> sum >= DecimalSize(w)
              /\ InDecimal(sbc(a, v, q, w).r, w) = difference % DecimalSize(w)
              /\ IsDecimal(sbc(a, v, q, w).r, w)
              /\ "C" \in sbc(a, v, q, w).q <=> difference >= 0

\* The two halves of an operation, low byte first or, to shift right, last.
Halves(lo, hi) == [r |-> (ByteVals * hi.r) + lo.r, q |-> hi.q]
Agree(both, halves, out) ==
    both.r = halves.r /\ \A f \in out : f \in both.q <=> f \in halves.q

\* A program that works on words may do it in one wide instruction or, byte by
\* byte, in two narrow ones that pass the carry on: both give the same word,
\* carry, overflow and sign, in binary and, of decimal operands, in decimal;
\* but not the overflow of a decimal sbc, which depends on the carry out of it.
WideIsTwoNarrow ==
    LET cl == aluC % ByteVals
        ch == aluC \div ByteVals
        vl == aluM % ByteVals
        vh == aluM \div ByteVals
        right == lsr(ch, aluP, FALSE)
        low == ror(cl, right.q, FALSE)
    IN  ("D" \in aluP => IsDecimal(aluC, TRUE) /\ IsDecimal(aluM, TRUE))
        => /\ LET lo == adc(cl, vl, aluP, FALSE)
              IN  Agree(adc(aluC, aluM, aluP, TRUE), Halves(lo, adc(ch, vh, lo.q, FALSE)),
                        {"C", "V", "N"})
           /\ LET lo == sbc(cl, vl, aluP, FALSE)
              IN  Agree(sbc(aluC, aluM, aluP, TRUE), Halves(lo, sbc(ch, vh, lo.q, FALSE)),
                        IF "D" \in aluP THEN {"C", "N"} ELSE {"C", "V", "N"})
           /\ LET lo == asl(cl, aluP, FALSE)
              IN  Agree(asl(aluC, aluP, TRUE), Halves(lo, rol(ch, lo.q, FALSE)), {"C", "N"})
           /\ Agree(lsr(aluC, aluP, TRUE), [r |-> (ByteVals * right.r) + low.r, q |-> low.q], {"C"})
           /\ ror(rol(aluC, aluP, TRUE).r, rol(aluC, aluP, TRUE).q, TRUE).r = aluC

Signed(n, w) == IF Negative(n, w) THEN (n % Vals(w)) - Vals(w) ELSE n % Vals(w)

\* After sec and sbc in binary, N and V differ exactly where the accumulator
\* was less than the operand as signed numbers, and the carry is set where it
\* was not less as unsigned ones, which bmi, bvc, bcs and their like rely on.
OrdersSigned ==
    \A w \in BOOLEAN :
        LET a == aluC % Vals(w)
            v == aluM % Vals(w)
            q == sbc(a, v, (aluP \cup {"C"}) \ {"D"}, w).q
        IN  /\ (bmi(q) # bvs(q)) <=> Signed(a, w) < Signed(v, w)
            /\ bcs(q) <=> a >= v
            /\ bcs(q) <=> bcs(Compare(a, v, aluP, w).q)

\* What programs rely on after adc and sbc: decimal sums and differences in
\* decimal mode, and the order of the operands in binary.
AddsAndSubtracts == DecimalIsDecimal /\ OrdersSigned
=============================================================================
