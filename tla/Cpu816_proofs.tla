---------------------------- MODULE Cpu816_proofs ----------------------------
(* Theorems about the processor: Cpu816 for every table of vectors, every set *)
(* of programs and a stack of any size, Address816 and BlockMove for bytes,   *)
(* banks and blocks of any size, Alu816 for digits of any even number of      *)
(* values and any base below it.  The first two invariants of Cpu816 are      *)
(* inductive as they stand: whatever a status byte on the stack holds, plp    *)
(* and rti repair it.  That an interrupt is invisible needs to be said of     *)
(* every byte it pushed, and that a block move is whole of every byte moved   *)
(* so far, in the moves that handlers interrupted too.  What adc and sbc give *)
(* needs no more of the registers than that they hold words: it is proved of  *)
(* one digit, of two, and of the two bytes of a word as of two digits.        *)
EXTENDS Cpu816, Alu816, Address816, BlockMove, NatLemmas, FiniteSetTheorems

\* An interrupt changes neither the mode nor the widths nor the index registers
\* (interrupt6502).
LEMMA InterruptKeepsWidths ==
    ASSUME WidthsHold, NEW kind, NEW ret, Interrupt(kind, ret, p)
    PROVE  WidthsHold'
BY DEF WidthsHold, Interrupt, Widths

\* The same for brk and cop, which save the status as fetched.
LEMMA SoftwareKeepsWidths ==
    ASSUME WidthsHold, NEW kind, Software(kind)
    PROVE  WidthsHold'
<1>1. Interrupt(kind, After(2), Fetched)
  BY DEF Software
<1>2. e' = e /\ wide' = wide /\ p' = (Fetched \cup {"I"}) \ {"D"}
  BY <1>1 DEF Interrupt
<1>3. Fetched = p
  BY DEF Fetched, WidthsHold
<1> QED
  BY <1>2, <1>3 DEF WidthsHold, Widths

\* Every instruction, interrupt and reset keeps the widths.
LEMMA WidthsStep == WidthsHold /\ [Next]_vars => WidthsHold'
<1> SUFFICES ASSUME WidthsHold, [Next]_vars PROVE WidthsHold'
  OBVIOUS
<1>1. Fetched = p
  BY DEF Fetched, WidthsHold
<1>2. ASSUME NEW c \in BOOLEAN, NEW w \in BOOLEAN, Compute(c, w) PROVE WidthsHold'
  BY <1>1, <1>2 DEF Compute, Plain, WidthsHold, Widths
<1>3. ASSUME NEW m \in Masks, sep(m) PROVE WidthsHold'
  BY <1>1, <1>3 DEF sep, Plain, WidthsHold
<1>4. ASSUME NEW m \in Masks, ClearFlags(m) PROVE WidthsHold'
  BY <1>1, <1>4 DEF ClearFlags, ClearedBy, Plain, WidthsHold
<1>5. ASSUME NEW f \in Settable, SetFlag(f) PROVE WidthsHold'
  BY <1>1, <1>5, CpuAssumption DEF SetFlag, Plain, WidthsHold
<1>6. CASE xce
  <2>1. CASE "C" \in Fetched
    BY <1>6, <2>1 DEF xce, WidthsHold
  <2>2. CASE "C" \notin Fetched
    BY <1>1, <1>6, <2>2 DEF xce, WidthsHold
  <2> QED
    BY <2>1, <2>2
<1>7. ASSUME NEW a \in Targets, NEW b \in Banks, Jump(a, b) PROVE WidthsHold'
  BY <1>1, <1>7 DEF Jump, WidthsHold
<1>8. ASSUME NEW s \in Stacks, txs(s) \/ tcs(s) PROVE WidthsHold'
  BY <1>1, <1>8 DEF txs, tcs, Plain, WidthsHold
<1>9. ASSUME NEW n \in 1 .. MaxOwn, PushData(n) \/ PullData(n) PROVE WidthsHold'
  BY <1>1, <1>9 DEF PushData, PullData, Plain, WidthsHold
<1>10. CASE php
  BY <1>1, <1>10 DEF php, Plain, WidthsHold
<1>11. CASE plp
  <2>1. PICK q \in AsStatus(Pulled(1)) :
           p' = (IF e THEN q \cup Widths ELSE q) /\ wide' = Narrowed(q)
    BY <1>11 DEF plp
  <2> QED
    BY <1>11, <2>1 DEF plp, Plain, Narrowed, WidthsHold, Widths
<1>12. ASSUME NEW kind \in {"brk", "cop"}, Software(kind) PROVE WidthsHold'
  BY <1>12, SoftwareKeepsWidths
<1>13. CASE rti
  <2>1. PICK q \in AsStatus(Pulled(1)) :
           p' = (IF e THEN q \cup Widths ELSE q) /\ wide' = Narrowed(q)
    BY <1>13 DEF rti
  <2> QED
    BY <1>13, <2>1 DEF rti, Narrowed, WidthsHold, Widths
<1>14. CASE wai \/ Wait
  BY <1>1, <1>14 DEF wai, Wait, regs, WidthsHold
<1>15. CASE Nmi
  BY <1>15, InterruptKeepsWidths DEF Nmi
<1>16. ASSUME NEW l \in BOOLEAN, Poll(l) PROVE WidthsHold'
  <2>1. CASE l /\ "I" \notin p
    BY <1>16, <2>1, InterruptKeepsWidths DEF Poll
  <2>2. CASE ~ (l /\ "I" \notin p)
    BY <1>16, <2>2 DEF Poll, regs, WidthsHold
  <2> QED
    BY <2>1, <2>2
<1>17. CASE Reset
  BY <1>17 DEF Reset, WidthsHold, Widths
<1>18. CASE UNCHANGED vars
  BY <1>18 DEF vars, WidthsHold
<1> QED
  BY <1>2, <1>3, <1>4, <1>5, <1>6, <1>7, <1>8, <1>9, <1>10, <1>11, <1>12, <1>13,
     <1>14, <1>15, <1>16, <1>17, <1>18 DEF Next

\* In emulation mode registers have 8 bits, and narrow index registers have no
\* high byte, whatever comes from the stack, from operands and from changes of
\* mode (sep, plp, rti, xce, step6502).
THEOREM WidthsCorrect == Spec => []WidthsHold
<1>1. Init => WidthsHold
  BY DEF Init, WidthsHold
<1> QED
  BY <1>1, WidthsStep, PTL DEF Spec

\* An instruction only ends with the loop's look at the interrupt line still
\* to come; so does a step of a waiting processor.
LEMMA RunsKeepsWakeup == Runs => NoLostWakeup'
BY DEF Runs, NoLostWakeup

\* No step of the processor or of the loop leaves it waiting for an interrupt
\* that is there already.
LEMMA WakeupStep == NoLostWakeup /\ [Next]_vars => NoLostWakeup'
<1> SUFFICES ASSUME NoLostWakeup, [Next]_vars PROVE NoLostWakeup'
  OBVIOUS
<1>1. CASE \/ \E c, w \in BOOLEAN : Compute(c, w)
           \/ \E m \in Masks : sep(m) \/ ClearFlags(m)
           \/ \E f \in Settable : SetFlag(f)
           \/ \E s \in Stacks : txs(s) \/ tcs(s)
           \/ \E n \in 1 .. MaxOwn : PushData(n) \/ PullData(n)
           \/ php \/ plp
  <2>1. Plain
    BY <1>1 DEF Compute, sep, ClearFlags, SetFlag, txs, tcs, PushData, PullData, php, plp
  <2> QED
    BY <2>1, RunsKeepsWakeup DEF Plain
<1>2. CASE \/ xce \/ rti \/ wai
           \/ \E a \in Targets, b \in Banks : Jump(a, b)
           \/ \E kind \in {"brk", "cop"} : Software(kind)
  <2>1. Runs
    BY <1>2 DEF xce, rti, wai, Jump, Software
  <2> QED
    BY <2>1, RunsKeepsWakeup
<1>3. CASE Wait
  BY <1>3 DEF Wait, NoLostWakeup
<1>4. CASE Nmi
  BY <1>4 DEF Nmi, NoLostWakeup
<1>5. ASSUME NEW l \in BOOLEAN, Poll(l) PROVE NoLostWakeup'
  BY <1>5 DEF Poll, Woken, NoLostWakeup
<1>6. CASE Reset
  BY <1>6 DEF Reset, NoLostWakeup
<1>7. CASE UNCHANGED vars
  BY <1>7 DEF vars, NoLostWakeup
<1> QED
  BY <1>1, <1>2, <1>3, <1>4, <1>5, <1>6, <1>7 DEF Next

\* A processor that still waits when the loop begins again has no interrupt to
\* wait for, whether interrupts are masked or not (irq6502, emulator_loop).
THEOREM WakeupCorrect == Spec => []NoLostWakeup
<1>1. Init => NoLostWakeup
  BY DEF Init, NoLostWakeup
<1> QED
  BY <1>1, WakeupStep, PTL DEF Spec

-----------------------------------------------------------------------------
(* ReturnsAsEntered.  What an interrupt pushed lies under its frame until    *)
(* its rti.  Modes and txs move the stack pointer from page to page, so the  *)
(* invariant counts addresses by their place in a page: pushes and pulls of  *)
(* either mode take one from it or add one, and fewer bytes are on the stack *)
(* than a page has.                                                          *)

Place(a) == a % PageSize

\* n bytes up from s, or down for a negative n, in either mode (incsp, decsp).
Moved(mode, s, n) ==
    IF mode THEN (PageSize * (s \div PageSize)) + ((s + n) % PageSize)
    ELSE (s + n) % (Pages * PageSize)

StackByte ==
    [kind : {"data", "half"}, v : Nat] \cup [kind : {"status"}, v : SUBSET Flags]
    \cup [kind : {"bank"}, v : Banks]

Frame == [pc : Pc, k : Banks, p : SUBSET Flags, e : BOOLEAN, sp : Sp, depth : Nat]

\* The bytes of an interrupt, from the last pushed.
Bytes(f) == IF f.e THEN 3 ELSE 4
CpuTypes ==
    /\ e \in BOOLEAN /\ p \in SUBSET Flags /\ pc \in Pc /\ k \in Banks /\ sp \in Sp
    /\ frames \in Seq(Frame)
    /\ stack \in [DOMAIN stack -> StackByte]

\* The bytes on the stack are those next to the stack pointer.
OnStack(s) ==
    /\ IsFiniteSet(DOMAIN stack) /\ DOMAIN stack \in SUBSET Sp
    /\ Depth <= MaxDepth
    /\ \A a \in DOMAIN stack : \E i \in 1 .. Depth : Place(a) = Place(s + i)
    /\ \A a, b \in DOMAIN stack : Place(a) = Place(b) => a = b

Has(f, i, b) == Moved(f.e, f.sp, i) \in DOMAIN stack /\ stack[Moved(f.e, f.sp, i)] = b
HasStatus(f) ==
    IF f.e THEN Has(f, 1, Byte("status", f.p \cup {"X"})) \/ Has(f, 1, Byte("status", f.p \ {"X"}))
    ELSE Has(f, 1, Byte("status", f.p)) /\ Has(f, 4, Byte("bank", f.k))
Kept(f) ==
    /\ HasStatus(f)
    /\ Has(f, 2, Byte("half", f.pc % Low)) /\ Has(f, 3, Byte("half", f.pc \div Low))

FrameHolds(f) ==
    /\ f.e => Widths \subseteq f.p
    /\ Bytes(f) <= f.depth
    /\ Kept(f)
    /\ f.depth <= Depth /\ Place(f.sp + f.depth) = Place(sp + Depth)
FramesHold ==
    /\ \A j \in 1 .. Len(frames) : FrameHolds(frames[j])
    /\ \A i, j \in 1 .. Len(frames) : i < j => frames[i].depth + Bytes(frames[j]) <= frames[j].depth

StackInv == CpuTypes /\ WidthsHold /\ OnStack(sp) /\ FramesHold

LEMMA StackSizes ==
    /\ PageSize \in Nat \ {0} /\ Pages \in Nat \ {0} /\ Pages > 1
    /\ Pages * PageSize \in Nat \ {0} /\ MaxDepth \in Nat /\ MaxDepth < PageSize
    /\ Sp \subseteq Nat
BY CpuAssumption DEF Sp

\* A page's number and a place in it make an address.
LEMMA PageAddress ==
    ASSUME NEW q \in 0 .. (Pages - 1), NEW r \in 0 .. (PageSize - 1)
    PROVE  /\ PageSize * q + r \in Sp
           /\ Place(PageSize * q + r) = r
           /\ (PageSize * q + r) \div PageSize = q
<1> USE StackSizes
<1>1. PageSize * q \in Nat /\ PageSize * q <= PageSize * (Pages - 1)
  <2>1. PageSize * ((Pages - 1) - q) >= 0
    OBVIOUS
  <2> QED BY <2>1
<1>2. PageSize * (Pages - 1) = Pages * PageSize - PageSize
  OBVIOUS
<1>3. PageSize * q + r \in Nat /\ PageSize * q + r < Pages * PageSize
  BY <1>1, <1>2
<1>4. PICK a \in Nat : a = PageSize * q + r
  BY <1>3
<1>5. a % PageSize = r /\ a \div PageSize = q
  BY <1>4, DivUnique
<1> QED BY <1>3, <1>4, <1>5 DEF Sp, Place

\* A move of n bytes stays in the bank, and moves the place by n.
LEMMA MovedIn ==
    ASSUME NEW s \in Sp, NEW n \in Int, NEW mode \in BOOLEAN
    PROVE  Moved(mode, s, n) \in Sp /\ Place(Moved(mode, s, n)) = Place(s + n)
<1> USE StackSizes
<1>0. s \in Nat /\ s + n \in Int /\ s < Pages * PageSize
  BY DEF Sp
<1>1. CASE mode
  <2>1. s \div PageSize \in 0 .. (Pages - 1)
    <3>1. s \in 0 .. (PageSize * Pages - 1)
      BY DEF Sp
    <3> QED BY <3>1, DivBelow
  <2>2. (s + n) % PageSize \in 0 .. (PageSize - 1)
    BY <1>0, Remainder
  <2>3. PICK q \in 0 .. (Pages - 1), r \in 0 .. (PageSize - 1) :
          q = s \div PageSize /\ r = (s + n) % PageSize
    BY <2>1, <2>2
  <2> QED BY <1>1, <2>3, PageAddress DEF Moved, Place
<1>2. CASE ~ mode
  <2>1. (s + n) % (Pages * PageSize) \in Sp
    BY <1>0, Remainder DEF Sp
  <2>2. ((s + n) % (Pages * PageSize)) % PageSize = (s + n) % PageSize
    BY <1>0, RemainderOfMultiple
  <2> QED BY <1>2, <2>1, <2>2 DEF Moved, Place
<1> QED BY <1>1, <1>2

\* Two moves of one mode are one.
LEMMA MovedTwice ==
    ASSUME NEW s \in Sp, NEW n \in Int, NEW m \in Int, NEW mode \in BOOLEAN
    PROVE  Moved(mode, Moved(mode, s, n), m) = Moved(mode, s, n + m)
<1> USE StackSizes
<1>0. s \in Nat /\ s + n \in Int /\ s < Pages * PageSize
  BY DEF Sp
<1>1. CASE mode
  <2>1. s \div PageSize \in 0 .. (Pages - 1)
    <3>1. s \in 0 .. (PageSize * Pages - 1)
      BY DEF Sp
    <3> QED BY <3>1, DivBelow
  <2>2. (s + n) % PageSize \in 0 .. (PageSize - 1)
    BY <1>0, Remainder
  <2>3. PICK q \in 0 .. (Pages - 1), r \in 0 .. (PageSize - 1) :
          q = s \div PageSize /\ r = (s + n) % PageSize
    BY <2>1, <2>2
  <2>4. PICK t \in Sp : t = Moved(mode, s, n)
    BY MovedIn
  <2>5. t = PageSize * q + r
    BY <1>1, <2>3, <2>4 DEF Moved
  <2>6. t \div PageSize = q
    BY <2>5, PageAddress
  <2>7. t % PageSize = (s + n) % PageSize
    BY <2>4, MovedIn DEF Place
  <2>8. t \in Int /\ (t + m) % PageSize = ((s + n) + m) % PageSize
    <3>1. t \in Int
      OBVIOUS
    <3> QED BY <1>0, <2>7, <3>1, RemainderShift
  <2>9. (s + n) + m = s + (n + m)
    BY <1>0
  <2> QED BY <1>1, <2>3, <2>4, <2>6, <2>8, <2>9 DEF Moved
<1>2. CASE ~ mode
  <2>1. PICK t \in Int, w \in Nat \ {0} : t = s + n /\ w = Pages * PageSize
    BY <1>0
  <2>2. ((t % w) + m) % w = (t + m) % w
    BY <2>1, RemainderPlus
  <2>3. t + m = s + (n + m)
    BY <1>0, <2>1
  <2> QED BY <1>2, <2>1, <2>2, <2>3 DEF Moved
<1> QED BY <1>1, <1>2

LEMMA MovedNone ==
    ASSUME NEW s \in Sp, NEW mode \in BOOLEAN
    PROVE  Moved(mode, s, 0) = s
<1> USE StackSizes
<1>0. s \in Nat /\ s < Pages * PageSize /\ s + 0 = s
  BY DEF Sp
<1>1. s = PageSize * (s \div PageSize) + (s % PageSize)
  BY <1>0, DivMod
<1>2. s % (Pages * PageSize) = s
  <2>1. PICK w \in Nat \ {0} : w = Pages * PageSize
    OBVIOUS
  <2>2. s \in 0 .. (w - 1) /\ s = w * 0 + s
    BY <1>0, <2>1
  <2>3. s % w = s
    BY <1>0, <2>2, DivUnique
  <2> QED BY <2>1, <2>3
<1> QED BY <1>0, <1>1, <1>2 DEF Moved

LEMMA UpDown ==
    ASSUME NEW s \in Sp, NEW n \in Int
    PROVE  Up(s, n) = Moved(e, s, n) /\ Down(s, n) = Moved(e, s, -n)
<1>1. s \in Int /\ s + (-n) = s - n
  BY StackSizes
<1> QED BY <1>1 DEF Up, Down, Moved

\* Places less than a page apart differ.
LEMMA PlacesApart ==
    ASSUME NEW s \in Sp, NEW i \in Int, NEW j \in Int, i - j < PageSize, j - i < PageSize,
           Place(s + i) = Place(s + j)
    PROVE  i = j
<1>1. PICK a \in Int, b \in Int : a = s + i /\ b = s + j
  BY StackSizes
<1>2. a - b < PageSize /\ b - a < PageSize /\ a % PageSize = b % PageSize
  BY <1>1, StackSizes DEF Place
<1>3. a = b
  BY <1>1, <1>2, StackSizes, RemaindersApart
<1> QED BY <1>1, <1>3, StackSizes

\* Where n pulls and n pushes lead.
LEMMA PlaceOfUp ==
    ASSUME e \in BOOLEAN, NEW s \in Sp, NEW n \in Int
    PROVE  Up(s, n) \in Sp /\ Place(Up(s, n)) = Place(s + n)
<1>1. Up(s, n) = Moved(e, s, n)
  BY UpDown
<1> QED BY <1>1, MovedIn

LEMMA PlaceOfDown ==
    ASSUME e \in BOOLEAN, NEW s \in Sp, NEW n \in Int, NEW l \in Int, l = -n
    PROVE  Down(s, n) \in Sp /\ Place(Down(s, n)) = Place(s + l)
<1>1. Down(s, n) = Moved(e, s, l)
  BY UpDown
<1> QED BY <1>1, MovedIn

\* The addresses of n pushes are n.
LEMMA PushedCells ==
    ASSUME NEW s \in Sp, NEW n \in 0 .. MaxDepth, e \in BOOLEAN
    PROVE  LET cells == {Down(s, i - 1) : i \in 1 .. n}
           IN  IsFiniteSet(cells) /\ Cardinality(cells) = n
<1> USE StackSizes
<1> DEFINE cells == {Down(s, i - 1) : i \in 1 .. n}
           f == [i \in 1 .. n |-> Down(s, i - 1)]
<1>1. ASSUME NEW i \in 1 .. n, NEW j \in 1 .. n, f[i] = f[j] PROVE i = j
  <2>1. Moved(e, s, -(i - 1)) = Moved(e, s, -(j - 1))
    BY <1>1, UpDown
  <2>2. PICK a \in Int, b \in Int : a = -(i - 1) /\ b = -(j - 1)
    OBVIOUS
  <2>3. Place(s + a) = Place(s + b)
    <3>1. Place(Moved(e, s, a)) = Place(s + a) /\ Place(Moved(e, s, b)) = Place(s + b)
      BY MovedIn
    <3> QED BY <2>1, <2>2, <3>1
  <2>4. a - b < PageSize /\ b - a < PageSize
    BY <2>2
  <2>5. a = b
    BY <2>3, <2>4, PlacesApart
  <2> QED BY <2>2, <2>5
<1>2. f \in Bijection(1 .. n, cells)
  BY <1>1 DEF Bijection, Injection, Surjection, IsInjective
<1>3. ExistsBijection(1 .. n, cells)
  BY <1>2 DEF ExistsBijection
<1>4. IsFiniteSet(1 .. n) /\ Cardinality(1 .. n) = n
  BY FS_Interval
<1> HIDE DEF cells
<1>5. IsFiniteSet(cells) /\ Cardinality(cells) = n
  BY <1>3, <1>4, FS_Bijection
<1> QED BY <1>5 DEF cells

\* Addresses on the stack are those of the next Depth places, so those below it are free.
LEMMA FreeBelow ==
    ASSUME CpuTypes, OnStack(sp), NEW i \in 0 .. MaxDepth, Depth + i < PageSize
    PROVE  Down(sp, i) \in Sp /\ Down(sp, i) \notin DOMAIN stack
<1> USE StackSizes
<1>0. PICK l \in Int : l = -i
  OBVIOUS
<1>1. PICK a \in Sp : a = Down(sp, i) /\ Place(a) = Place(sp + l)
  <2>1. i \in Int
    OBVIOUS
  <2> QED BY <1>0, <2>1, PlaceOfDown DEF CpuTypes
<1>2. Depth \in Nat
  BY FS_CardinalityType DEF OnStack, Depth
<1>3. ASSUME a \in DOMAIN stack PROVE FALSE
  <2>1. PICK j \in 1 .. Depth : Place(a) = Place(sp + j)
    BY <1>3 DEF OnStack
  <2>2. l - j < PageSize /\ j - l < PageSize
    BY <1>0, <1>2
  <2>3. l = j
    BY <1>1, <2>1, <2>2, PlacesApart DEF CpuTypes
  <2> QED BY <1>0, <2>3
<1> QED BY <1>1, <1>3

\* A place relative to the stack pointer and to where it moved.
LEMMA Relative ==
    ASSUME NEW s \in Sp, NEW t \in Sp, NEW n \in Int, NEW i \in Int, Place(t) = Place(s + n)
    PROVE  Place(t + i) = Place(s + (n + i))
<1> USE StackSizes
<1>1. PICK a \in Int, b \in Int : a = t /\ b = s + n
  OBVIOUS
<1>2. (a + i) % PageSize = (b + i) % PageSize
  <2>1. a % PageSize = b % PageSize
    BY <1>1 DEF Place
  <2> QED BY <2>1, RemainderShift
<1>3. b + i = s + (n + i)
  BY <1>1
<1> QED BY <1>1, <1>2, <1>3 DEF Place

\* Bytes that are pushed come next to those on the stack, and change none.
LEMMA PushKeeps ==
    ASSUME CpuTypes, OnStack(sp), NEW bytes \in Seq(StackByte), Room(Len(bytes)), Push(bytes)
    PROVE  /\ sp' \in Sp /\ sp' = Moved(e, sp, -Len(bytes))
           /\ stack' \in [DOMAIN stack' -> StackByte]
           /\ OnStack(sp)' /\ Depth' = Depth + Len(bytes)
           /\ \A a \in DOMAIN stack : a \in DOMAIN stack' /\ stack'[a] = stack[a]
           /\ \A i \in 1 .. Len(bytes) : LET a == Down(sp, i - 1)
                                         IN  a \in DOMAIN stack' /\ stack'[a] = bytes[i]
<1> USE StackSizes
<1> DEFINE n == Len(bytes)
           cells == {Down(sp, i - 1) : i \in 1 .. n}
<1>1. n \in Nat /\ DOMAIN bytes = 1 .. n /\ Depth \in Nat /\ Depth + n <= MaxDepth
  <2>1. Depth \in Nat
    BY FS_CardinalityType DEF OnStack, Depth
  <2> QED BY <2>1 DEF Room
<1>2. n \in 0 .. MaxDepth /\ \A i \in 1 .. n : i - 1 \in 0 .. MaxDepth /\ Depth + (i - 1) < PageSize
  BY <1>1
<1>3. IsFiniteSet(cells) /\ Cardinality(cells) = n
  BY <1>2, PushedCells DEF CpuTypes
<1>4. \A i \in 1 .. n : Down(sp, i - 1) \in Sp /\ Down(sp, i - 1) \notin DOMAIN stack
  BY <1>2, FreeBelow
<1>5. cells \in SUBSET Sp /\ DOMAIN stack \cap cells = {}
  BY <1>4
<1>6. \A i, j \in 1 .. n : Down(sp, i - 1) = Down(sp, j - 1) => i = j
  <2> SUFFICES ASSUME NEW i \in 1 .. n, NEW j \in 1 .. n, Down(sp, i - 1) = Down(sp, j - 1)
               PROVE  i = j
    OBVIOUS
  <2>1. PICK a \in Int, b \in Int : a = -(i - 1) /\ b = -(j - 1)
    BY <1>1
  <2>2. i - 1 \in Int /\ j - 1 \in Int
    BY <1>1
  <2>3. Place(sp + a) = Place(sp + b)
    BY <2>1, <2>2, PlaceOfDown DEF CpuTypes
  <2>4. a - b < PageSize /\ b - a < PageSize
    BY <1>1, <2>1
  <2>5. a = b
    BY <2>3, <2>4, PlacesApart DEF CpuTypes
  <2> QED BY <1>1, <2>1, <2>5
<1>7. stack' = [a \in DOMAIN stack \cup cells |->
                    IF a \in cells
                    THEN bytes[CHOOSE i \in DOMAIN bytes : Down(sp, i - 1) = a]
                    ELSE stack[a]]
  BY <1>1 DEF Push
<1>8. \A i \in 1 .. n : (CHOOSE j \in DOMAIN bytes : Down(sp, j - 1) = Down(sp, i - 1)) = i
  BY <1>1, <1>6
<1> HIDE DEF n, cells
<1>9. DOMAIN stack' = DOMAIN stack \cup cells
  BY <1>7
<1>10. \A i \in 1 .. n : Down(sp, i - 1) \in cells
  BY DEF cells
<1>11. \A a \in cells : \E i \in 1 .. n : a = Down(sp, i - 1)
  BY DEF cells
<1>12. \A i \in 1 .. n : Down(sp, i - 1) \in DOMAIN stack' /\ stack'[Down(sp, i - 1)] = bytes[i]
  BY <1>7, <1>8, <1>9, <1>10
<1>13. \A a \in DOMAIN stack : a \in DOMAIN stack' /\ stack'[a] = stack[a]
  BY <1>5, <1>7, <1>9
<1>14. stack' \in [DOMAIN stack' -> StackByte]
  <2>1. \A i \in 1 .. n : bytes[i] \in StackByte
    BY <1>1 DEF n
  <2>2. \A a \in DOMAIN stack' : stack'[a] \in StackByte
    BY <1>9, <1>11, <1>12, <1>13, <2>1 DEF CpuTypes
  <2>3. stack' = [a \in DOMAIN stack' |-> stack'[a]]
    BY <1>7, <1>9
  <2> QED BY <2>2, <2>3
<1>15. Depth' = Depth + n /\ IsFiniteSet(DOMAIN stack')
  <2>1. IsFiniteSet(DOMAIN stack \cup cells)
        /\ Cardinality(DOMAIN stack \cup cells)
             = Cardinality(DOMAIN stack) + n - Cardinality(DOMAIN stack \cap cells)
    BY <1>3, FS_Union DEF OnStack
  <2>2. Cardinality(DOMAIN stack \cap cells) = 0
    BY <1>5, FS_EmptySet
  <2> QED BY <1>1, <1>9, <2>1, <2>2 DEF Depth
<1>16. sp' = Moved(e, sp, -n) /\ sp' \in Sp /\ Place(sp') = Place(sp + (-n))
  <2>1. -n \in Int
    BY <1>1
  <2>2. sp' = Down(sp, n)
    BY DEF Push, n
  <2> QED BY <1>1, <2>1, <2>2, UpDown, MovedIn DEF CpuTypes
<1>17. \A a \in DOMAIN stack' : \E i \in 1 .. Depth + n : Place(a) = Place(sp' + i)
  <2> SUFFICES ASSUME NEW a \in DOMAIN stack'
               PROVE  \E i \in 1 .. Depth + n : Place(a) = Place(sp' + i)
    OBVIOUS
  <2>1. CASE a \in DOMAIN stack
    <3>1. PICK i \in 1 .. Depth : Place(a) = Place(sp + i)
      BY <2>1 DEF OnStack
    <3>2. PICK j \in Int, m \in Int : j = i + n /\ m = -n
      BY <1>1, <3>1
    <3>3. Place(sp' + j) = Place(sp + (m + j))
      BY <1>16, <3>2, Relative DEF CpuTypes
    <3>4. m + j = i /\ j \in 1 .. Depth + n
      BY <1>1, <3>1, <3>2
    <3> QED BY <3>1, <3>3, <3>4
  <2>2. CASE a \in cells
    <3>1. PICK i \in 1 .. n : a = Down(sp, i - 1)
      BY <1>11, <2>2
    <3>2. PICK j \in Int, m \in Int, l \in Int : j = n - i + 1 /\ m = -n /\ l = -(i - 1)
      BY <1>1, <3>1
    <3>3. Place(sp' + j) = Place(sp + (m + j))
      BY <1>16, <3>2, Relative DEF CpuTypes
    <3>4. m + j = l /\ j \in 1 .. Depth + n
      BY <1>1, <3>1, <3>2
    <3>5. Place(a) = Place(sp + l)
      <4>1. i - 1 \in Int
        BY <1>1
      <4> QED BY <3>1, <3>2, <4>1, PlaceOfDown DEF CpuTypes
    <3> QED BY <3>3, <3>4, <3>5
  <2> QED BY <1>9, <2>1, <2>2
<1>18. \A a, b \in DOMAIN stack' : Place(a) = Place(b) => a = b
  <2> SUFFICES ASSUME NEW a \in DOMAIN stack', NEW b \in DOMAIN stack', Place(a) = Place(b)
               PROVE  a = b
    OBVIOUS
  <2>1. ASSUME NEW c \in cells, NEW d \in DOMAIN stack, Place(c) = Place(d) PROVE FALSE
    <3>1. PICK i \in 1 .. n : c = Down(sp, i - 1)
      BY <1>11, <2>1
    <3>2. PICK j \in 1 .. Depth : Place(d) = Place(sp + j)
      BY <2>1 DEF OnStack
    <3>3. PICK l \in Int : l = -(i - 1)
      BY <1>1, <3>1
    <3>4. Place(c) = Place(sp + l)
      <4>1. i - 1 \in Int
        BY <1>1
      <4> QED BY <3>1, <3>3, <4>1, PlaceOfDown DEF CpuTypes
    <3>5. l - j < PageSize /\ j - l < PageSize /\ l # j
      BY <1>1, <3>1, <3>2, <3>3
    <3> QED BY <1>1, <2>1, <3>2, <3>4, <3>5, PlacesApart DEF CpuTypes
  <2>2. CASE a \in cells /\ b \in cells
    <3>1. PICK i \in 1 .. n, j \in 1 .. n : a = Down(sp, i - 1) /\ b = Down(sp, j - 1)
      BY <1>11, <2>2
    <3>2. PICK l \in Int, m \in Int : l = -(i - 1) /\ m = -(j - 1)
      BY <1>1, <3>1
    <3>3. Place(a) = Place(sp + l) /\ Place(b) = Place(sp + m)
      <4>1. i - 1 \in Int /\ j - 1 \in Int
        BY <1>1
      <4> QED BY <3>1, <3>2, <4>1, PlaceOfDown DEF CpuTypes
    <3>4. l - m < PageSize /\ m - l < PageSize
      BY <1>1, <3>1, <3>2
    <3>5. l = m
      BY <3>2, <3>3, <3>4, PlacesApart DEF CpuTypes
    <3> QED BY <1>1, <3>1, <3>2, <3>5
  <2> QED BY <1>9, <2>1, <2>2 DEF OnStack
<1> QED BY <1>1, <1>5, <1>9, <1>12, <1>13, <1>14, <1>15, <1>16, <1>17, <1>18 DEF OnStack, n

\* Pulls leave the bytes above them.
LEMMA PullKeeps ==
    ASSUME CpuTypes, OnStack(sp), NEW n \in 0 .. Depth,
           \A i \in 1 .. n : Up(sp, i) \in DOMAIN stack, Pull(n)
    PROVE  /\ sp' \in Sp /\ sp' = Up(sp, n) /\ Place(sp') = Place(sp + n)
           /\ stack' \in [DOMAIN stack' -> StackByte]
           /\ OnStack(sp)' /\ Depth' = Depth - n
           /\ \A a \in DOMAIN stack : \A i \in n + 1 .. Depth :
                 Place(a) = Place(sp + i) => a \in DOMAIN stack' /\ stack'[a] = stack[a]
<1> USE StackSizes
<1> DEFINE cells == {Up(sp, i) : i \in 1 .. n}
<1>1. Depth \in Nat /\ Depth < PageSize /\ n \in Nat /\ n <= Depth
  BY FS_CardinalityType DEF OnStack, Depth
<1>2. \A i \in 1 .. n : Up(sp, i) \in Sp /\ Place(Up(sp, i)) = Place(sp + i)
  <2> SUFFICES ASSUME NEW i \in 1 .. n PROVE Up(sp, i) \in Sp /\ Place(Up(sp, i)) = Place(sp + i)
    OBVIOUS
  <2>1. i \in Int
    BY <1>1
  <2> QED BY <2>1, PlaceOfUp DEF CpuTypes
<1>3. \A i, j \in 1 .. Depth : Place(sp + i) = Place(sp + j) => i = j
  <2> SUFFICES ASSUME NEW i \in 1 .. Depth, NEW j \in 1 .. Depth, Place(sp + i) = Place(sp + j)
               PROVE  i = j
    OBVIOUS
  <2>1. i \in Int /\ j \in Int /\ i - j < PageSize /\ j - i < PageSize
    BY <1>1
  <2> QED BY <2>1, PlacesApart DEF CpuTypes
<1>4. IsFiniteSet(cells) /\ Cardinality(cells) = n
  <2> DEFINE f == [i \in 1 .. n |-> Up(sp, i)]
  <2>1. \A i, j \in 1 .. n : f[i] = f[j] => i = j
    BY <1>1, <1>2, <1>3
  <2>2. f \in Bijection(1 .. n, cells)
    BY <2>1 DEF Bijection, Injection, Surjection, IsInjective
  <2>3. ExistsBijection(1 .. n, cells)
    BY <2>2 DEF ExistsBijection
  <2>4. IsFiniteSet(1 .. n) /\ Cardinality(1 .. n) = n
    BY <1>1, FS_Interval
  <2> HIDE DEF cells
  <2> QED BY <2>3, <2>4, FS_Bijection
<1>5. stack' = [a \in DOMAIN stack \ cells |-> stack[a]]
  BY DEF Pull
<1>6. \A a \in cells : \E i \in 1 .. n : a = Up(sp, i)
  OBVIOUS
<1>7. cells \subseteq DOMAIN stack
  OBVIOUS
<1>8. \A i \in 1 .. n : Up(sp, i) \in cells
  OBVIOUS
<1> HIDE DEF cells
<1>9. DOMAIN stack' = DOMAIN stack \ cells
      /\ \A a \in DOMAIN stack' : a \in DOMAIN stack /\ stack'[a] = stack[a]
  BY <1>5
<1>10. stack' \in [DOMAIN stack' -> StackByte]
  <2>1. \A a \in DOMAIN stack' : stack'[a] \in StackByte
    BY <1>9 DEF CpuTypes
  <2>2. stack' = [a \in DOMAIN stack' |-> stack'[a]]
    BY <1>5, <1>9
  <2> QED BY <2>1, <2>2
<1>11. IsFiniteSet(DOMAIN stack') /\ Depth' = Depth - n
  <2>1. IsFiniteSet(DOMAIN stack \ cells)
        /\ Cardinality(DOMAIN stack \ cells)
             = Cardinality(DOMAIN stack) - Cardinality(DOMAIN stack \cap cells)
    BY FS_Difference DEF OnStack
  <2>2. DOMAIN stack \cap cells = cells
    BY <1>7
  <2> QED BY <1>4, <1>9, <2>1, <2>2 DEF Depth
<1>12. sp' \in Sp /\ sp' = Up(sp, n) /\ Place(sp') = Place(sp + n)
  <2>1. n \in Int /\ sp' = Up(sp, n)
    BY <1>1 DEF Pull
  <2> QED BY <2>1, PlaceOfUp DEF CpuTypes
<1>13. \A a \in DOMAIN stack' : \E i \in 1 .. Depth - n : Place(a) = Place(sp' + i)
  <2> SUFFICES ASSUME NEW a \in DOMAIN stack'
               PROVE  \E i \in 1 .. Depth - n : Place(a) = Place(sp' + i)
    OBVIOUS
  <2>1. PICK i \in 1 .. Depth : Place(a) = Place(sp + i)
    BY <1>9 DEF OnStack
  <2>2. ASSUME i <= n PROVE FALSE
    <3>1. i \in 1 .. n
      BY <1>1, <2>1, <2>2
    <3>2. Place(a) = Place(Up(sp, i)) /\ Up(sp, i) \in DOMAIN stack
      BY <1>2, <2>1, <3>1
    <3>3. a = Up(sp, i)
      BY <1>9, <3>2 DEF OnStack
    <3> QED BY <1>8, <1>9, <3>1, <3>3
  <2>3. PICK j \in Int : j = i - n
    BY <1>1, <2>1
  <2>4. Place(sp' + j) = Place(sp + (n + j))
    BY <1>1, <1>12, <2>3, Relative DEF CpuTypes
  <2>5. n + j = i /\ j \in 1 .. Depth - n
    BY <1>1, <2>1, <2>2, <2>3
  <2> QED BY <2>1, <2>4, <2>5
<1>14. \A a \in DOMAIN stack : \A i \in n + 1 .. Depth :
          Place(a) = Place(sp + i) => a \in DOMAIN stack' /\ stack'[a] = stack[a]
  <2> SUFFICES ASSUME NEW a \in DOMAIN stack, NEW i \in n + 1 .. Depth, Place(a) = Place(sp + i)
               PROVE  a \notin cells
    BY <1>9
  <2> SUFFICES ASSUME a \in cells PROVE FALSE
    OBVIOUS
  <2>1. PICK j \in 1 .. n : a = Up(sp, j)
    BY <1>6
  <2>2. Place(sp + j) = Place(sp + i)
    BY <1>2, <2>1
  <2>3. i = j
    BY <1>1, <1>3, <2>2
  <2> QED BY <1>1, <2>3
<1> QED
  <2>1. \A a, b \in DOMAIN stack' : Place(a) = Place(b) => a = b
    BY <1>9 DEF OnStack
  <2>2. DOMAIN stack' \in SUBSET Sp
    BY <1>9 DEF OnStack
  <2>3. Depth' <= MaxDepth
    BY <1>1, <1>11 DEF OnStack
  <2>4. OnStack(sp)'
    BY <1>11, <1>13, <2>1, <2>2, <2>3 DEF OnStack
  <2> QED BY <1>10, <1>11, <1>12, <1>14, <2>4

-----------------------------------------------------------------------------
(* Frames. *)

\* A frame stays as long as its bytes do and sp moves with the depth.
LEMMA FrameStays ==
    ASSUME NEW f \in Frame, FrameHolds(f),
           \A i \in 1 .. Bytes(f) :
              LET a == Moved(f.e, f.sp, i) IN a \in DOMAIN stack' /\ stack'[a] = stack[a],
           f.depth <= Depth', Place(sp' + Depth') = Place(sp + Depth)
    PROVE  FrameHolds(f)'
<1>1. f.e \in BOOLEAN /\ 1 \in 1 .. Bytes(f) /\ 2 \in 1 .. Bytes(f) /\ 3 \in 1 .. Bytes(f)
      /\ (~ f.e => 4 \in 1 .. Bytes(f))
  BY DEF Frame, Bytes
<1>2. \A b : (Has(f, 1, b) => Has(f, 1, b)') /\ (Has(f, 2, b) => Has(f, 2, b)')
             /\ (Has(f, 3, b) => Has(f, 3, b)') /\ (~ f.e /\ Has(f, 4, b) => Has(f, 4, b)')
  BY <1>1 DEF Has
<1>3. HasStatus(f) => HasStatus(f)'
  BY <1>1, <1>2 DEF HasStatus
<1>4. Kept(f)'
  BY <1>2, <1>3 DEF FrameHolds, Kept
<1> QED BY <1>4 DEF FrameHolds

\* The bytes of a frame lie Depth - f.depth places above the stack pointer.
LEMMA FrameBytes ==
    ASSUME CpuTypes, OnStack(sp), NEW f \in Frame, FrameHolds(f), NEW i \in 1 .. Bytes(f)
    PROVE  /\ Moved(f.e, f.sp, i) \in DOMAIN stack
           /\ Place(Moved(f.e, f.sp, i)) = Place(sp + (Depth - f.depth + i))
           /\ Depth - f.depth + i <= Depth
<1> USE StackSizes
<1>1. Depth \in Nat /\ f.depth \in Nat /\ f.sp \in Sp /\ f.e \in BOOLEAN /\ Bytes(f) \in {3, 4}
      /\ f.depth <= Depth /\ Bytes(f) <= f.depth /\ i \in Int /\ i <= Bytes(f)
  BY FS_CardinalityType DEF OnStack, Depth, Frame, FrameHolds, Bytes
<1>2. Moved(f.e, f.sp, i) \in DOMAIN stack
  <2>1. i \in {1, 2, 3} \/ (i = 4 /\ ~ f.e)
    BY <1>1 DEF Bytes
  <2> QED BY <2>1 DEF FrameHolds, Kept, HasStatus, Has
<1>3. Place(Moved(f.e, f.sp, i)) = Place(f.sp + i)
  BY <1>1, MovedIn
<1>4. PICK m \in Int : m = i - f.depth
  BY <1>1
<1>5. PICK a \in Int, b \in Int : a = f.sp + f.depth /\ b = sp + Depth
  BY <1>1 DEF CpuTypes
<1>6. (a + m) % PageSize = (b + m) % PageSize
  <2>1. a % PageSize = b % PageSize
    BY <1>5 DEF FrameHolds, Place
  <2> QED BY <2>1, RemainderShift
<1>7. a + m = f.sp + i /\ b + m = sp + (Depth - f.depth + i)
  <2>1. PICK x \in Int, y \in Int, s \in Int, d \in Int :
          x = f.sp /\ y = f.depth /\ s = sp /\ d = Depth
    BY <1>1 DEF CpuTypes
  <2>2. m = i - y /\ a = x + y /\ b = s + d
    BY <1>4, <1>5, <2>1
  <2>3. a + m = x + i /\ b + m = s + (d - y + i)
    BY <1>1, <2>1, <2>2
  <2> QED BY <2>1, <2>3
<1>8. Place(f.sp + i) = Place(sp + (Depth - f.depth + i))
  BY <1>6, <1>7 DEF Place
<1> QED BY <1>1, <1>2, <1>3, <1>8

-----------------------------------------------------------------------------
(* Steps. *)

LEMMA FrameIn ==
    ASSUME CpuTypes, FramesHold, NEW j \in 1 .. Len(frames)
    PROVE  frames[j] \in Frame /\ FrameHolds(frames[j])
BY DEF CpuTypes, FramesHold

\* Frames stay where no byte of theirs changes.
LEMMA FramesStay ==
    ASSUME CpuTypes, FramesHold, frames' = frames,
           \A f \in Frame : FrameHolds(f) /\ (\E j \in 1 .. Len(frames) : f = frames[j]) => FrameHolds(f)'
    PROVE  FramesHold'
<1>1. \A j \in 1 .. Len(frames) : FrameHolds(frames[j])'
  <2> SUFFICES ASSUME NEW j \in 1 .. Len(frames) PROVE FrameHolds(frames[j])'
    OBVIOUS
  <2>1. PICK f \in Frame : f = frames[j] /\ FrameHolds(f)
    BY FrameIn
  <2>2. FrameHolds(f)'
    BY <2>1
  <2>3. f = frames'[j]
    BY <2>1
  <2> QED BY <2>1, <2>2, <2>3
<1> QED BY <1>1 DEF FramesHold

\* The program's own bytes lie below every frame.
LEMMA DepthsBelow ==
    ASSUME CpuTypes, FramesHold, NEW j \in 1 .. Len(frames)
    PROVE  frames[j].depth <= Others
<1> DEFINE n == Len(frames)
<1>1. n \in Nat /\ frames # << >> /\ n \in 1 .. n /\ j \in 1 .. n
  BY DEF CpuTypes
<1>2. Others = frames[n].depth
  BY <1>1 DEF Others
<1> HIDE DEF n
<1>3. PICK f \in Frame, g \in Frame : f = frames[j] /\ g = frames[n]
  BY <1>1, FrameIn DEF n
<1>4. j < n => f.depth + Bytes(g) <= g.depth
  BY <1>1, <1>3 DEF FramesHold, n
<1>5. Bytes(g) \in {3, 4} /\ f.depth \in Nat /\ g.depth \in Nat
  BY DEF Bytes, Frame
<1> QED BY <1>1, <1>2, <1>3, <1>4, <1>5

LEMMA StillKeeps ==
    ASSUME StackInv, UNCHANGED <<sp, stack, frames>>
    PROVE  OnStack(sp)' /\ FramesHold'
BY DEF StackInv, OnStack, FramesHold, FrameHolds, Kept, HasStatus, Has, Depth

\* The stack pointer may go anywhere while nothing is on the stack.
LEMMA EmptyKeeps ==
    ASSUME StackInv, Depth = 0, sp' \in Sp, UNCHANGED <<stack, frames>>
    PROVE  OnStack(sp)' /\ FramesHold'
<1>1. DOMAIN stack = {}
  BY FS_EmptySet DEF StackInv, OnStack, Depth
<1>2. Depth' = Depth
  BY DEF Depth
<1>3. OnStack(sp)'
  BY <1>1, <1>2 DEF StackInv, OnStack
<1>4. ASSUME NEW j \in 1 .. Len(frames) PROVE FALSE
  <2>1. PICK f \in Frame : f = frames[j] /\ FrameHolds(f)
    BY FrameIn DEF StackInv
  <2>2. Has(f, 2, Byte("half", f.pc % Low))
    BY <2>1 DEF FrameHolds, Kept
  <2> QED BY <1>1, <2>2 DEF Has
<1>5. FramesHold'
  BY <1>4 DEF FramesHold, StackInv
<1> QED BY <1>3, <1>5

\* The depth and the stack pointer move against each other.
LEMMA PlaceOfBottom ==
    ASSUME NEW s \in Sp, NEW t \in Sp, NEW n \in Int, NEW d \in Nat, Place(t) = Place(s + n)
    PROVE  Place(t + (d - n)) = Place(s + d)
<1>1. PICK i \in Int : i = d - n
  OBVIOUS
<1>2. Place(t + i) = Place(s + (n + i))
  BY Relative
<1>3. n + i = d
  BY <1>1
<1> QED BY <1>1, <1>2, <1>3

LEMMA PushStep ==
    ASSUME StackInv, NEW bytes \in Seq(StackByte), Room(Len(bytes)), Push(bytes)
    PROVE  /\ sp' \in Sp /\ stack' \in [DOMAIN stack' -> StackByte]
           /\ OnStack(sp)'
           /\ \A f \in Frame : FrameHolds(f) => FrameHolds(f)'
<1>1. CpuTypes /\ OnStack(sp) /\ sp \in Sp /\ e \in BOOLEAN
  BY DEF StackInv, CpuTypes
<1>2. /\ sp' \in Sp /\ sp' = Moved(e, sp, -Len(bytes))
      /\ stack' \in [DOMAIN stack' -> StackByte]
      /\ OnStack(sp)' /\ Depth' = Depth + Len(bytes)
      /\ \A a \in DOMAIN stack : a \in DOMAIN stack' /\ stack'[a] = stack[a]
  BY <1>1, PushKeeps
<1>3. PICK n \in Nat, d \in Nat, m \in Int : n = Len(bytes) /\ d = Depth /\ m = -n
  BY <1>1, FS_CardinalityType DEF OnStack, Depth
<1>4. Place(sp' + Depth') = Place(sp + Depth)
  <2>1. Place(sp') = Place(sp + m)
    BY <1>1, <1>2, <1>3, MovedIn
  <2>2. Place(sp' + (d - m)) = Place(sp + d)
    BY <1>1, <1>2, <2>1, PlaceOfBottom
  <2>3. d - m = Depth'
    BY <1>2, <1>3
  <2> QED BY <1>3, <2>2, <2>3
<1>5. ASSUME NEW f \in Frame, FrameHolds(f) PROVE FrameHolds(f)'
  <2>1. \A i \in 1 .. Bytes(f) :
           LET a == Moved(f.e, f.sp, i) IN a \in DOMAIN stack' /\ stack'[a] = stack[a]
    BY <1>1, <1>2, <1>5, FrameBytes
  <2>2. f.depth <= Depth'
    BY <1>2, <1>3, <1>5 DEF Frame, FrameHolds
  <2> QED BY <1>4, <1>5, <2>1, <2>2, FrameStays
<1> QED BY <1>2, <1>5

LEMMA PullStep ==
    ASSUME StackInv, NEW n \in 0 .. Depth,
           \A i \in 1 .. n : Up(sp, i) \in DOMAIN stack, Pull(n)
    PROVE  /\ sp' \in Sp /\ stack' \in [DOMAIN stack' -> StackByte]
           /\ OnStack(sp)' /\ Depth' = Depth - n /\ Depth \in Nat
           /\ \A f \in Frame : FrameHolds(f) /\ f.depth + n <= Depth => FrameHolds(f)'
<1>1. CpuTypes /\ OnStack(sp) /\ sp \in Sp /\ e \in BOOLEAN
  BY DEF StackInv, CpuTypes
<1>2. PICK d \in Nat, m \in Nat : d = Depth /\ m = n /\ m <= d
  BY <1>1, FS_CardinalityType DEF OnStack, Depth
<1>3. /\ sp' \in Sp /\ Place(sp') = Place(sp + n)
      /\ stack' \in [DOMAIN stack' -> StackByte]
      /\ OnStack(sp)' /\ Depth' = Depth - n
      /\ \A a \in DOMAIN stack : \A i \in n + 1 .. Depth :
            Place(a) = Place(sp + i) => a \in DOMAIN stack' /\ stack'[a] = stack[a]
  BY <1>1, PullKeeps
<1>4. Place(sp' + Depth') = Place(sp + Depth)
  <2>1. Place(sp' + (d - m)) = Place(sp + d)
    BY <1>1, <1>2, <1>3, PlaceOfBottom
  <2> QED BY <1>2, <1>3, <2>1
<1>5. ASSUME NEW f \in Frame, FrameHolds(f), f.depth + n <= Depth PROVE FrameHolds(f)'
  <2>1. ASSUME NEW i \in 1 .. Bytes(f)
        PROVE  LET a == Moved(f.e, f.sp, i) IN a \in DOMAIN stack' /\ stack'[a] = stack[a]
    <3>1. PICK a \in DOMAIN stack : a = Moved(f.e, f.sp, i)
                                    /\ Place(a) = Place(sp + (Depth - f.depth + i))
      BY <1>1, <1>5, FrameBytes
    <3>2. PICK x \in Int, j \in Int : x = f.depth /\ j = d - x + i
      BY <1>5 DEF Frame, Bytes
    <3>3. i \in 1 .. 4 /\ i <= x /\ x + m <= d
      BY <1>2, <1>5, <3>2 DEF FrameHolds, Bytes
    <3>4. j \in n + 1 .. Depth
      BY <1>2, <3>2, <3>3
    <3>5. Place(a) = Place(sp + j)
      BY <1>2, <3>1, <3>2
    <3> QED BY <1>3, <3>1, <3>4, <3>5
  <2>2. f.depth <= Depth'
    BY <1>2, <1>3, <1>5 DEF Frame
  <2> QED BY <1>4, <1>5, <2>1, <2>2, FrameStays
<1> QED BY <1>2, <1>3, <1>5

LEMMA ByteTypes ==
    /\ \A v \in Nat : Byte("half", v) \in StackByte /\ Byte("data", v) \in StackByte
    /\ \A v \in SUBSET Flags : Byte("status", v) \in StackByte
    /\ \A v \in Banks : Byte("bank", v) \in StackByte
<1>1. \A v \in Nat : Byte("half", v) \in [kind : {"data", "half"}, v : Nat]
                     /\ Byte("data", v) \in [kind : {"data", "half"}, v : Nat]
  BY DEF Byte
<1>2. \A v \in SUBSET Flags : Byte("status", v) \in [kind : {"status"}, v : SUBSET Flags]
  BY DEF Byte
<1>3. \A v \in Banks : Byte("bank", v) \in [kind : {"bank"}, v : Banks]
  BY DEF Byte
<1> QED BY <1>1, <1>2, <1>3 DEF StackByte

\* What an interrupt pushes.
SavedAs(bytes, ret, status) ==
    /\ bytes \in Seq(StackByte)
    /\ e => /\ Len(bytes) = 3
            /\ \/ bytes[3] = Byte("status", status \cup {"X"})
               \/ bytes[3] = Byte("status", status \ {"X"})
            /\ bytes[2] = Byte("half", ret % Low) /\ bytes[1] = Byte("half", ret \div Low)
    /\ ~ e => /\ Len(bytes) = 4
              /\ bytes[4] = Byte("status", status) /\ bytes[1] = Byte("bank", k)
              /\ bytes[3] = Byte("half", ret % Low) /\ bytes[2] = Byte("half", ret \div Low)

LEMMA SavedBytes ==
    ASSUME CpuTypes, NEW kind, NEW ret \in Pc, NEW status \in SUBSET Flags,
           NEW bytes, bytes = Saved(kind, ret, status)
    PROVE  SavedAs(bytes, ret, status)
<1> USE DEF SavedAs
<1>1. PICK hi, lo : hi = Byte("half", ret \div Low) /\ lo = Byte("half", ret % Low)
                    /\ hi \in StackByte /\ lo \in StackByte
  <2>1. ret \in Nat /\ Low \in Nat \ {0}
    <3>1. High \in Nat /\ Low \in Nat \ {0}
      BY CpuAssumption
    <3>2. High * Low \in Int
      BY <3>1
    <3>3. ret \in 0 .. (High * Low) - 1
      BY DEF Pc, PcSize
    <3> QED BY <3>1, <3>2, <3>3
  <2>2. ret \div Low \in Nat /\ ret % Low \in 0 .. (Low - 1)
    BY <2>1, DivMod
  <2>3. ret % Low \in Nat
    BY <2>1, <2>2
  <2> QED BY <2>2, <2>3, ByteTypes
<1>2. PICK st : /\ st = Byte("status", IF e THEN IF kind = "brk" THEN status \cup {"X"}
                                                ELSE status \ {"X"}
                                      ELSE status)
                /\ st \in StackByte
  <2>1. status \cup {"X"} \in SUBSET Flags /\ status \ {"X"} \in SUBSET Flags
    BY DEF Flags
  <2> QED BY <2>1, ByteTypes
<1>3. PICK bk : bk = Byte("bank", k) /\ bk \in StackByte
  BY ByteTypes DEF CpuTypes
<1>4. /\ e => (\/ st = Byte("status", status \cup {"X"}) \/ st = Byte("status", status \ {"X"}))
      /\ ~ e => st = Byte("status", status)
  BY <1>2
<1>5. PcBytes(ret) = <<hi, lo>>
  BY <1>1 DEF PcBytes
<1>6. CASE e
  <2>1. bytes = <<hi, lo>> \o <<st>>
    <3>1. Saved(kind, ret, status)
            = PcBytes(ret) \o <<Byte("status", IF kind = "brk" THEN status \cup {"X"}
                                               ELSE status \ {"X"})>>
      BY <1>6 DEF Saved
    <3>2. st = Byte("status", IF kind = "brk" THEN status \cup {"X"} ELSE status \ {"X"})
      BY <1>2, <1>6
    <3> QED BY <1>5, <3>1, <3>2
  <2>2. /\ bytes \in Seq(StackByte) /\ Len(bytes) = 3
        /\ bytes[1] = hi /\ bytes[2] = lo /\ bytes[3] = st
    <3>1. /\ <<hi, lo>> \in Seq(StackByte) /\ Len(<<hi, lo>>) = 2
          /\ <<st>> \in Seq(StackByte) /\ Len(<<st>>) = 1
      BY <1>1, <1>2
    <3> QED BY <2>1, <3>1
  <2> QED BY <1>1, <1>2, <1>4, <1>6, <2>2
<1>7. CASE ~ e
  <2>1. bytes = (<<bk>> \o <<hi, lo>>) \o <<st>>
    <3>1. Saved(kind, ret, status)
            = (<<Byte("bank", k)>> \o PcBytes(ret)) \o <<Byte("status", status)>>
      BY <1>7 DEF Saved
    <3> QED BY <1>3, <1>4, <1>5, <1>7, <3>1
  <2>2. /\ bytes \in Seq(StackByte) /\ Len(bytes) = 4
        /\ bytes[1] = bk /\ bytes[2] = hi /\ bytes[3] = lo /\ bytes[4] = st
    <3>1. /\ <<hi, lo>> \in Seq(StackByte) /\ Len(<<hi, lo>>) = 2
          /\ <<st>> \in Seq(StackByte) /\ Len(<<st>>) = 1
          /\ <<bk>> \in Seq(StackByte) /\ Len(<<bk>>) = 1
      BY <1>1, <1>2, <1>3
    <3>4. <<bk>> \o <<hi, lo>> \in Seq(StackByte)
      BY <3>1
    <3>2. PICK t \in Seq(StackByte) : t = <<bk>> \o <<hi, lo>>
      BY <3>4
    <3>3. Len(t) = 3 /\ t[1] = bk /\ t[2] = hi /\ t[3] = lo
      BY <3>1, <3>2
    <3> QED BY <2>1, <3>1, <3>2, <3>3
  <2> QED BY <1>1, <1>2, <1>3, <1>4, <1>7, <2>2
<1> QED BY <1>6, <1>7

\* An interrupt adds a frame.
LEMMA InterruptKeeps ==
    ASSUME StackInv, NEW kind \in Kinds, NEW ret \in Pc, NEW status \in SUBSET Flags,
           e => Widths \subseteq status, Interrupt(kind, ret, status)
    PROVE  CpuTypes' /\ OnStack(sp)' /\ FramesHold'
<1>0. PICK bytes, n : bytes = Saved(kind, ret, status) /\ n = Len(bytes)
  OBVIOUS
<1>1. CpuTypes /\ OnStack(sp) /\ FramesHold /\ sp \in Sp /\ e \in BOOLEAN /\ k \in Banks
      /\ frames \in Seq(Frame)
  BY DEF StackInv, CpuTypes
<1>2. /\ bytes \in Seq(StackByte) /\ n = IF e THEN 3 ELSE 4
      /\ e => (\/ bytes[n] = Byte("status", status \cup {"X"})
               \/ bytes[n] = Byte("status", status \ {"X"}))
      /\ ~ e => bytes[n] = Byte("status", status) /\ bytes[1] = Byte("bank", k)
      /\ bytes[n - 1] = Byte("half", ret % Low) /\ bytes[n - 2] = Byte("half", ret \div Low)
  <2>1. SavedAs(bytes, ret, status)
    BY <1>0, <1>1, SavedBytes
  <2>2. CASE e
    <3>1. n = 3 /\ bytes \in Seq(StackByte)
          /\ (\/ bytes[3] = Byte("status", status \cup {"X"})
              \/ bytes[3] = Byte("status", status \ {"X"}))
      BY <1>0, <2>1, <2>2 DEF SavedAs
    <3>2. bytes[2] = Byte("half", ret % Low) /\ bytes[1] = Byte("half", ret \div Low)
      BY <1>0, <2>1, <2>2 DEF SavedAs
    <3>3. n - 1 = 2 /\ n - 2 = 1
      BY <3>1
    <3> QED BY <2>2, <3>1, <3>2, <3>3
  <2>3. CASE ~ e
    <3>1. n = 4 /\ bytes \in Seq(StackByte)
          /\ bytes[4] = Byte("status", status) /\ bytes[1] = Byte("bank", k)
      BY <1>0, <2>1, <2>3 DEF SavedAs
    <3>2. bytes[3] = Byte("half", ret % Low) /\ bytes[2] = Byte("half", ret \div Low)
      BY <1>0, <2>1, <2>3 DEF SavedAs
    <3>3. n - 1 = 3 /\ n - 2 = 2
      BY <3>1
    <3> QED BY <2>3, <3>1, <3>2, <3>3
  <2> QED BY <2>2, <2>3
<1>3. Room(n) /\ Push(bytes)
      /\ frames' = Append(frames, [pc |-> ret, k |-> k, p |-> status, e |-> e, sp |-> sp',
                                   depth |-> Depth + n])
      /\ k' = 0 /\ p' = (status \cup {"I"}) \ {"D"} /\ UNCHANGED e
      /\ pc' = Vectors[<<e, IF e /\ kind = "brk" THEN "irq" ELSE kind>>]
  BY <1>0 DEF Interrupt
<1>4. /\ sp' \in Sp /\ sp' = Moved(e, sp, -n)
      /\ stack' \in [DOMAIN stack' -> StackByte]
      /\ OnStack(sp)' /\ Depth' = Depth + n
      /\ \A i \in 1 .. n : LET a == Down(sp, i - 1)
                           IN  a \in DOMAIN stack' /\ stack'[a] = bytes[i]
      /\ \A f \in Frame : FrameHolds(f) => FrameHolds(f)'
  BY <1>0, <1>1, <1>2, <1>3, PushKeeps, PushStep
<1>5. Depth \in Nat /\ n \in {3, 4} /\ Depth + n \in Nat
  <2>1. Depth \in Nat
    BY <1>1, FS_CardinalityType DEF OnStack, Depth
  <2>2. n \in {3, 4}
    BY <1>2
  <2> QED BY <2>1, <2>2
<1>6. PICK g \in Frame : g = [pc |-> ret, k |-> k, p |-> status, e |-> e, sp |-> sp',
                              depth |-> Depth + n]
  BY <1>1, <1>2, <1>4, <1>5 DEF Frame
<1>7. Bytes(g) = n /\ g.depth = Depth' /\ g.sp = sp' /\ g.e = e /\ g.p = status /\ g.pc = ret
      /\ g.k = k /\ n \in {3, 4}
  BY <1>1, <1>2, <1>4, <1>6 DEF Bytes
<1>8. \A i \in 1 .. n : \A b : b = bytes[n + 1 - i] => Has(g, i, b)'
  <2> SUFFICES ASSUME NEW i \in 1 .. n
               PROVE  Moved(e, sp', i) \in DOMAIN stack' /\ stack'[Moved(e, sp', i)] = bytes[n + 1 - i]
    BY <1>7 DEF Has
  <2>1. PICK j \in 1 .. n, m \in Int, l \in Int : j = n + 1 - i /\ m = -n /\ l = m + i
    BY <1>7
  <2>2. Moved(e, sp', i) = Moved(e, sp, l)
    <3>1. i \in Int
      BY <1>7
    <3> QED BY <1>1, <1>4, <2>1, <3>1, MovedTwice
  <2>3. Moved(e, sp, l) = Down(sp, j - 1)
    <3>1. PICK c \in Int : c = j - 1
      BY <1>7, <2>1
    <3>2. l = -c
      BY <1>7, <2>1, <3>1
    <3>3. Down(sp, c) = Moved(e, sp, -c)
      BY <1>1, UpDown
    <3> QED BY <3>1, <3>2, <3>3
  <2> QED BY <1>4, <2>1, <2>2, <2>3
<1>9. Kept(g)'
  <2>1. PICK s1, s2, s3, s4 :
           s1 = bytes[n] /\ s2 = bytes[n - 1] /\ s3 = bytes[n - 2] /\ s4 = bytes[1]
    OBVIOUS
  <2>2. Has(g, 1, s1)' /\ Has(g, 2, s2)' /\ Has(g, 3, s3)'
    <3>1. 1 \in 1 .. n /\ 2 \in 1 .. n /\ 3 \in 1 .. n
          /\ n + 1 - 1 = n /\ n + 1 - 2 = n - 1 /\ n + 1 - 3 = n - 2
      BY <1>7
    <3> QED BY <1>8, <2>1, <3>1
  <2>3. ~ e => Has(g, 4, s4)'
    <3>1. ~ e => 4 \in 1 .. n /\ n + 1 - 4 = 1
      BY <1>2
    <3> QED BY <1>8, <2>1, <3>1
  <2>4. /\ g.e => s1 = Byte("status", g.p \cup {"X"}) \/ s1 = Byte("status", g.p \ {"X"})
        /\ ~ g.e => s1 = Byte("status", g.p) /\ s4 = Byte("bank", g.k)
        /\ s2 = Byte("half", g.pc % Low) /\ s3 = Byte("half", g.pc \div Low)
    BY <1>2, <1>7, <2>1
  <2>5. HasStatus(g)'
    <3>1. CASE g.e
      BY <2>2, <2>4, <3>1 DEF HasStatus
    <3>2. CASE ~ g.e
      BY <1>7, <2>2, <2>3, <2>4, <3>2 DEF HasStatus
    <3> QED BY <3>1, <3>2
  <2> QED BY <2>2, <2>4, <2>5 DEF Kept
<1>10. FrameHolds(g)'
  <2>1. Bytes(g) <= g.depth /\ g.depth <= Depth'
    BY <1>4, <1>5, <1>7
  <2>2. g.e => Widths \subseteq g.p
    BY <1>7
  <2>3. Place(g.sp + g.depth) = Place(sp' + Depth')
    BY <1>7
  <2> QED BY <1>9, <2>1, <2>2, <2>3 DEF FrameHolds
<1>11. frames' \in Seq(Frame) /\ frames' = Append(frames, g) /\ Len(frames') = Len(frames) + 1
  BY <1>1, <1>3, <1>6
<1>12. \A j \in 1 .. Len(frames') :
          \/ j \in 1 .. Len(frames) /\ frames'[j] = frames[j]
          \/ j = Len(frames) + 1 /\ frames'[j] = g
  BY <1>1, <1>11
<1>13. FramesHold'
  <2>1. \A j \in 1 .. Len(frames') : FrameHolds(frames[j])'
    <3> SUFFICES ASSUME NEW j \in 1 .. Len(frames') PROVE FrameHolds(frames[j])'
      OBVIOUS
    <3>1. CASE j \in 1 .. Len(frames) /\ frames'[j] = frames[j]
      <4>1. PICK f \in Frame : f = frames[j] /\ FrameHolds(f)
        BY <1>1, <3>1, FrameIn
      <4>2. FrameHolds(f)' /\ f = frames'[j]
        BY <1>4, <3>1, <4>1
      <4> QED BY <4>2
    <3>2. CASE frames'[j] = g
      BY <1>10, <3>2
    <3> QED BY <1>12, <3>1, <3>2
  <2>2. ASSUME NEW i \in 1 .. Len(frames'), NEW j \in 1 .. Len(frames'), i < j
        PROVE  frames'[i].depth + Bytes(frames'[j]) <= frames'[j].depth
    <3>1. i \in 1 .. Len(frames) /\ frames'[i] = frames[i]
      BY <1>1, <1>11, <1>12, <2>2
    <3>2. PICK f \in Frame : f = frames[i] /\ FrameHolds(f)
      BY <1>1, <3>1, FrameIn
    <3>3. CASE j \in 1 .. Len(frames) /\ frames'[j] = frames[j]
      BY <1>1, <2>2, <3>1, <3>3 DEF FramesHold
    <3>4. CASE frames'[j] = g
      <4>1. f.depth \in Nat /\ f.depth <= Depth
        BY <3>2 DEF Frame, FrameHolds
      <4> QED BY <1>4, <1>5, <1>7, <3>1, <3>2, <3>4, <4>1
    <3> QED BY <1>12, <3>3, <3>4
  <2> QED BY <2>1, <2>2 DEF FramesHold, Bytes
<1>14. CpuTypes'
  <2>1. pc' \in Pc /\ k' \in Banks
    BY <1>1, <1>3, CpuAssumption DEF Kinds
  <2>2. p' \in SUBSET Flags
    BY <1>3 DEF Flags
  <2> QED BY <1>1, <1>3, <1>4, <1>11, <2>1, <2>2 DEF CpuTypes
<1> QED BY <1>4, <1>13, <1>14

\* What rti pulls is what the interrupt pushed.
LEMMA RtiPulls ==
    ASSUME StackInv, NEW f \in Frame, f = frames[Len(frames)], rti
    PROVE  /\ FrameHolds(f) /\ f.e = e /\ f.sp = sp /\ f.depth = Depth
           /\ Len(frames) \in 1 .. Len(frames)
           /\ \A i \in 1 .. Bytes(f) : Up(sp, i) \in DOMAIN stack
           /\ Pull(Bytes(f)) /\ Bytes(f) \in 0 .. Depth
           /\ UNCHANGED e /\ p' = f.p /\ pc' = f.pc /\ k' = IF e THEN k ELSE f.k
           /\ frames' = SubSeq(frames, 1, Len(frames) - 1)
<1>1. CpuTypes /\ FramesHold /\ OnStack(sp) /\ WidthsHold /\ sp \in Sp /\ e \in BOOLEAN
      /\ frames \in Seq(Frame)
  BY DEF StackInv, CpuTypes
<1>2. /\ frames # << >>
      /\ e = f.e /\ sp = f.sp /\ Depth = f.depth
      /\ \E q \in AsStatus(Pulled(1)), l \in AsHalf(Pulled(2), Low), h \in AsHalf(Pulled(3), High) :
            p' = (IF e THEN q \cup Widths ELSE q) /\ pc' = (Low * h) + l
      /\ IF e THEN Pull(3) /\ k' = k ELSE Pull(4) /\ k' \in AsBank(Pulled(4))
      /\ frames' = SubSeq(frames, 1, Len(frames) - 1) /\ UNCHANGED e
  BY DEF rti
<1>3. Len(frames) \in 1 .. Len(frames)
  BY <1>1, <1>2
<1>4. FrameHolds(f)
  BY <1>1, <1>3, FrameIn
<1>5. \A i \in 1 .. Bytes(f) : Up(sp, i) = Moved(f.e, f.sp, i) /\ Up(sp, i) \in DOMAIN stack
  <2> SUFFICES ASSUME NEW i \in 1 .. Bytes(f)
               PROVE  Up(sp, i) = Moved(f.e, f.sp, i) /\ Up(sp, i) \in DOMAIN stack
    OBVIOUS
  <2>1. i \in Int
    BY DEF Bytes
  <2>2. Up(sp, i) = Moved(f.e, f.sp, i)
    BY <1>1, <1>2, <2>1, UpDown
  <2>3. Moved(f.e, f.sp, i) \in DOMAIN stack
    BY <1>1, <1>4, FrameBytes
  <2> QED BY <2>2, <2>3
<1>6. 1 \in 1 .. Bytes(f) /\ 2 \in 1 .. Bytes(f) /\ 3 \in 1 .. Bytes(f) /\ (~ e => 4 \in 1 .. Bytes(f))
  BY <1>2 DEF Bytes
<1>7. /\ Pulled(2) = Byte("half", f.pc % Low) /\ Pulled(3) = Byte("half", f.pc \div Low)
      /\ e => Pulled(1) \in {Byte("status", f.p \cup {"X"}), Byte("status", f.p \ {"X"})}
      /\ ~ e => Pulled(1) = Byte("status", f.p) /\ Pulled(4) = Byte("bank", f.k)
  <2>1. \A i \in 1 .. Bytes(f) : \A b : Has(f, i, b) => Pulled(i) = b
    BY <1>5 DEF Has, Pulled
  <2>2. Kept(f)
    BY <1>4 DEF FrameHolds
  <2>3. HasStatus(f)
    BY <2>2 DEF Kept
  <2>4. Pulled(2) = Byte("half", f.pc % Low) /\ Pulled(3) = Byte("half", f.pc \div Low)
    BY <1>6, <2>1, <2>2 DEF Kept
  <2>5. CASE e
    BY <1>2, <1>6, <2>1, <2>3, <2>4, <2>5 DEF HasStatus
  <2>6. CASE ~ e
    BY <1>2, <1>6, <2>1, <2>3, <2>4, <2>6 DEF HasStatus
  <2> QED BY <2>5, <2>6
<1>8. PICK q \in AsStatus(Pulled(1)), l \in AsHalf(Pulled(2), Low), h \in AsHalf(Pulled(3), High) :
        p' = (IF e THEN q \cup Widths ELSE q) /\ pc' = (Low * h) + l
  BY <1>2
<1>9. pc' = f.pc
  <2>1. PICK a \in Nat : a = f.pc /\ a < High * Low
    <3>1. High \in Nat /\ Low \in Nat /\ f.pc \in 0 .. (High * Low) - 1
      BY CpuAssumption DEF Frame, Pc, PcSize
    <3> QED BY <3>1
  <2>2. /\ Low \in Nat \ {0} /\ High \in Nat \ {0}
        /\ a \div Low \in Nat /\ a % Low \in 0 .. (Low - 1) /\ a = Low * (a \div Low) + (a % Low)
    BY <2>1, CpuAssumption, DivMod
  <2>3. a \div Low \in 0 .. (High - 1)
    <3>1. a \in 0 .. (Low * High - 1)
      BY <2>1, <2>2
    <3> QED BY <2>2, <3>1, DivBelow
  <2>4. PICK x \in Nat, y \in Nat : x = a % Low /\ y = a \div Low /\ x < Low /\ y < High
    BY <2>2, <2>3
  <2>5. l = x /\ h = y
    <3>1. Pulled(2) = Byte("half", x) /\ Pulled(3) = Byte("half", y)
      BY <1>7, <2>1, <2>4
    <3>2. AsHalf(Byte("half", x), Low) = {x} /\ AsHalf(Byte("half", y), High) = {y}
      BY <2>4 DEF AsHalf, Byte
    <3> QED BY <1>8, <3>1, <3>2
  <2>6. a = Low * y + x
    BY <2>2, <2>4
  <2> QED BY <1>8, <2>1, <2>5, <2>6
<1>10. p' = f.p
  <2>1. CASE e
    <3>1. Widths \subseteq f.p
      BY <1>2, <1>4, <2>1 DEF FrameHolds
    <3>2. q \in {f.p \cup {"X"}, f.p \ {"X"}}
      BY <1>7, <1>8, <2>1 DEF AsStatus, Byte
    <3>3. q \cup Widths = f.p
      BY <3>1, <3>2 DEF Widths
    <3> QED BY <1>8, <2>1, <3>3
  <2>2. CASE ~ e
    <3>1. q = f.p
      BY <1>7, <1>8, <2>2 DEF AsStatus, Byte
    <3> QED BY <1>8, <2>2, <3>1
  <2> QED BY <1>1, <2>1, <2>2
<1>11. k' = (IF e THEN k ELSE f.k) /\ Pull(Bytes(f))
  <2>1. CASE e
    BY <1>2, <2>1 DEF Bytes
  <2>2. CASE ~ e
    <3>1. k' = f.k
      BY <1>2, <1>7, <2>2 DEF AsBank, Byte
    <3> QED BY <1>2, <2>2, <3>1 DEF Bytes
  <2> QED BY <1>1, <2>1, <2>2
<1>12. Bytes(f) \in 0 .. Depth
  BY <1>2, <1>4 DEF FrameHolds, Bytes, Frame
<1> QED BY <1>2, <1>3, <1>4, <1>5, <1>9, <1>10, <1>11, <1>12

\* A return leaves the frames of those it returns to.
LEMMA RtiKeeps ==
    ASSUME StackInv, rti
    PROVE  CpuTypes' /\ OnStack(sp)' /\ FramesHold'
<1>1. CpuTypes /\ FramesHold /\ OnStack(sp) /\ frames \in Seq(Frame)
  BY DEF StackInv, CpuTypes
<1>2. PICK n \in Nat : n = Len(frames)
  BY <1>1
<1>3. frames # << >>
  BY DEF rti
<1>4. n \in 1 .. n
  BY <1>1, <1>2, <1>3
<1>5. PICK f \in Frame : f = frames[Len(frames)]
  BY <1>1, <1>2, <1>4
<1>6. /\ f.depth = Depth /\ \A i \in 1 .. Bytes(f) : Up(sp, i) \in DOMAIN stack
      /\ Pull(Bytes(f)) /\ Bytes(f) \in 0 .. Depth
      /\ UNCHANGED e /\ p' = f.p /\ pc' = f.pc /\ k' = IF e THEN k ELSE f.k
      /\ frames' = SubSeq(frames, 1, Len(frames) - 1)
  BY <1>5, RtiPulls
<1>7. /\ sp' \in Sp /\ stack' \in [DOMAIN stack' -> StackByte] /\ OnStack(sp)'
      /\ \A g \in Frame : FrameHolds(g) /\ g.depth + Bytes(f) <= Depth => FrameHolds(g)'
  BY <1>6, PullStep
<1>8. /\ frames' \in Seq(Frame) /\ Len(frames') = n - 1
      /\ \A j \in 1 .. n - 1 : frames'[j] = frames[j]
  BY <1>1, <1>2, <1>4, <1>6
<1>9. CpuTypes'
  <2>1. f.p \in SUBSET Flags /\ f.pc \in Pc /\ f.k \in Banks
    BY DEF Frame
  <2>2. k' \in Banks
    BY <1>1, <1>6, <2>1 DEF CpuTypes
  <2>3. p' \in SUBSET Flags /\ pc' \in Pc /\ e' \in BOOLEAN
    BY <1>1, <1>6, <2>1 DEF CpuTypes
  <2> QED BY <1>7, <1>8, <2>2, <2>3 DEF CpuTypes
<1>10. \A j \in 1 .. Len(frames') : FrameHolds(frames[j])'
  <2> SUFFICES ASSUME NEW j \in 1 .. Len(frames') PROVE FrameHolds(frames[j])'
    OBVIOUS
  <2>1. j \in 1 .. Len(frames) /\ j < n /\ frames'[j] = frames[j]
    BY <1>2, <1>4, <1>8
  <2>2. PICK g \in Frame : g = frames[j] /\ FrameHolds(g)
    BY <1>1, <2>1, FrameIn
  <2>3. g.depth + Bytes(f) <= f.depth
    BY <1>1, <1>2, <1>4, <1>5, <2>1, <2>2 DEF FramesHold
  <2>4. FrameHolds(g)' /\ g = frames'[j]
    BY <1>6, <1>7, <2>1, <2>2, <2>3
  <2> QED BY <2>4
<1>11. \A i, j \in 1 .. Len(frames') : i < j => frames'[i].depth + Bytes(frames'[j]) <= frames'[j].depth
  <2>1. \A i \in 1 .. Len(frames') : i \in 1 .. Len(frames) /\ frames'[i] = frames[i]
    BY <1>2, <1>4, <1>8
  <2>2. \A i, j \in 1 .. Len(frames) : i < j => frames[i].depth + Bytes(frames[j]) <= frames[j].depth
    BY <1>1 DEF FramesHold
  <2> QED BY <2>1, <2>2
<1>12. FramesHold'
  BY <1>10, <1>11 DEF FramesHold, Bytes
<1> QED BY <1>7, <1>9, <1>12

LEMMA FetchedIn ==
    ASSUME CpuTypes, WidthsHold
    PROVE  /\ Fetched = p /\ Fetched \in SUBSET Flags
           /\ \A n \in Nat : After(n) \in Pc
<1>1. Fetched = p
  BY DEF Fetched, WidthsHold
<1>2. ASSUME NEW n \in Nat PROVE After(n) \in Pc
  <2>1. PICK w \in Nat \ {0} : w = PcSize
    <3>1. High \in Nat \ {0} /\ Low \in Nat \ {0}
      BY CpuAssumption
    <3>2. High * Low \in Nat \ {0}
      BY <3>1
    <3> QED BY <3>2 DEF PcSize
  <2>2. pc \in Nat
    BY <2>1 DEF CpuTypes, Pc
  <2>3. PICK a \in Int : a = pc + n
    BY <2>2
  <2>4. a % w \in 0 .. (w - 1)
    BY <2>3, Remainder
  <2> QED BY <2>1, <2>3, <2>4 DEF After, Pc
<1> QED BY <1>1, <1>2 DEF CpuTypes

\* Instructions that leave the stack alone.
LEMMA QuietSteps ==
    ASSUME StackInv, e' \in BOOLEAN, p' \in SUBSET Flags, pc' \in Pc, k' \in Banks,
           UNCHANGED <<sp, stack, frames>>, WidthsHold'
    PROVE  StackInv'
<1>1. OnStack(sp)' /\ FramesHold'
  BY StillKeeps
<1>2. CpuTypes'
  BY DEF StackInv, CpuTypes
<1> QED BY <1>1, <1>2 DEF StackInv

\* Instructions that move the stack pointer while nothing is on the stack.
LEMMA MoveSteps ==
    ASSUME StackInv, e' \in BOOLEAN, p' \in SUBSET Flags, pc' \in Pc, k' \in Banks,
           Depth = 0, sp' \in Sp, UNCHANGED <<stack, frames>>, WidthsHold'
    PROVE  StackInv'
<1>1. OnStack(sp)' /\ FramesHold'
  BY EmptyKeeps
<1>2. CpuTypes'
  BY DEF StackInv, CpuTypes
<1> QED BY <1>1, <1>2 DEF StackInv

\* Instructions that push, or pull what is the program's own.
LEMMA PushSteps ==
    ASSUME StackInv, e' \in BOOLEAN, p' \in SUBSET Flags, pc' \in Pc, k' \in Banks,
           UNCHANGED frames, WidthsHold',
           NEW bytes \in Seq(StackByte), Room(Len(bytes)), Push(bytes)
    PROVE  StackInv'
<1>1. /\ sp' \in Sp /\ stack' \in [DOMAIN stack' -> StackByte] /\ OnStack(sp)'
      /\ \A f \in Frame : FrameHolds(f) => FrameHolds(f)'
  BY PushStep
<1>2. CpuTypes /\ FramesHold
  BY DEF StackInv
<1>3. FramesHold'
  BY <1>1, <1>2, FramesStay
<1>4. CpuTypes'
  BY <1>1, <1>2 DEF CpuTypes
<1> QED BY <1>1, <1>3, <1>4 DEF StackInv

LEMMA PullSteps ==
    ASSUME StackInv, e' \in BOOLEAN, p' \in SUBSET Flags, pc' \in Pc, k' \in Banks,
           UNCHANGED frames, WidthsHold', NEW n \in Nat, Owns(n), Pull(n)
    PROVE  StackInv'
<1>1. CpuTypes /\ FramesHold /\ OnStack(sp)
  BY DEF StackInv
<1>2. Depth \in Nat
  BY <1>1, FS_CardinalityType DEF OnStack, Depth
<1>3. Others \in Nat
  <2>1. CASE frames = << >>
    BY <2>1 DEF Others
  <2>2. CASE frames # << >>
    <3>1. PICK j \in 1 .. Len(frames) : j = Len(frames)
      BY <1>1, <2>2 DEF CpuTypes
    <3>2. frames[j] \in Frame
      BY <1>1, FrameIn
    <3> QED BY <2>2, <3>1, <3>2 DEF Others, Frame
  <2> QED BY <2>1, <2>2
<1>4. n \in 0 .. Depth /\ n + Others <= Depth /\ \A i \in 1 .. n : Up(sp, i) \in DOMAIN stack
  BY <1>2, <1>3 DEF Owns
<1>5. /\ sp' \in Sp /\ stack' \in [DOMAIN stack' -> StackByte] /\ OnStack(sp)'
      /\ \A f \in Frame : FrameHolds(f) /\ f.depth + n <= Depth => FrameHolds(f)'
  BY <1>4, PullStep
<1>6. ASSUME NEW f \in Frame, FrameHolds(f), \E j \in 1 .. Len(frames) : f = frames[j]
      PROVE  FrameHolds(f)'
  <2>1. f.depth <= Others /\ f.depth \in Nat
    BY <1>1, <1>6, DepthsBelow DEF Frame
  <2>2. f.depth + n <= Depth
    BY <1>2, <1>3, <1>4, <2>1
  <2> QED BY <1>5, <1>6, <2>2
<1>7. FramesHold'
  BY <1>1, <1>6, FramesStay
<1>8. CpuTypes'
  BY <1>1, <1>5 DEF CpuTypes
<1> QED BY <1>5, <1>7, <1>8 DEF StackInv

\* Every instruction, interrupt and reset keeps what is under the frames.
LEMMA StackStep == StackInv /\ [Next]_vars => StackInv'
<1> SUFFICES ASSUME StackInv, [Next]_vars PROVE StackInv'
  OBVIOUS
<1>0. WidthsHold'
  BY WidthsStep DEF StackInv
<1>1. /\ Fetched = p /\ Fetched \in SUBSET Flags /\ After(1) \in Pc /\ After(2) \in Pc
      /\ CpuTypes /\ e \in BOOLEAN /\ k \in Banks /\ pc \in Pc /\ p \in SUBSET Flags /\ sp \in Sp
  BY FetchedIn DEF StackInv, CpuTypes
<1>2. ASSUME NEW c \in BOOLEAN, NEW w \in BOOLEAN, Compute(c, w) PROVE StackInv'
  <2>1. p' \in SUBSET Flags
    BY <1>1, <1>2 DEF Compute, Flags
  <2> QED BY <1>0, <1>1, <1>2, <2>1, QuietSteps DEF Compute, Plain
<1>3. ASSUME NEW m \in Masks, sep(m) PROVE StackInv'
  <2>1. p' \in SUBSET Flags
    BY <1>1, <1>3, CpuAssumption DEF sep
  <2> QED BY <1>0, <1>1, <1>3, <2>1, QuietSteps DEF sep, Plain
<1>4. ASSUME NEW m \in Masks, ClearFlags(m) PROVE StackInv'
  <2>1. p' \in SUBSET Flags
    BY <1>1, <1>4 DEF ClearFlags, ClearedBy, Widths, Flags
  <2> QED BY <1>0, <1>1, <1>4, <2>1, QuietSteps DEF ClearFlags, Plain
<1>5. ASSUME NEW f \in Settable, SetFlag(f) PROVE StackInv'
  <2>1. p' \in SUBSET Flags
    BY <1>1, <1>5, CpuAssumption DEF SetFlag, Flags
  <2> QED BY <1>0, <1>1, <1>5, <2>1, QuietSteps DEF SetFlag, Plain
<1>6. CASE xce
  <2>1. /\ e' \in BOOLEAN /\ pc' \in Pc /\ k' \in Banks
        /\ UNCHANGED <<stack, frames>> /\ (Depth > 0 => sp' = sp)
    BY <1>1, <1>6 DEF xce
  <2>2. p' \in SUBSET Flags
    BY <1>1, <1>6 DEF xce, Widths, Flags
  <2>3. Depth \in Nat
    BY FS_CardinalityType DEF StackInv, OnStack, Depth
  <2>4. CASE Depth > 0
    BY <1>0, <2>1, <2>2, <2>4, QuietSteps
  <2>5. CASE Depth = 0
    <3>1. PageSize + (sp % PageSize) \in Sp
      <4>1. sp \in Nat
        BY <1>1, StackSizes
      <4>2. PICK r \in 0 .. (PageSize - 1) : r = sp % PageSize
        BY <4>1, StackSizes, DivMod
      <4>3. 1 \in 0 .. (Pages - 1) /\ PageSize * 1 = PageSize
        BY StackSizes
      <4>4. PageSize * 1 + r \in Sp
        BY <4>3, PageAddress
      <4> QED BY <4>2, <4>3, <4>4
    <3>2. sp' \in Sp
      BY <1>1, <1>6, <3>1 DEF xce
    <3> QED BY <1>0, <2>1, <2>2, <2>5, <3>2, MoveSteps
  <2> QED BY <2>3, <2>4, <2>5
<1>7. ASSUME NEW a \in Targets, NEW b \in Banks, Jump(a, b) PROVE StackInv'
  BY <1>0, <1>1, <1>7, CpuAssumption, QuietSteps DEF Jump
<1>8. ASSUME NEW s \in Stacks, txs(s) PROVE StackInv'
  <2>1. s \in Sp
    BY CpuAssumption
  <2>2. PageSize + (s % PageSize) \in Sp
    <3>1. s \in Nat
      BY <2>1, StackSizes
    <3>2. PICK r \in 0 .. (PageSize - 1) : r = s % PageSize
      BY <3>1, StackSizes, DivMod
    <3>3. 1 \in 0 .. (Pages - 1) /\ PageSize * 1 = PageSize
      BY StackSizes
    <3>4. PageSize * 1 + r \in Sp
      BY <3>3, PageAddress
    <3> QED BY <3>2, <3>3, <3>4
  <2>3. sp' \in Sp
    BY <1>8, <2>1, <2>2 DEF txs
  <2> QED BY <1>0, <1>1, <1>8, <2>3, MoveSteps DEF txs, Plain
<1>9. ASSUME NEW s \in Stacks, tcs(s) PROVE StackInv'
  BY <1>0, <1>1, <1>9, CpuAssumption, MoveSteps DEF tcs, Plain
<1>10. ASSUME NEW n \in 1 .. MaxOwn, PushData(n) PROVE StackInv'
  <2>1. PICK bytes : bytes = [i \in 1 .. n |-> Byte("data", 0)]
    OBVIOUS
  <2>2. bytes \in Seq(StackByte) /\ Len(bytes) = n
    <3>1. n \in Nat /\ Byte("data", 0) \in StackByte
      BY CpuAssumption, ByteTypes
    <3> QED BY <2>1, <3>1
  <2>3. Room(Len(bytes)) /\ Push(bytes) /\ UNCHANGED frames
    BY <1>10, <2>1, <2>2 DEF PushData, May, Plain
  <2> QED BY <1>0, <1>1, <1>10, <2>2, <2>3, PushSteps DEF PushData, Plain
<1>11. ASSUME NEW n \in 1 .. MaxOwn, PullData(n) PROVE StackInv'
  <2>1. n \in Nat
    BY CpuAssumption
  <2> QED BY <1>0, <1>1, <1>11, <2>1, PullSteps DEF PullData, Plain
<1>12. CASE php
  <2>1. PICK bytes : bytes = <<Byte("status", IF e THEN Fetched \cup {"X"} ELSE Fetched)>>
    OBVIOUS
  <2>2. bytes \in Seq(StackByte) /\ Len(bytes) = 1
    <3>1. PICK b \in StackByte : b = Byte("status", IF e THEN Fetched \cup {"X"} ELSE Fetched)
      <4>1. (IF e THEN Fetched \cup {"X"} ELSE Fetched) \in SUBSET Flags
        BY <1>1 DEF Flags
      <4> QED BY <4>1, ByteTypes
    <3> QED BY <2>1, <3>1
  <2>3. Room(Len(bytes)) /\ Push(bytes) /\ UNCHANGED frames
    BY <1>12, <2>1, <2>2 DEF php, May, Plain
  <2> QED BY <1>0, <1>1, <1>12, <2>2, <2>3, PushSteps DEF php, Plain
<1>13. CASE plp
  <2>1. p' \in SUBSET Flags
    <3>1. PICK q \in AsStatus(Pulled(1)) : p' = (IF e THEN q \cup Widths ELSE q)
      BY <1>13 DEF plp
    <3>2. Pulled(1) \in StackByte
      <4>1. 0 \in Nat
        OBVIOUS
      <4> QED BY <1>1, <4>1, ByteTypes DEF Pulled, CpuTypes
    <3>3. q \in SUBSET Flags
      BY <3>1, <3>2, CpuAssumption DEF AsStatus, StackByte
    <3> QED BY <3>1, <3>3 DEF Widths, Flags
  <2>2. Owns(1) /\ Pull(1) /\ 1 \in Nat
    BY <1>13 DEF plp
  <2> QED BY <1>0, <1>1, <1>13, <2>1, <2>2, PullSteps DEF plp, Plain
<1>14. ASSUME NEW kind \in {"brk", "cop"}, Software(kind) PROVE StackInv'
  <2>1. Interrupt(kind, After(2), Fetched) /\ kind \in Kinds
    BY <1>14 DEF Software, Kinds
  <2>2. e => Widths \subseteq Fetched
    BY DEF Fetched
  <2> QED BY <1>0, <1>1, <2>1, <2>2, InterruptKeeps DEF StackInv
<1>15. CASE rti
  BY <1>0, <1>15, RtiKeeps DEF StackInv
<1>16. CASE wai \/ Wait
  BY <1>0, <1>1, <1>16, QuietSteps DEF wai, Wait, regs
<1>17. CASE Nmi
  <2>1. Interrupt("nmi", pc, p) /\ "nmi" \in Kinds
    BY <1>17 DEF Nmi, Kinds
  <2>2. e => Widths \subseteq p
    BY DEF StackInv, WidthsHold
  <2> QED BY <1>0, <1>1, <2>1, <2>2, InterruptKeeps DEF StackInv
<1>18. ASSUME NEW l \in BOOLEAN, Poll(l) PROVE StackInv'
  <2>1. CASE l /\ "I" \notin p
    <3>1. Interrupt("irq", pc, p) /\ "irq" \in Kinds
      BY <1>18, <2>1 DEF Poll, Kinds
    <3>2. e => Widths \subseteq p
      BY DEF StackInv, WidthsHold
    <3> QED BY <1>0, <1>1, <3>1, <3>2, InterruptKeeps DEF StackInv
  <2>2. CASE ~ (l /\ "I" \notin p)
    BY <1>0, <1>1, <1>18, <2>2, QuietSteps DEF Poll, regs
  <2> QED BY <2>1, <2>2
<1>19. CASE Reset
  <2>1. stack' = << >> /\ frames' = << >> /\ Len(frames') = 0 /\ DOMAIN stack' = {}
    BY <1>19 DEF Reset
  <2>2. Depth' = 0 /\ IsFiniteSet(DOMAIN stack')
    BY <2>1, FS_EmptySet DEF Depth
  <2>3. OnStack(sp)'
    BY <2>1, <2>2, StackSizes DEF OnStack
  <2>4. FramesHold'
    BY <2>1 DEF FramesHold
  <2>5. CpuTypes'
    <3>1. pc' \in Pc /\ k' \in Banks /\ e' \in BOOLEAN
      BY <1>19, CpuAssumption DEF Reset
    <3>2. p' \in SUBSET Flags
      BY <1>1, <1>19 DEF Reset, Widths, Flags
    <3>3. sp' \in Sp
      <4>1. (2 * PageSize) - 3 = PageSize * 1 + (PageSize - 3)
            /\ PageSize - 3 \in 0 .. (PageSize - 1) /\ 1 \in 0 .. (Pages - 1)
        BY CpuAssumption
      <4> QED BY <1>19, <4>1, PageAddress DEF Reset
    <3>4. stack' \in [DOMAIN stack' -> StackByte] /\ frames' \in Seq(Frame)
      BY <2>1
    <3> QED BY <3>1, <3>2, <3>3, <3>4 DEF CpuTypes
  <2> QED BY <1>0, <2>3, <2>4, <2>5 DEF StackInv
<1>20. CASE UNCHANGED vars
  BY <1>0, <1>1, <1>20, QuietSteps DEF vars
<1> QED
  BY <1>2, <1>3, <1>4, <1>5, <1>6, <1>7, <1>8, <1>9, <1>10, <1>11, <1>12, <1>13, <1>14,
     <1>15, <1>16, <1>17, <1>18, <1>19, <1>20 DEF Next

LEMMA StackStarts == Init => StackInv
<1> SUFFICES ASSUME Init PROVE StackInv
  OBVIOUS
<1>1. stack = << >> /\ frames = << >> /\ Len(frames) = 0 /\ DOMAIN stack = {}
  BY DEF Init
<1>2. Depth = 0 /\ IsFiniteSet(DOMAIN stack)
  BY <1>1, FS_EmptySet DEF Depth
<1>3. OnStack(sp)
  BY <1>1, <1>2, StackSizes DEF OnStack
<1>4. FramesHold
  BY <1>1 DEF FramesHold
<1>5. pc \in Pc /\ k \in Banks /\ e \in BOOLEAN
  BY CpuAssumption DEF Init
<1>6. p \in SUBSET Flags /\ WidthsHold
  BY DEF Init, Widths, Flags, WidthsHold
<1>7. sp \in Sp
  <2>1. (2 * PageSize) - 3 = PageSize * 1 + (PageSize - 3)
        /\ PageSize - 3 \in 0 .. (PageSize - 1) /\ 1 \in 0 .. (Pages - 1)
    BY CpuAssumption
  <2> QED BY <2>1, PageAddress DEF Init
<1>8. stack \in [DOMAIN stack -> StackByte] /\ frames \in Seq(Frame)
  BY <1>1
<1> QED BY <1>3, <1>4, <1>5, <1>6, <1>7, <1>8 DEF StackInv, CpuTypes

\* The step that an rti makes, as ReturnsAsEntered states it.
ReturnStep ==
    LET f == frames[Len(frames)]
    IN  /\ pc' = f.pc /\ p' = f.p /\ e' = f.e
        /\ ~ e => k' = f.k
        /\ sp' = Up(f.sp, IF e THEN 3 ELSE 4)
        /\ frames' # << >> => Depth' >= frames'[Len(frames')].depth

LEMMA RtiReturns == ASSUME StackInv, rti PROVE ReturnStep
<1>1. CpuTypes /\ FramesHold /\ OnStack(sp) /\ frames \in Seq(Frame) /\ e \in BOOLEAN
  BY DEF StackInv, CpuTypes
<1>2. PICK n \in Nat : n = Len(frames)
  BY <1>1
<1>3. n \in 1 .. n
  BY <1>1, <1>2 DEF rti
<1>4. PICK f \in Frame : f = frames[Len(frames)]
  BY <1>1, <1>2, <1>3
<1>5. /\ f.e = e /\ f.sp = sp /\ f.depth = Depth /\ Pull(Bytes(f)) /\ Bytes(f) \in 0 .. Depth
      /\ \A i \in 1 .. Bytes(f) : Up(sp, i) \in DOMAIN stack
      /\ UNCHANGED e /\ p' = f.p /\ pc' = f.pc /\ k' = IF e THEN k ELSE f.k
      /\ frames' = SubSeq(frames, 1, Len(frames) - 1)
  BY <1>4, RtiPulls
<1>6. sp' = Up(sp, Bytes(f))
  BY <1>5 DEF Pull
<1>7. frames' # << >> => Depth' >= frames'[Len(frames')].depth
  <2> SUFFICES ASSUME frames' # << >> PROVE Depth' >= frames'[Len(frames')].depth
    OBVIOUS
  <2>1. n - 1 \in 1 .. n /\ n - 1 < n /\ frames'[Len(frames')] = frames[n - 1]
    BY <1>1, <1>2, <1>3, <1>5
  <2>2. PICK g \in Frame : g = frames[n - 1]
    BY <1>1, <1>2, <2>1, FrameIn
  <2>3. g.depth + Bytes(f) <= f.depth
    BY <1>1, <1>2, <1>3, <1>4, <2>1, <2>2 DEF FramesHold
  <2>4. Depth' = Depth - Bytes(f) /\ Depth \in Nat
    BY <1>5, PullStep
  <2>5. Depth' >= g.depth
    <3>1. PICK x \in Nat, y \in Nat : x = g.depth /\ y = Bytes(f)
      BY DEF Frame, Bytes
    <3> QED BY <1>5, <2>3, <2>4, <3>1
  <2> QED BY <2>1, <2>2, <2>5
<1>8. ~ e => k' = f.k
  BY <1>5
<1>9. sp' = Up(f.sp, IF e THEN 3 ELSE 4)
  BY <1>5, <1>6 DEF Bytes
<1>10. pc' = f.pc /\ p' = f.p /\ e' = f.e
  BY <1>5
<1> QED BY <1>4, <1>7, <1>8, <1>9, <1>10 DEF ReturnStep

\* An interrupt is invisible to the program it interrupts, whatever handlers
\* nest in it, in whichever modes, and whatever they push, pull and set: rti
\* restores what interrupt6502 saved, in pages and banks of any size.
THEOREM ReturnsCorrect == Spec => ReturnsAsEntered
<1>1. StackInv /\ [Next]_vars => [rti => ReturnStep]_vars
  BY RtiReturns
<1>2. Spec => []StackInv
  BY StackStarts, StackStep, PTL DEF Spec
<1>3. Spec => [][rti => ReturnStep]_vars
  BY <1>1, <1>2, PTL DEF Spec
<1> QED BY <1>3 DEF ReturnsAsEntered, ReturnStep

-----------------------------------------------------------------------------
(* Addresses. *)

Byte6502 == 0 .. ByteSize - 1
AddressTypes ==
    /\ adrE \in BOOLEAN /\ dp \in LongOperand /\ adrX \in LongOperand /\ adrY \in LongOperand
    /\ db \in 0 .. MemBanks - 1
    /\ mem \in [Address -> Byte6502]

LEMMA AddressSizes ==
    /\ ByteSize \in Nat \ {0} /\ ByteSize > 2 /\ MemBanks \in Nat \ {0}
    /\ Word \in Nat \ {0} /\ ByteSize <= Word
    /\ Space = MemBanks * Word /\ Space \in Nat \ {0} /\ Word <= Space
<1>1. ByteSize \in Nat \ {0} /\ ByteSize > 2 /\ MemBanks \in Nat \ {0}
  BY AddressAssumption
<1>2. ByteSize * ByteSize \in Nat \ {0} /\ ByteSize <= ByteSize * ByteSize
  BY <1>1
<1>3. Word \in Nat \ {0} /\ ByteSize <= Word
  BY <1>2 DEF Word
<1>4. MemBanks * Word \in Nat \ {0} /\ Word <= MemBanks * Word
  BY <1>1, <1>3
<1> QED BY <1>1, <1>3, <1>4 DEF Space

LEMMA AddressesTyped == AdrSpec => []AddressTypes
<1>1. AdrInit => AddressTypes
  <2> SUFFICES ASSUME AdrInit PROVE AddressTypes
    OBVIOUS
  <2>1. 0 \in LongOperand /\ 0 \in 0 .. MemBanks - 1
    BY AddressSizes DEF LongOperand
  <2> QED BY <2>1, AddressAssumption DEF AdrInit, AddressTypes, Byte6502
<1>2. AddressTypes /\ [AdrNext]_adrVars => AddressTypes'
  <2> SUFFICES ASSUME AddressTypes, [AdrNext]_adrVars PROVE AddressTypes'
    OBVIOUS
  <2>1. ASSUME NEW r, NEW w \in BOOLEAN, NEW v \in {0, ByteSize - 1}, Store(r, w, v)
        PROVE  AddressTypes'
    <3>1. v \in Byte6502
      BY AddressSizes DEF Byte6502
    <3>2. mem' \in [Address -> Byte6502]
      BY <2>1, <3>1 DEF Store, AddressTypes
    <3> QED BY <2>1, <3>2 DEF Store, AddressTypes
  <2>2. CASE SetDirect
    BY <2>2, AddressAssumption DEF SetDirect, AddressTypes, LongOperand
  <2>3. CASE SetBank
    BY <2>3 DEF SetBank, AddressTypes
  <2>4. CASE SetStack
    BY <2>4 DEF SetStack, AddressTypes
  <2>5. CASE SetIndex
    BY <2>5, AddressAssumption DEF SetIndex, AddressTypes, LongOperand
  <2>6. CASE SetMode
    <3>1. ASSUME NEW a \in LongOperand PROVE a % ByteSize \in LongOperand
      <4>1. a % ByteSize \in 0 .. ByteSize - 1
        BY AddressSizes DEF LongOperand
      <4> QED BY <4>1, AddressSizes DEF LongOperand
    <3> QED BY <2>6, <3>1 DEF SetMode, AddressTypes
  <2>7. CASE UNCHANGED adrVars
    BY <2>7 DEF adrVars, AddressTypes
  <2> QED BY <2>1, <2>2, <2>3, <2>4, <2>5, <2>6, <2>7 DEF AdrNext
<1> QED BY <1>1, <1>2, PTL DEF AdrSpec

\* Pointers are read in bank 0.
LEMMA InBank0 ==
    ASSUME AddressTypes, NEW a \in LongOperand
    PROVE  a % Word = a /\ Bank0(a) = mem[a] /\ mem[a] \in Nat
<1>1. a % Word = a /\ a \in Address
  BY AddressSizes DEF LongOperand, Address
<1>2. mem[a] \in Byte6502
  BY <1>1 DEF AddressTypes
<1> QED BY <1>1, <1>2, AddressSizes DEF Bank0, Byte6502

\* A longer address has the remainder of what it was before it wrapped.
LEMMA WrapsInWord ==
    ASSUME NEW a \in Int
    PROVE  (a % Space) % Word = a % Word
BY AddressSizes, RemainderOfMultiple

LEMMA FindsAsOn6502 == AddressTypes => AsOn6502
<1> DEFINE page(i) == i % ByteSize
<1> DEFINE word(a, b) == mem[a] + (ByteSize * mem[b])
<1> DEFINE next(a) == (a + 1) % Word
<1> SUFFICES ASSUME AddressTypes, adrE, dp = 0, db = 0 PROVE
      /\ \A i \in Operand :
            /\ zp(i, adrX) = page(i + adrX)
            /\ ind0(i) = word(i, page(i + 1))
            /\ indx(i) = word(page(i + adrX), page(i + adrX + 1))
            /\ indy(i) % Word = (word(i, page(i + 1)) + adrY) % Word
      /\ \A a \in LongOperand :
            /\ absx(a, adrX) % Word = (a + adrX) % Word
            /\ ind(a) = word(a, next(a))
            /\ ainx(a) = word((a + adrX) % Word, next((a + adrX) % Word))
  BY DEF AsOn6502
<1>1. adrX \in Nat /\ adrY \in Nat
  BY AddressSizes DEF AddressTypes, LongOperand
<1>2. ASSUME NEW i \in Nat
      PROVE  direct_page_add(i) = page(i) /\ page(i) \in LongOperand
  <2>1. i % ByteSize \in 0 .. ByteSize - 1 /\ 0 % ByteSize = 0
    BY AddressSizes
  <2>2. 0 + (i % ByteSize) = i % ByteSize
    BY <2>1
  <2> QED BY <2>1, <2>2, AddressSizes DEF direct_page_add, LongOperand
<1>3. ASSUME NEW a \in Int PROVE a % Word \in LongOperand
  BY AddressSizes, Remainder DEF LongOperand
<1> HIDE DEF page
<1>4. ASSUME NEW i \in Nat
      PROVE  ind0(i) = word(page(i), page(i + 1)) /\ ind0(i) \in Int
  <2>1. i + 1 \in Nat
    OBVIOUS
  <2>2. direct_page_add(i) = page(i) /\ direct_page_add(i + 1) = page(i + 1)
        /\ page(i) \in LongOperand /\ page(i + 1) \in LongOperand
    BY <1>2, <2>1
  <2>3. Bank0(page(i)) = mem[page(i)] /\ Bank0(page(i + 1)) = mem[page(i + 1)]
        /\ mem[page(i)] \in Nat /\ mem[page(i + 1)] \in Nat
    BY <2>2, InBank0
  <2>4. Pointer(i) = word(page(i), page(i + 1))
    BY <2>2, <2>3 DEF Pointer, Word0
  <2>5. word(page(i), page(i + 1)) \in Nat
    BY <2>3, AddressSizes
  <2> HIDE DEF word
  <2>6. (0 * Word) + Pointer(i) = Pointer(i)
    BY <2>4, <2>5, AddressSizes
  <2> QED BY <2>4, <2>5, <2>6 DEF ind0, addr_with_db
<1>5. ASSUME NEW i \in Operand
      PROVE  /\ zp(i, adrX) = page(i + adrX)
             /\ ind0(i) = word(i, page(i + 1))
             /\ indx(i) = word(page(i + adrX), page(i + adrX + 1))
             /\ indy(i) % Word = (word(i, page(i + 1)) + adrY) % Word
  <2>1. i \in Nat /\ i + adrX \in Nat /\ page(i) = i
    BY <1>1, AddressSizes DEF Operand, page
  <2>2. zp(i, adrX) = page(i + adrX)
    BY <1>2, <2>1 DEF zp
  <2>3. ind0(i) = word(page(i), page(i + 1)) /\ ind0(i) \in Int
        /\ ind0(i + adrX) = word(page(i + adrX), page(i + adrX + 1))
    BY <1>4, <2>1
  <2> HIDE DEF word
  <2>4. indy(i) = (ind0(i) + adrY) % Space
    BY DEF indy, ind0
  <2>5. ((ind0(i) + adrY) % Space) % Word = (ind0(i) + adrY) % Word
    BY <1>1, <2>3, WrapsInWord
  <2> QED BY <2>1, <2>2, <2>3, <2>4, <2>5 DEF indx
<1>6. ASSUME NEW a \in LongOperand
      PROVE  /\ absx(a, adrX) % Word = (a + adrX) % Word
             /\ ind(a) = word(a, next(a))
             /\ ainx(a) = word((a + adrX) % Word, next((a + adrX) % Word))
  <2>1. a \in Nat /\ a + adrX \in Nat /\ a % Word = a
    BY <1>1, AddressSizes DEF LongOperand
  <2>2. absx(a, adrX) = (a + adrX) % Space
    BY <2>1, AddressSizes DEF absx, addr_with_db
  <2>3. ((a + adrX) % Space) % Word = (a + adrX) % Word
    BY <2>1, WrapsInWord
  <2>4. ind(a) = word(a, next(a))
    BY <2>1 DEF ind, Word0, Bank0
  <2>5. next((a + adrX) % Word) = (a + adrX + 1) % Word
    BY <2>1, AddressSizes, RemainderPlus
  <2>6. ainx(a) = word((a + adrX) % Word, next((a + adrX) % Word))
    BY <2>5 DEF ainx, Word0, Bank0
  <2> QED BY <2>2, <2>3, <2>4, <2>6
<1> QED BY <1>5, <1>6 DEF page

\* Programs of the 6502 find their operands where that processor does, for
\* bytes and memories of any size and whatever programs of either mode ran before.
THEOREM AddressesCorrect == AdrSpec => []AsOn6502
BY AddressesTyped, FindsAsOn6502, PTL

-----------------------------------------------------------------------------
(* Block moves. *)

\* What a program or a handler is in the middle of, as Now has it.
AWord == 0 .. WordSize - 1
Memories == [Cell -> Cell]
Context ==
    [c : AWord, x : AWord, y : AWord, db : 0 .. Nesting + 2, narrow : BOOLEAN, m8 : BOOLEAN,
     here : BOOLEAN, move : [down : BOOLEAN, from : {0, 1}, to : 0 .. Nesting + 2],
     begun : [c : AWord, x : AWord, y : AWord, narrow : BOOLEAN, mem : Memories]]

MoveTypes ==
    /\ copied \in Memories
    /\ saved \in Seq(Context) /\ Len(saved) <= Nesting
    /\ Now \in Context

\* The cells of the move of a context, and how many of its bytes are moved.
CellPlace(t, base, i) == (base + (IF t.move.down THEN - i ELSE i)) % IndexSize(t.begun.narrow)
Source(t, i) == <<t.move.from, CellPlace(t, t.begun.x, i)>>
Target(t, i) == <<t.move.to, CellPlace(t, t.begun.y, i)>>
Apart(t) ==
    \A i, j \in 0 .. t.begun.c :
       i < j => Target(t, i) # Source(t, j) /\ Target(t, i) # Target(t, j)
BytesMoved(t) == IF t.here THEN t.begun.c - t.c ELSE t.begun.c + 1

\* The first n bytes of it, and nothing else of its bank, are changed.
IsCopied(t, n, m) ==
    /\ Apart(t) => \A i \in 0 .. n - 1 : m[Target(t, i)] = t.begun.mem[Source(t, i)]
    /\ \A a \in Cell :
          a[1] = t.move.to /\ (\A i \in 0 .. n - 1 : a # Target(t, i)) => m[a] = t.begun.mem[a]
    /\ t.move.from # t.move.to => \A a \in Cell : a[1] = t.move.from => m[a] = t.begun.mem[a]

\* The registers of a move that is going on say what is left of it.
Going(t) ==
    /\ t.c \in 0 .. t.begun.c /\ t.narrow = t.begun.narrow
    /\ t.x = CellPlace(t, t.begun.x, BytesMoved(t)) /\ t.y = CellPlace(t, t.begun.y, BytesMoved(t))

\* A context that owns bank b: its move is its own, or one of a context below.
Holds(t, b, m) ==
    /\ t.here => t.move.to = b
    /\ t.move.to <= b \/ t.move.to = Nesting + 2
    /\ t.move.to = b =>
         /\ t.here => Going(t)
         /\ BytesMoved(t) > 0 => t.db = t.move.to
         /\ IsCopied(t, BytesMoved(t), m)

Bank(j) == IF j = 1 THEN 0 ELSE j

MoveInv ==
    /\ MoveTypes
    /\ \A j \in 1 .. Len(saved) : Holds(saved[j], Bank(j), copied)
    /\ Holds(Now, Own, copied)

LEMMA MoveSizes ==
    /\ NarrowSize \in Nat \ {0} /\ WordSize \in Nat \ {0} /\ NarrowSize <= WordSize
    /\ Nesting \in Nat
    /\ \A n \in BOOLEAN : IndexSize(n) \in Nat \ {0} /\ IndexSize(n) <= WordSize
<1>1. NarrowSize \in Nat \ {0} /\ Nesting \in Nat
  BY MoveAssumption
<1>2. NarrowSize * NarrowSize \in Nat \ {0} /\ NarrowSize <= NarrowSize * NarrowSize
  BY <1>1
<1> QED BY <1>1, <1>2 DEF WordSize, IndexSize

LEMMA PlaceInWord ==
    ASSUME NEW t \in Context, NEW base \in AWord, NEW i \in Int
    PROVE  CellPlace(t, base, i) \in AWord
<1> DEFINE w == IndexSize(t.begun.narrow)
<1> DEFINE a == base + (IF t.move.down THEN - i ELSE i)
<1>1. w \in Nat \ {0} /\ w <= WordSize
  BY MoveSizes DEF Context
<1>2. a \in Int
  BY MoveSizes DEF AWord
<1> HIDE DEF w, a
<1>3. a % w \in 0 .. w - 1
  BY <1>1, <1>2, Remainder
<1>4. a % w \in AWord
  BY <1>1, <1>3, MoveSizes DEF AWord
<1> QED BY <1>4 DEF CellPlace, w, a

\* One byte further.
LEMMA PlaceNext ==
    ASSUME NEW t \in Context, NEW base \in AWord, NEW i \in Int
    PROVE  (CellPlace(t, base, i) + (IF t.move.down THEN -1 ELSE 1)) % IndexSize(t.begun.narrow)
             = CellPlace(t, base, i + 1)
<1> DEFINE w == IndexSize(t.begun.narrow)
<1> DEFINE a == base + (IF t.move.down THEN - i ELSE i)
<1> DEFINE d == IF t.move.down THEN -1 ELSE 1
<1>1. w \in Nat \ {0}
  BY MoveSizes DEF Context
<1>2. a \in Int /\ d \in Int /\ a + d = base + (IF t.move.down THEN - (i + 1) ELSE i + 1)
  BY MoveSizes DEF AWord
<1> HIDE DEF w, a, d
<1>3. ((a % w) + d) % w = (a + d) % w
  BY <1>1, <1>2, RemainderPlus
<1>4. CellPlace(t, base, i) = a % w
  BY DEF CellPlace, w, a
<1>5. CellPlace(t, base, i + 1) = (a + d) % w
  BY <1>2 DEF CellPlace, w
<1> QED BY <1>3, <1>4, <1>5 DEF w, d

\* Where a move begins.
LEMMA PlaceFirst ==
    ASSUME NEW t \in Context, NEW base \in AWord, t.begun.narrow => base < NarrowSize
    PROVE  CellPlace(t, base, 0) = base
<1> DEFINE w == IndexSize(t.begun.narrow)
<1>1. w \in Nat \ {0} /\ base \in 0 .. w - 1
  BY MoveSizes DEF Context, IndexSize, AWord
<1>2. base + (IF t.move.down THEN - 0 ELSE 0) = base
  BY MoveSizes DEF AWord
<1> HIDE DEF w
<1>3. base % w = base
  BY <1>1
<1> QED BY <1>2, <1>3 DEF CellPlace, w

\* Targets are cells, and sources too.
LEMMA TargetIsCell ==
    ASSUME NEW t \in Context, t.move.to <= Nesting + 1, NEW i \in Int
    PROVE  /\ Target(t, i) \in Cell /\ Source(t, i) \in Cell
           /\ Target(t, i)[1] = t.move.to /\ Source(t, i)[1] = t.move.from
<1>1. t.begun.x \in AWord /\ t.begun.y \in AWord
      /\ t.move.from \in {0, 1} /\ t.move.to \in 0 .. Nesting + 2
  BY DEF Context
<1>2. CellPlace(t, t.begun.y, i) \in AWord /\ CellPlace(t, t.begun.x, i) \in AWord
  BY <1>1, PlaceInWord
<1>3. t.move.from \in 0 .. Nesting + 1 /\ t.move.to \in 0 .. Nesting + 1
  BY <1>1, MoveSizes
<1> QED BY <1>2, <1>3 DEF Target, Source, Cell, AWord

\* A handler's writes, to its own bank, leave the others' moves alone.
LEMMA HoldsApart ==
    ASSUME NEW t \in Context, NEW b \in 0 .. Nesting + 1, NEW m, NEW n, NEW o \in Nat,
           Holds(t, b, m), o # b, o > 1,
           \A a \in Cell : a[1] # o => n[a] = m[a]
    PROVE  Holds(t, b, n)
<1> SUFFICES ASSUME t.move.to = b PROVE IsCopied(t, BytesMoved(t), n)
  BY DEF Holds
<1>1. IsCopied(t, BytesMoved(t), m)
  BY DEF Holds
<1>2. \A i \in Int : Target(t, i) \in Cell /\ Target(t, i)[1] # o
  BY TargetIsCell, MoveSizes
<1>3. t.move.from # o
  BY DEF Context
<1>4. \A i \in 0 .. BytesMoved(t) - 1 : n[Target(t, i)] = m[Target(t, i)]
  BY <1>2
<1> HIDE DEF BytesMoved
<1> QED BY <1>1, <1>3, <1>4 DEF IsCopied
LEMMA OwnBank == saved \in Seq(Context) => Own = Bank(Len(saved) + 1)
<1> SUFFICES ASSUME saved \in Seq(Context) PROVE Own = Bank(Len(saved) + 1)
  OBVIOUS
<1>1. CASE saved = << >>
  BY <1>1 DEF Own, Bank
<1>2. CASE saved # << >>
  BY <1>2 DEF Own, Bank
<1> QED BY <1>1, <1>2

LEMMA MoveStarts == BmInit => MoveInv
<1> SUFFICES ASSUME BmInit PROVE MoveInv
  OBVIOUS
<1>1. copied \in Memories
  BY DEF BmInit, Memories
<1>2. WordSize - 1 \in AWord /\ 0 \in AWord
  BY MoveSizes DEF AWord
<1>3. Idle \in [down : BOOLEAN, from : {0, 1}, to : 0 .. Nesting + 2]
  BY MoveSizes DEF Idle
<1>4. begun \in [c : AWord, x : AWord, y : AWord, narrow : BOOLEAN, mem : Memories]
  BY <1>1, <1>2 DEF BmInit
<1>5. Now \in Context
  <2>1. Now = [c |-> WordSize - 1, x |-> 0, y |-> 0, db |-> 0, narrow |-> TRUE, m8 |-> TRUE,
               here |-> FALSE, move |-> Idle, begun |-> begun]
    BY DEF BmInit, Now
  <2>2. 0 \in 0 .. Nesting + 2
    BY MoveSizes
  <2> QED BY <1>2, <1>3, <1>4, <2>1, <2>2 DEF Context
<1>6. saved \in Seq(Context) /\ Len(saved) = 0 /\ Own = 0
  BY DEF BmInit, Own
<1>7. Holds(Now, Own, copied)
  BY <1>6, MoveSizes DEF Holds, BmInit, Now, Idle
<1> QED BY <1>1, <1>5, <1>6, <1>7, MoveSizes DEF MoveInv, MoveTypes

LEMMA BeginHolds ==
    ASSUME MoveInv, NEW mv \in Moves, NEW n \in BOOLEAN, NEW w \in BOOLEAN,
           NEW i \in Starts, NEW j \in Starts, NEW total \in Counts, Begin(mv, n, i, j, total, w)
    PROVE  MoveInv'
<1>1. total \in AWord /\ i \in AWord /\ j \in AWord
  BY MoveAssumption DEF AWord
<1>2. saved' = saved /\ copied' = copied /\ Own' = Own
  BY DEF Begin, Own
<1>3. Own \in 0 .. Nesting + 1
  BY OwnBank, MoveSizes DEF Bank, MoveInv, MoveTypes
<1>4. mv \in [down : BOOLEAN, from : {0, 1}, to : 0 .. Nesting + 2] /\ mv.to = Own
  BY <1>3, MoveSizes DEF Moves
<1>5. Now' = [c |-> total, x |-> i, y |-> j, db |-> bmB, narrow |-> n, m8 |-> w, here |-> TRUE,
              move |-> mv,
              begun |-> [c |-> total, x |-> i, y |-> j, narrow |-> n, mem |-> copied]]
  BY DEF Begin, Now
<1>6. bmB \in 0 .. Nesting + 2 /\ copied \in Memories
  BY DEF MoveInv, MoveTypes, Now, Context
<1>7. Now' \in Context
  BY <1>1, <1>4, <1>5, <1>6 DEF Context
<1>8. Holds(Now', Own, copied)
  <2> DEFINE t == Now'
  <2>1. t \in Context /\ t.here /\ t.move.to = Own /\ t.c = total /\ t.begun.c = total
        /\ t.narrow = t.begun.narrow /\ t.x = i /\ t.y = j /\ t.begun.x = i /\ t.begun.y = j
        /\ t.begun.mem = copied /\ t.begun.narrow = n
    BY <1>4, <1>5, <1>7
  <2>2. n => i < NarrowSize /\ j < NarrowSize
    BY DEF Begin
  <2> HIDE DEF t
  <2>3. BytesMoved(t) = 0
    BY <1>1, <2>1, MoveSizes DEF BytesMoved, AWord
  <2>4. CellPlace(t, i, 0) = i /\ CellPlace(t, j, 0) = j
    BY <1>1, <2>1, <2>2, PlaceFirst
  <2>5. Going(t)
    BY <1>1, <2>1, <2>3, <2>4, MoveSizes DEF Going, AWord
  <2>6. IsCopied(t, 0, copied)
    BY <2>1 DEF IsCopied
  <2>7. Own <= Own
    BY <1>3
  <2> QED BY <2>1, <2>3, <2>5, <2>6, <2>7 DEF Holds, t
<1> HIDE DEF Now
<1>9. \A l \in 1 .. Len(saved) : Holds(saved[l], Bank(l), copied)
  BY DEF MoveInv
<1>10. saved \in Seq(Context) /\ Len(saved) <= Nesting
  BY DEF MoveInv, MoveTypes
<1>11. MoveTypes'
  BY <1>2, <1>6, <1>7, <1>10 DEF MoveTypes
<1>12. Holds(Now, Own, copied)'
  BY <1>2, <1>8 DEF Now
<1>13. (\A l \in 1 .. Len(saved) : Holds(saved[l], Bank(l), copied))'
  BY <1>2, <1>9
<1> QED BY <1>11, <1>12, <1>13 DEF MoveInv

LEMMA EnterHolds == MoveInv /\ Enter => MoveInv'
<1> SUFFICES ASSUME MoveInv, Enter PROVE MoveInv'
  OBVIOUS
<1>1. saved \in Seq(Context) /\ Len(saved) < Nesting /\ Now \in Context /\ copied \in Memories
  BY DEF MoveInv, MoveTypes, Enter
<1>2. saved' = Append(saved, Now) /\ copied' = copied
  BY DEF Enter
<1>3. Now' = [c |-> count, x |-> bmX, y |-> bmY, db |-> bmB, narrow |-> narrow, m8 |-> m8,
              here |-> FALSE, move |-> move, begun |-> begun]
  BY DEF Enter, Now
<1>4. Holds(Now, Own, copied) /\ \A l \in 1 .. Len(saved) : Holds(saved[l], Bank(l), copied)
  BY DEF MoveInv
<1>5. saved' \in Seq(Context) /\ Len(saved') = Len(saved) + 1
  BY <1>1, <1>2
<1>6. Own = Bank(Len(saved) + 1) /\ Own' = Len(saved) + 2
  <2>1. Own = Bank(Len(saved) + 1)
    BY <1>1, OwnBank
  <2>2. saved' # << >>
    BY <1>5
  <2> QED BY <1>5, <2>1, <2>2 DEF Own
<1>7. Now' \in Context
  <2>1. count \in AWord /\ bmX \in AWord /\ bmY \in AWord /\ bmB \in 0 .. Nesting + 2
        /\ narrow \in BOOLEAN /\ m8 \in BOOLEAN
        /\ move \in [down : BOOLEAN, from : {0, 1}, to : 0 .. Nesting + 2]
        /\ begun \in [c : AWord, x : AWord, y : AWord, narrow : BOOLEAN, mem : Memories]
    BY <1>1 DEF Now, Context
  <2> QED BY <1>3, <2>1 DEF Context
<1>8. ASSUME NEW l \in 1 .. Len(saved) + 1 PROVE Holds(saved'[l], Bank(l), copied')
  <2>1. CASE l = Len(saved) + 1
    <3>1. saved'[l] = Now
      BY <1>1, <1>2, <2>1
    <3> HIDE DEF Now
    <3> QED BY <1>2, <1>4, <1>6, <2>1, <3>1
  <2>2. CASE l # Len(saved) + 1
    <3>1. l \in 1 .. Len(saved) /\ saved'[l] = saved[l]
      BY <1>1, <1>2, <2>2
    <3> QED BY <1>2, <1>4, <3>1
  <2> QED BY <2>1, <2>2
<1>9. Holds(Now', Own', copied')
  <2>1. move <= Own \/ move = move
    OBVIOUS
  <2>2. move.to \in 0 .. Nesting + 2
    BY <1>1 DEF Now, Context
  <2>3. Now'.here = FALSE /\ Now'.move.to = move.to
    BY DEF Now, Enter
  <2>4. move.to <= Own \/ move.to = Nesting + 2
    BY <1>4 DEF Holds, Now
  <2>5. Own <= Len(saved) + 1 /\ Own \in Nat
    BY <1>1, <1>6 DEF Bank
  <2>6. move.to # Own' /\ (move.to <= Own' \/ move.to = Nesting + 2)
    BY <1>1, <1>6, <2>2, <2>4, <2>5, MoveSizes
  <2> HIDE DEF Now
  <2> QED BY <2>3, <2>6 DEF Holds
<1>10. MoveTypes'
  <2> HIDE DEF Now
  <2> QED BY <1>1, <1>2, <1>5, <1>7, MoveSizes DEF MoveTypes
<1>11. (\A l \in 1 .. Len(saved) : Holds(saved[l], Bank(l), copied))'
  <2> HIDE DEF Holds, Bank
  <2> QED BY <1>5, <1>8
<1>12. Holds(Now, Own, copied)'
  BY <1>9
<1> QED BY <1>10, <1>11, <1>12 DEF MoveInv

LEMMA LeaveHolds == MoveInv /\ Leave => MoveInv'
<1> SUFFICES ASSUME MoveInv, Leave PROVE MoveInv'
  OBVIOUS
<1> DEFINE L == Len(saved)
<1>1. saved \in Seq(Context) /\ L \in Nat /\ L >= 1 /\ L <= Nesting /\ copied \in Memories
  BY DEF MoveInv, MoveTypes, Leave
<1>2. saved' = SubSeq(saved, 1, L - 1) /\ copied' = copied
  BY DEF Leave
<1>3. saved[L] \in Context
  BY <1>1
<1>4. Now' = saved[L]
  <2> DEFINE s == saved[L]
  <2>1. s = [c |-> s.c, x |-> s.x, y |-> s.y, db |-> s.db, narrow |-> s.narrow, m8 |-> s.m8,
             here |-> s.here, move |-> s.move, begun |-> s.begun]
    <3> HIDE DEF s
    <3>1. s \in Context
      BY <1>3 DEF s
    <3> QED BY <3>1 DEF Context
  <2>2. Now' = [c |-> s.c, x |-> s.x, y |-> s.y, db |-> s.db, narrow |-> s.narrow, m8 |-> s.m8,
                here |-> s.here, move |-> s.move, begun |-> s.begun]
    BY DEF Leave, Now
  <2> HIDE DEF s
  <2>3. Now' = s
    BY <2>1, <2>2
  <2> QED BY <2>3 DEF s
<1>5. saved' \in Seq(Context) /\ Len(saved') = L - 1 /\ \A l \in 1 .. L - 1 : saved'[l] = saved[l]
  <2> DEFINE q == SubSeq(saved, 1, L - 1)
  <2>1. q \in Seq(Context)
    BY <1>1
  <2>2. Len(q) = L - 1
    <3> HIDE DEF L
    <3> QED BY <1>1
  <2>3. \A l \in 1 .. L - 1 : q[l] = saved[l]
    BY <1>1
  <2> HIDE DEF q
  <2> QED BY <1>2, <2>1, <2>2, <2>3 DEF q
<1>6. Own' = Bank(L)
  <2>1. saved' \in Seq(Context) => Own' = Bank(Len(saved') + 1)
    <3>1. CASE saved' = << >>
      BY <3>1 DEF Own, Bank
    <3>2. CASE saved' # << >>
      BY <3>2 DEF Own, Bank
    <3> QED BY <3>1, <3>2
  <2>2. Len(saved') + 1 = L
    BY <1>1, <1>5
  <2> QED BY <1>5, <2>1, <2>2
<1>7. \A l \in 1 .. L : Holds(saved[l], Bank(l), copied)
  BY DEF MoveInv
<1> HIDE DEF Now, L
<1>8. MoveTypes'
  BY <1>1, <1>2, <1>3, <1>4, <1>5, MoveSizes DEF MoveTypes
<1>9. Holds(Now, Own, copied)'
  BY <1>1, <1>2, <1>4, <1>6, <1>7
<1>10. (\A l \in 1 .. Len(saved) : Holds(saved[l], Bank(l), copied))'
  <2>1. ASSUME NEW l \in 1 .. L - 1 PROVE Holds(saved'[l], Bank(l), copied')
    BY <1>1, <1>2, <1>5, <1>7
  <2> QED BY <1>5, <2>1
<1> QED BY <1>8, <1>9, <1>10 DEF MoveInv

LEMMA StepHolds == MoveInv /\ Step => MoveInv'
<1> SUFFICES ASSUME MoveInv, Step PROVE MoveInv'
  OBVIOUS
<1> DEFINE t == Now
<1> DEFINE u == Now'
<1> DEFINE n == BytesMoved(t)
<1> DEFINE d == IF move.down THEN -1 ELSE 1
<1>1. here /\ saved' = saved /\ Own' = Own
  BY DEF Step, Own
<1>2. t \in Context /\ t.here /\ t.move = move /\ t.begun = begun /\ t.c = count /\ t.x = bmX
      /\ t.y = bmY /\ t.narrow = narrow
  BY <1>1 DEF MoveInv, MoveTypes, Now
<1>3. copied \in Memories /\ saved \in Seq(Context) /\ Len(saved) <= Nesting
  BY DEF MoveInv, MoveTypes
<1>4. Holds(t, Own, copied) /\ \A l \in 1 .. Len(saved) : Holds(saved[l], Bank(l), copied)
  BY DEF MoveInv
<1>5. Own = Bank(Len(saved) + 1) /\ Own \in 0 .. Nesting + 1
  BY <1>3, OwnBank, MoveSizes DEF Bank
<1> HIDE DEF t, n
<1>6. move.to = Own /\ Going(t) /\ IsCopied(t, n, copied)
  BY <1>2, <1>4 DEF Holds, n
<1>7. count \in 0 .. begun.c /\ begun.c \in AWord /\ n = begun.c - count /\ n \in 0 .. begun.c
  <2>1. begun.c \in AWord
    BY <1>2 DEF Context
  <2>2. count \in 0 .. begun.c
    BY <1>2, <1>6 DEF Going
  <2> QED BY <1>2, <2>1, <2>2, MoveSizes DEF BytesMoved, n, AWord
<1>8. Counted = IF count = 0 THEN WordSize - 1 ELSE count - 1
  <2>1. CASE count = 0
    <3>1. WordSize * (-1) + (WordSize - 1) = 0 - 1 /\ WordSize - 1 \in 0 .. WordSize - 1
      BY MoveSizes
    <3>2. (0 - 1) % WordSize = WordSize - 1
      BY <3>1, MoveSizes, RemainderUnique
    <3> QED BY <2>1, <3>2 DEF Counted
  <2>2. CASE count # 0
    <3>1. count - 1 \in 0 .. WordSize - 1
      BY <1>7, <2>2, MoveSizes DEF AWord
    <3> QED BY <2>2, <3>1, MoveSizes DEF Counted
  <2> QED BY <2>1, <2>2
<1>9. d = (IF t.move.down THEN -1 ELSE 1) /\ Size = IndexSize(t.begun.narrow)
  BY <1>2, <1>6 DEF Going, Size, IndexSize
<1>10. bmX = CellPlace(t, t.begun.x, n) /\ bmY = CellPlace(t, t.begun.y, n)
  BY <1>2, <1>6 DEF Going, n
<1>11. begun.x \in AWord /\ begun.y \in AWord
  BY <1>2 DEF Context
<1>12. bmX' = CellPlace(t, t.begun.x, n + 1) /\ bmY' = CellPlace(t, t.begun.y, n + 1)
  <2>1. bmX' = (bmX + d) % Size /\ bmY' = (bmY + d) % Size
    BY DEF Step
  <2> HIDE DEF d
  <2>2. n \in Int /\ t.begun.x \in AWord /\ t.begun.y \in AWord
    BY <1>2, <1>7, <1>11
  <2>3. (CellPlace(t, t.begun.x, n) + d) % Size = CellPlace(t, t.begun.x, n + 1)
    BY <1>2, <1>9, <2>2, PlaceNext
  <2>4. (CellPlace(t, t.begun.y, n) + d) % Size = CellPlace(t, t.begun.y, n + 1)
    BY <1>2, <1>9, <2>2, PlaceNext
  <2> QED BY <1>10, <2>1, <2>3, <2>4
<1>13. bmX' \in AWord /\ bmY' \in AWord
  BY <1>2, <1>7, <1>11, <1>12, PlaceInWord
<1>14. count' = Counted /\ here' = (Counted # WordSize - 1) /\ bmB' = move.to
       /\ narrow' = narrow /\ m8' = m8 /\ move' = move /\ begun' = begun
  BY DEF Step
<1>15. copied' = [copied EXCEPT ![Target(t, n)] = copied[Source(t, n)]]
  BY <1>2, <1>10 DEF Step, Target, Source
<1> HIDE DEF u, d
<1>16. u = [c |-> Counted, x |-> bmX', y |-> bmY', db |-> move.to, narrow |-> narrow, m8 |-> m8,
            here |-> (count # 0), move |-> move, begun |-> begun]
  <2>1. here' = (count # 0)
    <3>1. CASE count = 0
      BY <1>8, <1>14, <3>1
    <3>2. CASE count # 0
      <4>1. count - 1 # WordSize - 1
        BY <1>7, <3>2, MoveSizes DEF AWord
      <4> QED BY <1>8, <1>14, <3>2, <4>1
    <3> QED BY <3>1, <3>2
  <2> QED BY <1>14, <2>1 DEF u, Now
<1>17. u \in Context
  <2>1. Counted \in AWord
    BY <1>7, <1>8, MoveSizes DEF AWord
  <2>2. move.to \in 0 .. Nesting + 2 /\ narrow \in BOOLEAN /\ m8 \in BOOLEAN
        /\ move \in [down : BOOLEAN, from : {0, 1}, to : 0 .. Nesting + 2]
        /\ begun \in [c : AWord, x : AWord, y : AWord, narrow : BOOLEAN, mem : Memories]
    BY <1>2 DEF Context, t, Now
  <2>3. (count # 0) \in BOOLEAN
    OBVIOUS
  <2> QED BY <1>13, <1>16, <2>1, <2>2, <2>3 DEF Context
<1>18. u.move = t.move /\ u.begun = t.begun /\ u.db = move.to /\ u.here = (count # 0)
       /\ u.narrow = t.narrow /\ u.c = Counted /\ u.x = bmX' /\ u.y = bmY'
  BY <1>2, <1>16
<1>19. BytesMoved(u) = n + 1
  <2>0. u.begun = begun /\ u.c = Counted
    BY <1>2, <1>18
  <2>1. CASE count = 0
    <3>1. ~ u.here
      BY <1>18, <2>1
    <3>2. n = begun.c
      BY <1>7, <2>1, MoveSizes DEF AWord
    <3> QED BY <2>0, <3>1, <3>2 DEF BytesMoved
  <2>2. CASE count # 0
    <3>1. u.here = TRUE /\ Counted = count - 1
      BY <1>8, <1>18, <2>2
    <3>2. BytesMoved(u) = begun.c - (count - 1)
      BY <2>0, <3>1 DEF BytesMoved
    <3> QED BY <1>7, <3>2, MoveSizes DEF AWord
  <2> QED BY <2>1, <2>2
<1>20. \A i \in Int : Target(t, i) \in Cell /\ Source(t, i) \in Cell
                     /\ Target(t, i)[1] = Own /\ Source(t, i)[1] = t.move.from
  BY <1>2, <1>5, <1>6, TargetIsCell, MoveSizes
<1>21. copied' \in Memories
  BY <1>3, <1>7, <1>15, <1>20 DEF Memories
<1>22. copied'[Target(t, n)] = copied[Source(t, n)]
       /\ \A a \in Cell : a # Target(t, n) => copied'[a] = copied[a]
  BY <1>3, <1>7, <1>15, <1>20 DEF Memories
<1>23. IsCopied(t, n + 1, copied')
  <2>1. ASSUME Apart(t), NEW i \in 0 .. (n + 1) - 1
        PROVE  copied'[Target(t, i)] = t.begun.mem[Source(t, i)]
    <3>1. CASE i = n
      <4>1. CASE t.move.from = t.move.to
        <5>1. \A j \in 0 .. n - 1 : Source(t, n) # Target(t, j)
          BY <1>2, <1>7, <2>1, MoveSizes DEF Apart, AWord
        <5>2. Source(t, n) \in Cell /\ Source(t, n)[1] = t.move.to
          BY <1>7, <1>20, <4>1
        <5>3. copied[Source(t, n)] = t.begun.mem[Source(t, n)]
          BY <1>6, <5>1, <5>2 DEF IsCopied
        <5> QED BY <1>22, <3>1, <5>3
      <4>2. CASE t.move.from # t.move.to
        <5>1. copied[Source(t, n)] = t.begun.mem[Source(t, n)]
          BY <1>6, <1>7, <1>20, <4>2 DEF IsCopied
        <5> QED BY <1>22, <3>1, <5>1
      <4> QED BY <4>1, <4>2
    <3>2. CASE i # n
      <4>1. i \in 0 .. n - 1 /\ i < n /\ i \in 0 .. t.begun.c /\ n \in 0 .. t.begun.c /\ i \in Int
        BY <1>2, <1>7, <3>2, MoveSizes DEF AWord
      <4>2. Target(t, i) # Target(t, n)
        BY <2>1, <4>1 DEF Apart
      <4>3. copied[Target(t, i)] = t.begun.mem[Source(t, i)]
        BY <1>6, <2>1, <4>1 DEF IsCopied
      <4> QED BY <1>20, <1>22, <4>1, <4>2, <4>3
    <3> QED BY <3>1, <3>2
  <2>2. ASSUME NEW a \in Cell, a[1] = t.move.to, \A i \in 0 .. (n + 1) - 1 : a # Target(t, i)
        PROVE  copied'[a] = t.begun.mem[a]
    <3>1. a # Target(t, n) /\ \A i \in 0 .. n - 1 : a # Target(t, i)
      BY <1>7, <2>2, MoveSizes DEF AWord
    <3>2. copied[a] = t.begun.mem[a]
      BY <1>6, <2>2, <3>1 DEF IsCopied
    <3> QED BY <1>22, <3>1, <3>2
  <2>3. ASSUME t.move.from # t.move.to, NEW a \in Cell, a[1] = t.move.from
        PROVE  copied'[a] = t.begun.mem[a]
    <3>1. a # Target(t, n)
      BY <1>2, <1>6, <1>7, <1>20, <2>3
    <3>2. copied[a] = t.begun.mem[a]
      BY <1>6, <2>3 DEF IsCopied
    <3> QED BY <1>22, <3>1, <3>2
  <2> QED BY <2>1, <2>2, <2>3 DEF IsCopied
<1>24. \A base, i : CellPlace(u, base, i) = CellPlace(t, base, i)
  BY <1>18 DEF CellPlace
<1>25. IsCopied(u, n + 1, copied')
  BY <1>18, <1>23, <1>24 DEF IsCopied, Apart, Target, Source
<1>26. u.here => Going(u)
  <2> SUFFICES ASSUME u.here PROVE Going(u)
    OBVIOUS
  <2>1. u.c = count - 1 /\ u.c \in 0 .. u.begun.c
    <3>1. u.begun = begun /\ u.c = Counted /\ count # 0
      BY <1>2, <1>18
    <3>2. Counted = count - 1
      BY <1>8, <3>1
    <3>3. count - 1 \in 0 .. begun.c
      BY <1>7, <3>1, MoveSizes DEF AWord
    <3> QED BY <3>1, <3>2, <3>3
  <2>2. u.narrow = u.begun.narrow
    BY <1>6, <1>18 DEF Going
  <2>3. u.x = CellPlace(u, u.begun.x, n + 1) /\ u.y = CellPlace(u, u.begun.y, n + 1)
    BY <1>12, <1>18, <1>24
  <2> QED BY <1>19, <2>1, <2>2, <2>3 DEF Going
<1>27. Holds(u, Own, copied')
  <2>1. u.move.to = Own /\ Own <= Own /\ u.db = u.move.to
    BY <1>2, <1>5, <1>6, <1>18
  <2> QED BY <1>19, <1>25, <1>26, <2>1 DEF Holds
<1>28. ASSUME NEW l \in 1 .. Len(saved) PROVE Holds(saved[l], Bank(l), copied')
  <2>1. saved[l] \in Context /\ Bank(l) \in 0 .. Nesting + 1 /\ Own \in Nat /\ Own # Bank(l) /\ Own > 1
    BY <1>3, <1>5, MoveSizes DEF Bank
  <2>2. \A a \in Cell : a[1] # Own => copied'[a] = copied[a]
    BY <1>7, <1>20, <1>22
  <2>3. Holds(saved[l], Bank(l), copied)
    BY <1>4
  <2> HIDE DEF Bank
  <2> QED BY <2>1, <2>2, <2>3, HoldsApart
<1>29. MoveTypes'
  BY <1>1, <1>3, <1>17, <1>21 DEF MoveTypes, u
<1>30. Holds(Now, Own, copied)'
  BY <1>1, <1>27 DEF u
<1>31. (\A l \in 1 .. Len(saved) : Holds(saved[l], Bank(l), copied))'
  BY <1>1, <1>28
<1> QED BY <1>29, <1>30, <1>31 DEF MoveInv

LEMMA MoveStep == MoveInv /\ [BmNext]_bmVars => MoveInv'
<1> SUFFICES ASSUME MoveInv, [BmNext]_bmVars PROVE MoveInv'
  OBVIOUS
<1>1. CASE \E mv \in Moves, n, w \in BOOLEAN, i, j \in Starts, total \in Counts :
              Begin(mv, n, i, j, total, w)
  BY <1>1, BeginHolds
<1>2. CASE Step
  BY <1>2, StepHolds
<1>3. CASE Enter
  BY <1>3, EnterHolds
<1>4. CASE Leave
  BY <1>4, LeaveHolds
<1>5. CASE UNCHANGED bmVars
  <2>1. copied' = copied /\ saved' = saved /\ Own' = Own /\ Now' = Now
    BY <1>5 DEF bmVars, Own, Now
  <2> HIDE DEF Now, Own
  <2> QED BY <2>1 DEF MoveInv, MoveTypes
<1> QED BY <1>1, <1>2, <1>3, <1>4, <1>5 DEF BmNext

LEMMA MoveAtEnd == MoveInv => MoveIsWhole
<1> SUFFICES ASSUME MoveInv, ~ here, count = WordSize - 1, move.to = Own PROVE
      /\ bmB = move.to
      /\ Safe => \A i \in Indices : copied[To(i)] = begun.mem[From(i)]
      /\ \A a \in Cell : a[1] = move.to /\ a \notin {To(i) : i \in Indices}
            => copied[a] = begun.mem[a]
  BY DEF MoveIsWhole
<1> DEFINE t == Now
<1>1. t.here = here /\ t.move = move /\ t.begun = begun /\ t.db = bmB
  BY DEF Now
<1>2. t \in Context /\ Holds(t, Own, copied)
  BY DEF MoveInv, MoveTypes
<1> HIDE DEF t
<1>3. begun.c \in AWord
  BY <1>1, <1>2 DEF Context
<1>4. BytesMoved(t) = begun.c + 1
  BY <1>1 DEF BytesMoved
<1>5. BytesMoved(t) > 0 /\ 0 .. BytesMoved(t) - 1 = Indices
  BY <1>3, <1>4, MoveSizes DEF AWord, Indices
<1>6. t.db = t.move.to /\ IsCopied(t, BytesMoved(t), copied)
  BY <1>1, <1>2, <1>5 DEF Holds
<1>7. \A i : Target(t, i) = To(i) /\ Source(t, i) = From(i)
  BY <1>1 DEF Target, Source, CellPlace, To, From, At
<1>8. Safe => Apart(t)
  BY <1>1, <1>7 DEF Safe, Apart, Indices
<1>9. Safe => \A i \in Indices : copied[To(i)] = begun.mem[From(i)]
  BY <1>1, <1>5, <1>6, <1>7, <1>8 DEF IsCopied
<1>10. \A a \in Cell : a[1] = move.to /\ a \notin {To(i) : i \in Indices} => copied[a] = begun.mem[a]
  BY <1>1, <1>5, <1>6, <1>7 DEF IsCopied
<1> QED BY <1>1, <1>6, <1>9, <1>10

\* However many handlers come between the bytes of a block move, and whatever
\* they move themselves, it copies each byte as it was when the move was begun
\* and leaves every other cell of its bank alone (mvn, mvp), for registers and
\* blocks of any size.
THEOREM MovesCorrect == BmSpec => []MoveIsWhole
<1>1. BmSpec => []MoveInv
  BY MoveStarts, MoveStep, PTL DEF BmSpec
<1> QED BY <1>1, MoveAtEnd, PTL

-----------------------------------------------------------------------------
\* The sizes of digits, bytes and words, and their halves.
LEMMA AluSizes ==
    /\ Digit \in Nat \ {0} /\ ByteVals \in Nat \ {0} /\ WordVals \in Nat \ {0}
    /\ Ten \in Nat \ {0} /\ Ten < Digit
    /\ ByteVals = Digit * Digit /\ WordVals = ByteVals * ByteVals
    /\ \A w \in BOOLEAN : Vals(w) \in Nat \ {0}
<1>1. Digit \in Nat \ {0} /\ Ten \in Nat \ {0} /\ Ten < Digit
  BY AluAssumption
<1>2. \A a \in Nat \ {0} : a * a \in Nat \ {0}
  OBVIOUS
<1>3. ByteVals \in Nat \ {0}
  BY <1>1, <1>2 DEF ByteVals
<1>4. WordVals \in Nat \ {0}
  BY <1>3, <1>2 DEF WordVals
<1> QED BY <1>1, <1>3, <1>4 DEF ByteVals, WordVals, Vals

LEMMA AluHalves ==
    \E h \in Nat \ {0} :
        /\ Digit = 2 * h
        /\ ByteVals = 2 * (h * Digit) /\ ByteVals \div 2 = h * Digit
        /\ WordVals = 2 * (h * Digit * ByteVals) /\ WordVals \div 2 = h * Digit * ByteVals
<1>1. PICK h \in Nat \ {0} : Digit = 2 * h
  <2>1. Digit \in Nat /\ Digit % 2 = 0 /\ Digit # 0
    BY AluAssumption
  <2>2. Digit = 2 * (Digit \div 2) + (Digit % 2) /\ Digit \div 2 \in Nat
    BY <2>1
  <2>3. Digit = 2 * (Digit \div 2) /\ Digit \div 2 # 0
    BY <2>1, <2>2
  <2>4. Digit \div 2 \in Nat \ {0}
    BY <2>2, <2>3
  <2> QED BY <2>3, <2>4
<1>2. \A a, b \in Nat : a = 2 * b => a \div 2 = b
  OBVIOUS
<1>3. ByteVals = 2 * (h * Digit) /\ h * Digit \in Nat /\ ByteVals \in Nat
  BY <1>1, AluSizes
<1>4. WordVals = 2 * (h * Digit * ByteVals) /\ h * Digit * ByteVals \in Nat /\ WordVals \in Nat
  <2> DEFINE j == h * Digit
  <2>1. WordVals = ByteVals * ByteVals /\ ByteVals = 2 * j /\ j \in Nat /\ ByteVals \in Nat
        /\ WordVals \in Nat
    BY <1>3, AluSizes
  <2> HIDE DEF j
  <2>2. WordVals = 2 * (j * ByteVals) /\ j * ByteVals \in Nat
    BY <2>1
  <2> QED BY <2>1, <2>2 DEF j
<1> QED BY <1>1, <1>2, <1>3, <1>4

-----------------------------------------------------------------------------
AluType ==
    /\ aluC \in 0 .. WordVals - 1 /\ aluM \in 0 .. WordVals - 1
    /\ aluX \in 0 .. WordVals - 1 /\ aluY \in 0 .. WordVals - 1
    /\ aluP \in SUBSET AluFlags

LEMMA PutType ==
    ASSUME NEW q \in SUBSET AluFlags, NEW f \in AluFlags, NEW b
    PROVE  Put(q, f, b) \in SUBSET AluFlags
BY DEF Put

LEMMA NZType ==
    ASSUME NEW q \in SUBSET AluFlags, NEW n, NEW w
    PROVE  NZ(q, n, w) \in SUBSET AluFlags
BY PutType DEF NZ, AluFlags

LEMMA SaveType ==
    ASSUME NEW reg \in 0 .. WordVals - 1, NEW n \in Int, NEW w \in BOOLEAN
    PROVE  Save(reg, n, w) \in 0 .. WordVals - 1
<1>1. ByteVals \in Nat \ {0} /\ WordVals \in Nat \ {0} /\ WordVals = ByteVals * ByteVals
  BY AluSizes
<1>2. CASE w
  BY <1>1, <1>2, Remainder DEF Save
<1>3. CASE ~ w
  <2>1. PICK d \in 0 .. ByteVals - 1 : d = reg \div ByteVals
    BY <1>1, DivBelow
  <2>2. PICK r \in 0 .. ByteVals - 1 : r = n % ByteVals
    BY <1>1, Remainder
  <2>3. Save(reg, n, w) = ByteVals * d + r
    BY <1>3, <2>1, <2>2 DEF Save
  <2>4. ByteVals * d + r >= 0 /\ ByteVals * d <= ByteVals * (ByteVals - 1)
        /\ ByteVals * (ByteVals - 1) = WordVals - ByteVals
    BY <1>1
  <2>5. ByteVals * d \in Int
    BY <1>1
  <2> QED BY <1>1, <2>3, <2>4, <2>5
<1> QED BY <1>2, <1>3

-----------------------------------------------------------------------------
\* The sums of the digits are defined, one after the other.
DigitSum(a, v, i, c) == DigitOf(a, i) + DigitOf(v, i) + c
OutOf(t) == IF t > Ten - 1 THEN 1 ELSE 0

LEMMA SumsAre ==
    ASSUME NEW a, NEW v, NEW j, NEW w \in BOOLEAN
    PROVE  LET s == DecimalSums(a, v, j, w)
           IN  /\ s[0] = DigitSum(a, v, 0, j)
               /\ \A i \in Digits(w) : i # 0 => s[i] = DigitSum(a, v, i, OutOf(s[i - 1]))
<1> DEFINE Body(t) == [i \in Digits(w) |-> DigitOf(a, i) + DigitOf(v, i)
                + (IF i = 0 THEN j ELSE IF t[i - 1] > Ten - 1 THEN 1 ELSE 0)]
           s0 == DigitSum(a, v, 0, j)
           s1 == DigitSum(a, v, 1, OutOf(s0))
           s2 == DigitSum(a, v, 2, OutOf(s1))
           s3 == DigitSum(a, v, 3, OutOf(s2))
           g == [i \in Digits(w) |-> IF i = 0 THEN s0 ELSE IF i = 1 THEN s1 ELSE IF i = 2 THEN s2 ELSE s3]
           s == DecimalSums(a, v, j, w)
<1>1. s = CHOOSE t : t = Body(t)
  BY DEF DecimalSums
<1>2. g = Body(g)
  <2>1. \A i \in Digits(w) : g[i] = Body(g)[i]
    <3> SUFFICES ASSUME NEW i \in Digits(w) PROVE g[i] = Body(g)[i]
      OBVIOUS
    <3>0. i \in {0, 1, 2, 3} /\ (i = 2 \/ i = 3 => w) /\ DOMAIN g = Digits(w) /\ 0 \in Digits(w) /\ 1 \in Digits(w) /\ (w => 2 \in Digits(w))
      BY DEF Digits
    <3>1. g[0] = s0 /\ g[1] = s1 /\ (w => g[2] = s2)
      BY <3>0
    <3>2. Body(g)[i] = DigitOf(a, i) + DigitOf(v, i)
                + (IF i = 0 THEN j ELSE IF g[i - 1] > Ten - 1 THEN 1 ELSE 0)
      OBVIOUS
    <3>3. CASE i = 0
      BY <3>1, <3>2, <3>3 DEF DigitSum
    <3>4. CASE i = 1
      <4>1. Body(g)[i] = DigitOf(a, 1) + DigitOf(v, 1) + (IF g[0] > Ten - 1 THEN 1 ELSE 0)
        BY <3>2, <3>4
      <4> QED BY <3>1, <4>1, <3>4 DEF DigitSum, OutOf
    <3>5. CASE i = 2
      <4>1. Body(g)[i] = DigitOf(a, 2) + DigitOf(v, 2) + (IF g[1] > Ten - 1 THEN 1 ELSE 0)
        BY <3>2, <3>5
      <4>2. g[2] = DigitOf(a, 2) + DigitOf(v, 2) + (IF g[1] > Ten - 1 THEN 1 ELSE 0)
        <5>1. g[2] = DigitSum(a, v, 2, OutOf(g[1]))
          BY <3>0, <3>1, <3>5
        <5> HIDE DEF g
        <5> QED BY <5>1 DEF DigitSum, OutOf
      <4> HIDE DEF g, Body
      <4> QED BY <4>1, <4>2, <3>5
    <3>6. CASE i = 3
      <4>1. Body(g)[i] = DigitOf(a, 3) + DigitOf(v, 3) + (IF g[2] > Ten - 1 THEN 1 ELSE 0)
        BY <3>2, <3>6
      <4>2. g[3] = DigitOf(a, 3) + DigitOf(v, 3) + (IF g[2] > Ten - 1 THEN 1 ELSE 0)
        <5>1. g[3] = s3 /\ s3 = DigitSum(a, v, 3, OutOf(s2)) /\ g[2] = s2
          BY <3>0, <3>1, <3>6
        <5> HIDE DEF g, s3, s2
        <5> QED BY <5>1 DEF DigitSum, OutOf
      <4> HIDE DEF g, Body
      <4> QED BY <4>1, <4>2, <3>6
    <3> QED BY <3>0, <3>3, <3>4, <3>5, <3>6
  <2> HIDE DEF s0, s1, s2, s3
  <2> QED BY <2>1
<1>3. s = Body(s)
  <2> HIDE DEF Body, g, s
  <2> QED BY <1>1, <1>2
<1> HIDE DEF g, s0, s1, s2, s3
<1>5. \A i \in Digits(w) : s[i] = DigitOf(a, i) + DigitOf(v, i)
                + (IF i = 0 THEN j ELSE IF s[i - 1] > Ten - 1 THEN 1 ELSE 0)
  <2> HIDE DEF s
  <2> QED BY <1>3
<1> HIDE DEF s, Body
<1>6. s[0] = DigitSum(a, v, 0, j)
  <2>1. 0 \in Digits(w)
    BY DEF Digits
  <2> QED BY <2>1, <1>5 DEF DigitSum
<1>7. \A i \in Digits(w) : i # 0 => s[i] = DigitSum(a, v, i, OutOf(s[i - 1]))
  BY <1>5 DEF DigitSum, OutOf
<1> QED BY <1>6, <1>7 DEF s
-----------------------------------------------------------------------------
\* The same for differences.
DigitDifference(a, v, i, c) == (DigitOf(a, i) - DigitOf(v, i)) - c
Under(t) == IF t < 0 THEN 1 ELSE 0

LEMMA DifferencesAre ==
    ASSUME NEW a, NEW v, NEW j, NEW w \in BOOLEAN
    PROVE  LET s == DecimalDifferences(a, v, j, w)
           IN  /\ s[0] = DigitDifference(a, v, 0, 1 - j)
               /\ \A i \in Digits(w) : i # 0 => s[i] = DigitDifference(a, v, i, Under(s[i - 1]))
<1> DEFINE Body(t) == [i \in Digits(w) |-> (DigitOf(a, i) - DigitOf(v, i))
                - (IF i = 0 THEN 1 - j ELSE IF t[i - 1] < 0 THEN 1 ELSE 0)]
           s0 == DigitDifference(a, v, 0, 1 - j)
           s1 == DigitDifference(a, v, 1, Under(s0))
           s2 == DigitDifference(a, v, 2, Under(s1))
           s3 == DigitDifference(a, v, 3, Under(s2))
           g == [i \in Digits(w) |-> IF i = 0 THEN s0 ELSE IF i = 1 THEN s1 ELSE IF i = 2 THEN s2 ELSE s3]
           s == DecimalDifferences(a, v, j, w)
<1>1. s = CHOOSE t : t = Body(t)
  BY DEF DecimalDifferences
<1>2. g = Body(g)
  <2>1. \A i \in Digits(w) : g[i] = Body(g)[i]
    <3> SUFFICES ASSUME NEW i \in Digits(w) PROVE g[i] = Body(g)[i]
      OBVIOUS
    <3>0. i \in {0, 1, 2, 3} /\ (i = 2 \/ i = 3 => w) /\ DOMAIN g = Digits(w)
          /\ 0 \in Digits(w) /\ 1 \in Digits(w) /\ (w => 2 \in Digits(w))
      BY DEF Digits
    <3>1. g[0] = s0 /\ g[1] = s1 /\ (w => g[2] = s2)
      BY <3>0
    <3>2. Body(g)[i] = (DigitOf(a, i) - DigitOf(v, i))
                - (IF i = 0 THEN 1 - j ELSE IF g[i - 1] < 0 THEN 1 ELSE 0)
      OBVIOUS
    <3>3. CASE i = 0
      BY <3>1, <3>2, <3>3 DEF DigitDifference
    <3>4. CASE i = 1
      <4>1. Body(g)[i] = (DigitOf(a, 1) - DigitOf(v, 1)) - (IF g[0] < 0 THEN 1 ELSE 0)
        BY <3>2, <3>4
      <4> QED BY <3>1, <4>1, <3>4 DEF DigitDifference, Under
    <3>5. CASE i = 2
      <4>1. Body(g)[i] = (DigitOf(a, 2) - DigitOf(v, 2)) - (IF g[1] < 0 THEN 1 ELSE 0)
        BY <3>2, <3>5
      <4>2. g[2] = (DigitOf(a, 2) - DigitOf(v, 2)) - (IF g[1] < 0 THEN 1 ELSE 0)
        <5>1. g[2] = DigitDifference(a, v, 2, Under(g[1]))
          BY <3>0, <3>1, <3>5
        <5> HIDE DEF g
        <5> QED BY <5>1 DEF DigitDifference, Under
      <4> HIDE DEF g, Body
      <4> QED BY <4>1, <4>2, <3>5
    <3>6. CASE i = 3
      <4>1. Body(g)[i] = (DigitOf(a, 3) - DigitOf(v, 3)) - (IF g[2] < 0 THEN 1 ELSE 0)
        BY <3>2, <3>6
      <4>2. g[3] = (DigitOf(a, 3) - DigitOf(v, 3)) - (IF g[2] < 0 THEN 1 ELSE 0)
        <5>1. g[3] = s3 /\ s3 = DigitDifference(a, v, 3, Under(s2)) /\ g[2] = s2
          BY <3>0, <3>1, <3>6
        <5> HIDE DEF g, s3, s2
        <5> QED BY <5>1 DEF DigitDifference, Under
      <4> HIDE DEF g, Body
      <4> QED BY <4>1, <4>2, <3>6
    <3> QED BY <3>0, <3>3, <3>4, <3>5, <3>6
  <2> HIDE DEF s0, s1, s2, s3
  <2> QED BY <2>1
<1>3. s = Body(s)
  <2> HIDE DEF Body, g, s
  <2> QED BY <1>1, <1>2
<1> HIDE DEF g, s0, s1, s2, s3
<1>5. \A i \in Digits(w) : s[i] = (DigitOf(a, i) - DigitOf(v, i))
                - (IF i = 0 THEN 1 - j ELSE IF s[i - 1] < 0 THEN 1 ELSE 0)
  <2> HIDE DEF s
  <2> QED BY <1>3
<1> HIDE DEF s, Body
<1>6. s[0] = DigitDifference(a, v, 0, 1 - j)
  <2>1. 0 \in Digits(w)
    BY DEF Digits
  <2> QED BY <2>1, <1>5 DEF DigitDifference
<1>7. \A i \in Digits(w) : i # 0 => s[i] = DigitDifference(a, v, i, Under(s[i - 1]))
  BY <1>5 DEF DigitDifference, Under
<1> QED BY <1>6, <1>7 DEF s

-----------------------------------------------------------------------------
\* A byte of two digits and a word of two bytes.
Pair(x, y) == x + (y * Digit)
Word2(lo, hi) == (ByteVals * hi) + lo
Digs == 0 .. Digit - 1

LEMMA PairDigits ==
    ASSUME NEW x \in Digs, NEW y \in Digs
    PROVE  /\ Pair(x, y) \in 0 .. ByteVals - 1
           /\ DigitOf(Pair(x, y), 0) = x /\ DigitOf(Pair(x, y), 1) = y
<1> DEFINE n == Pair(x, y)
<1>0. Digit \in Nat \ {0} /\ x \in Nat /\ y \in Nat /\ y * Digit \in Nat /\ n = x + (y * Digit)
  BY AluSizes DEF Digs, Pair
<1>1. n \in 0 .. ByteVals - 1
  <2>1. y * Digit <= (Digit - 1) * Digit /\ (Digit - 1) * Digit = ByteVals - Digit
    BY <1>0, AluSizes DEF Digs
  <2>2. n < ByteVals /\ n \in Nat /\ ByteVals \in Nat
    BY <1>0, <2>1, AluSizes DEF Digs
  <2> QED BY <2>2
<1>2. n \div Digit = y /\ n % Digit = x
  <2>1. n = Digit * y + x /\ n \in Nat
    BY <1>0
  <2> HIDE DEF n
  <2> QED BY <1>0, <2>1, DivUnique DEF Digs
<1>3. n \div 1 = n
  <2> HIDE DEF n
  <2> QED BY <1>1
<1>4. y % Digit = y
  BY <1>0 DEF Digs
<1>5. Weight(0) = 1 /\ Weight(1) = Digit
  BY DEF Weight
<1> HIDE DEF n
<1> QED BY <1>1, <1>2, <1>3, <1>4, <1>5 DEF DigitOf, n

LEMMA IsPair ==
    ASSUME NEW n \in 0 .. ByteVals - 1
    PROVE  \E x, y \in Digs : n = Pair(x, y)
<1>1. Digit \in Nat \ {0} /\ n \in Nat /\ ByteVals = Digit * Digit
  BY AluSizes
<1>2. n \div Digit \in Digs
  BY <1>1, DivBelow DEF Digs
<1>3. n % Digit \in Digs /\ n = (Digit * (n \div Digit)) + (n % Digit)
  BY <1>1, DivMod DEF Digs
<1>4. PICK x \in Digs, y \in Digs : x = n % Digit /\ y = n \div Digit
  BY <1>2, <1>3
<1>5. n = Pair(x, y)
  <2>1. n = (Digit * y) + x /\ Digit \in Nat /\ y \in Nat /\ x \in Nat
    BY <1>1, <1>3, <1>4 DEF Digs
  <2>2. Digit * y = y * Digit /\ Digit * y \in Nat
    BY <2>1
  <2> QED BY <2>1, <2>2 DEF Pair
<1> QED BY <1>5

LEMMA Word2Parts ==
    ASSUME NEW lo \in 0 .. ByteVals - 1, NEW hi \in 0 .. ByteVals - 1
    PROVE  /\ Word2(lo, hi) \in 0 .. WordVals - 1
           /\ Word2(lo, hi) \div ByteVals = hi /\ Word2(lo, hi) % ByteVals = lo
<1> DEFINE n == Word2(lo, hi)
<1>0. ByteVals \in Nat \ {0} /\ lo \in Nat /\ hi \in Nat /\ ByteVals * hi \in Nat /\ n = (ByteVals * hi) + lo
  BY AluSizes DEF Word2
<1>1. n \in 0 .. WordVals - 1
  <2>1. ByteVals * hi <= ByteVals * (ByteVals - 1) /\ ByteVals * (ByteVals - 1) = WordVals - ByteVals
    BY <1>0, AluSizes
  <2>2. n < WordVals /\ n \in Nat /\ WordVals \in Nat
    BY <1>0, <2>1, AluSizes
  <2> QED BY <2>2
<1>2. n \div ByteVals = hi /\ n % ByteVals = lo
  <2>1. n \in Nat
    BY <1>1
  <2> HIDE DEF n
  <2> QED BY <1>0, <2>1, DivUnique
<1> QED BY <1>1, <1>2

LEMMA IsWord2 ==
    ASSUME NEW n \in 0 .. WordVals - 1
    PROVE  /\ n % ByteVals \in 0 .. ByteVals - 1 /\ n \div ByteVals \in 0 .. ByteVals - 1
           /\ n = Word2(n % ByteVals, n \div ByteVals)
<1>1. ByteVals \in Nat \ {0} /\ n \in Nat /\ WordVals = ByteVals * ByteVals
  BY AluSizes
<1>2. n \div ByteVals \in 0 .. ByteVals - 1
  BY <1>1, DivBelow
<1>3. n % ByteVals \in 0 .. ByteVals - 1 /\ n = ByteVals * (n \div ByteVals) + (n % ByteVals)
  BY <1>1, DivMod
<1> QED BY <1>2, <1>3 DEF Word2

LEMMA Word2Digits ==
    ASSUME NEW x \in Digs, NEW y \in Digs, NEW z \in Digs, NEW u \in Digs
    PROVE  LET n == Word2(Pair(x, y), Pair(z, u))
           IN  DigitOf(n, 0) = x /\ DigitOf(n, 1) = y /\ DigitOf(n, 2) = z /\ DigitOf(n, 3) = u
<1> DEFINE n == Word2(Pair(x, y), Pair(z, u))
<1>0. Digit \in Nat \ {0} /\ ByteVals \in Nat \ {0} /\ ByteVals = Digit * Digit
      /\ x \in Nat /\ y \in Nat /\ z \in Nat /\ u \in Nat
  BY AluSizes DEF Digs
<1>1. n \in Nat /\ n \div ByteVals = Pair(z, u)
  BY PairDigits, Word2Parts
<1>2. PICK m \in Nat : m = n
  BY <1>1
<1>3. m = (ByteVals * (z + (u * Digit))) + (x + (y * Digit))
  BY <1>2 DEF Word2, Pair
<1>4. m \div Digit = (Digit * (z + (u * Digit))) + y /\ m % Digit = x
  <2>1. m = Digit * ((Digit * (z + (u * Digit))) + y) + x
    BY <1>0, <1>3
  <2>2. (Digit * (z + (u * Digit))) + y \in Nat
    BY <1>0
  <2> HIDE <1>3
  <2> QED BY <1>0, <2>1, <2>2, DivUnique DEF Digs
<1>5. ((Digit * (z + (u * Digit))) + y) % Digit = y
  <2>1. PICK j \in Nat : j = z + (u * Digit)
    BY <1>0
  <2>2. (Digit * j) + y \in Nat
    BY <1>0, <2>1
  <2>3. ((Digit * j) + y) % Digit = y
    BY <1>0, <2>1, <2>2, DivUnique DEF Digs
  <2> QED BY <2>1, <2>3
<1>6. m \div (ByteVals * Digit) = u
  <2>1. PICK w \in Nat \ {0} : w = ByteVals * Digit
    BY <1>0
  <2>2. PICK r \in Nat : r = (ByteVals * z) + (x + (y * Digit))
    BY <1>0
  <2>3. m = w * u + r
    BY <1>0, <1>3, <2>1, <2>2
  <2>4. r < w
    <3>1. x + (y * Digit) < ByteVals
      BY PairDigits, <1>0 DEF Pair
    <3>2. ByteVals * z <= ByteVals * (Digit - 1) /\ ByteVals * (Digit - 1) = w - ByteVals
      BY <1>0, <2>1 DEF Digs
    <3>3. ByteVals * z \in Nat /\ y * Digit \in Nat
      BY <1>0
    <3> QED BY <1>0, <2>2, <3>1, <3>2, <3>3, <2>1
  <2>5. r \in 0 .. w - 1
    BY <2>2, <2>4, <2>1
  <2> QED BY <1>0, <2>1, <2>3, <2>5, DivUnique
<1>7. m \div 1 = m /\ u % Digit = u
  BY <1>0 DEF Digs
<1>8. Weight(0) = 1 /\ Weight(1) = Digit /\ Weight(2) = ByteVals /\ Weight(3) = ByteVals * Digit
  BY DEF Weight
<1>9. DigitOf(m, 0) = x /\ DigitOf(m, 1) = y
  BY <1>4, <1>5, <1>7, <1>8 DEF DigitOf
<1>10. DigitOf(m, 2) = z
  <2>1. Pair(z, u) % Digit = z
    <3>1. Pair(z, u) \in Nat /\ Pair(z, u) = Digit * u + z
      BY <1>0 DEF Pair
    <3> QED BY <1>0, <3>1, DivUnique DEF Digs
  <2> QED BY <1>1, <1>2, <1>8, <2>1 DEF DigitOf
<1>11. DigitOf(m, 3) = u
  BY <1>6, <1>7, <1>8 DEF DigitOf
<1> HIDE DEF n
<1> QED BY <1>2, <1>9, <1>10, <1>11 DEF n
-----------------------------------------------------------------------------
\* The sign of a byte is that of its upper digit, the sign of a word that of its
\* upper byte.
UpperHalf(y) == 2 * y >= Digit

LEMMA NegativePair ==
    ASSUME NEW x \in Digs, NEW y \in Digs
    PROVE  Negative(Pair(x, y), FALSE) <=> UpperHalf(y)
<1>1. PICK h \in Nat \ {0} : Digit = 2 * h /\ ByteVals \div 2 = h * Digit
  BY AluHalves
<1>2. Digit \in Nat \ {0} /\ x \in Nat /\ y \in Nat /\ x < Digit
  BY AluSizes DEF Digs
<1>3. PICK n \in 0 .. ByteVals - 1 : n = Pair(x, y)
  BY PairDigits
<1>4. n % Vals(FALSE) = n
  BY <1>3, AluSizes DEF Vals
<1>5. n >= h * Digit <=> y >= h
  <2>0. n = x + (y * Digit)
    BY <1>3 DEF Pair
  <2>1. CASE y >= h
    <3>1. y * Digit >= h * Digit
      BY <1>1, <1>2, <2>1
    <3>2. y * Digit \in Nat /\ h * Digit \in Nat
      BY <1>1, <1>2
    <3> QED BY <1>2, <2>0, <2>1, <3>1, <3>2
  <2>2. CASE y < h
    <3>1. (y + 1) * Digit <= h * Digit /\ (y + 1) * Digit = y * Digit + Digit
      BY <1>1, <1>2, <2>2
    <3>2. y * Digit \in Nat /\ h * Digit \in Nat
      BY <1>1, <1>2
    <3> QED BY <1>1, <1>2, <2>0, <2>2, <3>1, <3>2
  <2> QED BY <1>1, <1>2, <2>1, <2>2
<1>6. UpperHalf(y) <=> y >= h
  BY <1>1, <1>2 DEF UpperHalf
<1> QED BY <1>1, <1>3, <1>4, <1>5, <1>6 DEF Negative, Vals

LEMMA SignsAreBoolean ==
    /\ \A n, w : Negative(n, w) \in BOOLEAN
    /\ \A y : UpperHalf(y) \in BOOLEAN
BY DEF Negative, UpperHalf

LEMMA NegativeWord2 ==
    ASSUME NEW lo \in 0 .. ByteVals - 1, NEW hi \in 0 .. ByteVals - 1
    PROVE  Negative(Word2(lo, hi), TRUE) <=> Negative(hi, FALSE)
<1>1. PICK h \in Nat \ {0} : ByteVals \div 2 = h * Digit /\ WordVals \div 2 = h * Digit * ByteVals
  BY AluHalves
<1>2. PICK j \in Nat : j = h * Digit
  BY AluSizes
<1>3. ByteVals \in Nat \ {0} /\ lo \in Nat /\ hi \in Nat /\ lo < ByteVals
  BY AluSizes
<1>4. PICK n \in 0 .. WordVals - 1 : n = Word2(lo, hi)
  BY Word2Parts
<1>5. n % Vals(TRUE) = n /\ hi % Vals(FALSE) = hi
  BY <1>3, AluSizes DEF Vals
<1>6. n >= j * ByteVals <=> hi >= j
  <2>0. n = (ByteVals * hi) + lo /\ ByteVals * hi = hi * ByteVals
    BY <1>3, <1>4 DEF Word2
  <2>2. hi * ByteVals \in Nat /\ j * ByteVals \in Nat
    BY <1>2, <1>3
  <2>1. CASE hi >= j
    <3>1. hi * ByteVals >= j * ByteVals
      BY <1>2, <1>3, <2>1
    <3> QED BY <1>3, <2>0, <2>1, <3>1, <2>2
  <2>3. CASE hi < j
    <3>1. (hi + 1) * ByteVals <= j * ByteVals /\ (hi + 1) * ByteVals = hi * ByteVals + ByteVals
      BY <1>2, <1>3, <2>3
    <3> QED BY <1>2, <1>3, <2>0, <2>3, <3>1, <2>2
  <2> QED BY <1>2, <1>3, <2>1, <2>3
<1> QED BY <1>1, <1>2, <1>4, <1>5, <1>6 DEF Negative, Vals

\* What Result leaves of the flags.
LEMMA ResultFlags ==
    ASSUME NEW n, NEW q, NEW w
    PROVE  LET o == Result(n, q, w)
           IN  /\ o.r = n % Vals(w)
               /\ "C" \in o.q <=> "C" \in q
               /\ "V" \in o.q <=> "V" \in q
               /\ "N" \in o.q <=> Negative(n, w)
BY DEF Result, NZ, Put

-----------------------------------------------------------------------------
\* The digits of a decimal sum.
FixUp(t) == (t + IF t > Ten - 1 THEN Digit - Ten ELSE 0) % Digit
Tens == 0 .. Ten - 1

LEMMA DigitCarry ==
    ASSUME NEW x \in Tens, NEW y \in Tens, NEW c \in {0, 1}
    PROVE  /\ FixUp(x + y + c) \in Tens /\ OutOf(x + y + c) \in {0, 1}
           /\ x + y + c = FixUp(x + y + c) + (IF OutOf(x + y + c) = 1 THEN Ten ELSE 0)
<1>1. PICK t \in Nat : t = x + y + c
  BY DEF Tens
<1>2. Ten \in Nat \ {0} /\ Digit \in Nat \ {0} /\ Ten < Digit /\ t < 2 * Ten
  BY <1>1, AluSizes DEF Tens
<1>3. CASE t > Ten - 1
  <2>1. t + (Digit - Ten) = Digit * 1 + (t - Ten) /\ t - Ten \in 0 .. Digit - 1
        /\ t + (Digit - Ten) \in Nat
    BY <1>2, <1>3
  <2>2. (t + (Digit - Ten)) % Digit = t - Ten
    BY <1>2, <2>1, RemainderUnique
  <2>3. FixUp(t) = t - Ten /\ OutOf(t) = 1
    BY <1>3, <2>2 DEF FixUp, OutOf
  <2> QED BY <1>1, <1>2, <1>3, <2>3 DEF Tens
<1>4. CASE ~ (t > Ten - 1)
  <2>1. FixUp(t) = t /\ OutOf(t) = 0
    BY <1>2, <1>4 DEF FixUp, OutOf
  <2> QED BY <1>1, <1>2, <1>4, <2>1 DEF Tens
<1> QED BY <1>3, <1>4

\* The overflow of a decimal sum is decided by the digit on top.
TopOverflow(x, y, t) == UpperHalf(t % Digit) # UpperHalf(x) /\ UpperHalf(t % Digit) # UpperHalf(y)

\* What adc leaves of two bytes, s0 and s1 being the sums of their digits, and of
\* two words.
ByteSum(o, x0, x1, y0, y1, c, s0, s1) ==
    /\ s0 = x0 + y0 + c /\ s1 = x1 + y1 + OutOf(s0)
    /\ o.r = Pair(FixUp(s0), FixUp(s1))
    /\ "C" \in o.q <=> OutOf(s1) = 1
    /\ "V" \in o.q <=> TopOverflow(x1, y1, s1)
    /\ "N" \in o.q <=> UpperHalf(FixUp(s1))
WordSum(o, x0, x1, x2, x3, y0, y1, y2, y3, c, s0, s1, s2, s3) ==
    /\ s0 = x0 + y0 + c /\ s1 = x1 + y1 + OutOf(s0)
    /\ s2 = x2 + y2 + OutOf(s1) /\ s3 = x3 + y3 + OutOf(s2)
    /\ o.r = Word2(Pair(FixUp(s0), FixUp(s1)), Pair(FixUp(s2), FixUp(s3)))
    /\ "C" \in o.q <=> OutOf(s3) = 1
    /\ "V" \in o.q <=> TopOverflow(x3, y3, s3)
    /\ "N" \in o.q <=> UpperHalf(FixUp(s3))

LEMMA AddByte ==
    ASSUME NEW x0 \in Tens, NEW x1 \in Tens, NEW y0 \in Tens, NEW y1 \in Tens, NEW q
    PROVE  \E s0, s1 \in Nat :
              ByteSum(AddDecimal(Pair(x0, x1), Pair(y0, y1), q, FALSE), x0, x1, y0, y1, One(q), s0, s1)
<1> DEFINE a == Pair(x0, x1)
           v == Pair(y0, y1)
<1>0. Tens \subseteq Digs /\ Tens \subseteq Nat
  BY AluSizes DEF Tens, Digs
<1>1. PICK s : /\ DecimalSums(a, v, One(q), FALSE) = s
               /\ s[0] = DigitSum(a, v, 0, One(q)) /\ s[1] = DigitSum(a, v, 1, OutOf(s[0]))
  <2> HIDE DEF a, v
  <2>1. PICK s : s = DecimalSums(a, v, One(q), FALSE)
    OBVIOUS
  <2>2. s[0] = DigitSum(a, v, 0, One(q))
        /\ \A i \in Digits(FALSE) : i # 0 => s[i] = DigitSum(a, v, i, OutOf(s[i - 1]))
    <3>1. \A w \in BOOLEAN : \A t : t = DecimalSums(a, v, One(q), w) =>
            /\ t[0] = DigitSum(a, v, 0, One(q))
            /\ \A i \in Digits(w) : i # 0 => t[i] = DigitSum(a, v, i, OutOf(t[i - 1]))
      BY SumsAre
    <3>2. FALSE \in BOOLEAN
      OBVIOUS
    <3> QED BY <2>1, <3>1, <3>2, Zenon
  <2>3. s[1] = DigitSum(a, v, 1, OutOf(s[0]))
    BY <2>2 DEF Digits
  <2> QED BY <2>1, <2>2, <2>3
<1>2. DigitOf(a, 0) = x0 /\ DigitOf(a, 1) = x1 /\ DigitOf(v, 0) = y0 /\ DigitOf(v, 1) = y1
  BY <1>0, PairDigits
<1>3. One(q) \in {0, 1}
  BY DEF One
<1>4. s[0] = x0 + y0 + One(q) /\ s[1] = x1 + y1 + OutOf(s[0])
  BY <1>1, <1>2 DEF DigitSum
<1>5. FixUp(s[0]) \in Tens /\ OutOf(s[0]) \in {0, 1} /\ FixUp(s[1]) \in Tens /\ OutOf(s[1]) \in {0, 1}
  <2>1. FixUp(s[0]) \in Tens /\ OutOf(s[0]) \in {0, 1}
    BY <1>3, <1>4, DigitCarry
  <2> QED BY <2>1, <1>4, DigitCarry
<1>6. PICK s0 \in Nat, s1 \in Nat : s0 = s[0] /\ s1 = s[1]
  BY <1>0, <1>3, <1>4, <1>5
<1>7. PICK z \in Digs : z = s1 % Digit
  BY <1>6, AluSizes, Remainder DEF Digs
<1>8. PICK f0 \in Tens, f1 \in Tens : f0 = FixUp(s0) /\ f1 = FixUp(s1)
  BY <1>5, <1>6
<1> DEFINE fixed == [i \in Digits(FALSE) |-> (s[i] + IF s[i] > Ten - 1 THEN Digit - Ten ELSE 0) % Digit]
<1>9. fixed[0] = f0 /\ fixed[1] = f1
  BY <1>6, <1>8 DEF FixUp, Digits
<1> HIDE DEF fixed
<1>10. Number(fixed, fixed[1], FALSE) = Pair(f0, f1) /\ Number(fixed, z, FALSE) = Pair(f0, z)
  BY <1>9 DEF Number, Pair
<1>11. AddDecimal(a, v, q, FALSE)
          = Result(Pair(f0, f1), Put(Put(q, "V", Overflow(Pair(f0, z), a, v, FALSE)), "C", s1 > Ten - 1), FALSE)
  <2>1. AddDecimal(a, v, q, FALSE)
          = Result(Number(fixed, fixed[1], FALSE),
                   Put(Put(q, "V", Overflow(Number(fixed, s[1] % Digit, FALSE), a, v, FALSE)), "C", s[1] > Ten - 1), FALSE)
    <3>1. Top(FALSE) = 1
      BY DEF Top
    <3> QED BY <1>1, <3>1 DEF AddDecimal, fixed
  <2> QED BY <2>1, <1>6, <1>7, <1>10
<1>12. Overflow(Pair(f0, z), a, v, FALSE) <=> TopOverflow(x1, y1, s1)
  <2>1. Negative(Pair(f0, z), FALSE) <=> UpperHalf(z)
    BY <1>0, <1>7, <1>8, NegativePair
  <2>2. (Negative(a, FALSE) <=> UpperHalf(x1)) /\ (Negative(v, FALSE) <=> UpperHalf(y1))
    BY <1>0, NegativePair
  <2> HIDE DEF a, v
  <2>3. Negative(Pair(f0, z), FALSE) = UpperHalf(z) /\ Negative(a, FALSE) = UpperHalf(x1)
        /\ Negative(v, FALSE) = UpperHalf(y1)
    BY <2>1, <2>2, SignsAreBoolean
  <2> QED BY <1>7, <2>3 DEF Overflow, TopOverflow
<1>13. Negative(Pair(f0, f1), FALSE) <=> UpperHalf(f1)
  BY <1>0, NegativePair
<1>14. Pair(f0, f1) % Vals(FALSE) = Pair(f0, f1)
  <2>1. PICK n \in 0 .. ByteVals - 1 : n = Pair(f0, f1)
    BY <1>0, PairDigits
  <2> QED BY <2>1, AluSizes DEF Vals
<1>15. s1 > Ten - 1 <=> OutOf(s1) = 1
  BY DEF OutOf
<1> HIDE DEF a, v
<1>16. LET o == AddDecimal(a, v, q, FALSE)
       IN  /\ o.r = Pair(f0, f1)
           /\ "C" \in o.q <=> s1 > Ten - 1
           /\ "V" \in o.q <=> Overflow(Pair(f0, z), a, v, FALSE)
           /\ "N" \in o.q <=> Negative(Pair(f0, f1), FALSE)
  <2> DEFINE qq == Put(Put(q, "V", Overflow(Pair(f0, z), a, v, FALSE)), "C", s1 > Ten - 1)
  <2>1. /\ "C" \in qq <=> s1 > Ten - 1
        /\ "V" \in qq <=> Overflow(Pair(f0, z), a, v, FALSE)
    BY DEF Put
  <2>2. AddDecimal(a, v, q, FALSE) = Result(Pair(f0, f1), qq, FALSE)
    BY <1>11
  <2> HIDE DEF qq
  <2>3. PICK o : o = Result(Pair(f0, f1), qq, FALSE)
    OBVIOUS
  <2>4. /\ o.r = Pair(f0, f1)
        /\ "C" \in o.q <=> "C" \in qq
        /\ "V" \in o.q <=> "V" \in qq
        /\ "N" \in o.q <=> Negative(Pair(f0, f1), FALSE)
    BY <2>3, <1>14, ResultFlags
  <2> QED BY <2>1, <2>2, <2>3, <2>4, Zenon
<1> QED BY <1>4, <1>6, <1>8, <1>12, <1>13, <1>15, <1>16 DEF a, v, ByteSum

LEMMA NumberOfWord ==
    ASSUME NEW f, NEW t \in Nat, f[0] \in Nat, f[1] \in Nat, f[2] \in Nat
    PROVE  Number(f, t, TRUE) = Word2(Pair(f[0], f[1]), Pair(f[2], t))
<1>1. Digit \in Nat /\ ByteVals \in Nat
  BY AluSizes
<1>2. PICK d \in Nat, b \in Nat : d = Digit /\ b = ByteVals
  BY <1>1
<1>3. PICK f0 \in Nat, f1 \in Nat, f2 \in Nat : f0 = f[0] /\ f1 = f[1] /\ f2 = f[2]
  OBVIOUS
<1>4. f0 + (f1 * d) + (f2 * b) + (t * b * d) = (b * (f2 + (t * d))) + (f0 + (f1 * d))
  <2>1. b * (f2 + (t * d)) = (f2 * b) + (t * b * d)
    OBVIOUS
  <2>2. f1 * d \in Nat /\ f2 * b \in Nat /\ t * b * d \in Nat
    OBVIOUS
  <2> QED BY <2>1, <2>2
<1> QED BY <1>2, <1>3, <1>4 DEF Word2, Pair, Number

LEMMA AddWord ==
    ASSUME NEW x0 \in Tens, NEW x1 \in Tens, NEW x2 \in Tens, NEW x3 \in Tens,
           NEW y0 \in Tens, NEW y1 \in Tens, NEW y2 \in Tens, NEW y3 \in Tens, NEW q
    PROVE  \E s0, s1, s2, s3 \in Nat :
              WordSum(AddDecimal(Word2(Pair(x0, x1), Pair(x2, x3)), Word2(Pair(y0, y1), Pair(y2, y3)), q, TRUE),
                      x0, x1, x2, x3, y0, y1, y2, y3, One(q), s0, s1, s2, s3)
<1> DEFINE a == Word2(Pair(x0, x1), Pair(x2, x3))
           v == Word2(Pair(y0, y1), Pair(y2, y3))
<1>0. Tens \subseteq Digs /\ Tens \subseteq Nat
  BY AluSizes DEF Tens, Digs
<1>1. PICK s : /\ DecimalSums(a, v, One(q), TRUE) = s
               /\ s[0] = DigitSum(a, v, 0, One(q)) /\ s[1] = DigitSum(a, v, 1, OutOf(s[0]))
               /\ s[2] = DigitSum(a, v, 2, OutOf(s[1])) /\ s[3] = DigitSum(a, v, 3, OutOf(s[2]))
  <2> HIDE DEF a, v
  <2>1. PICK s : s = DecimalSums(a, v, One(q), TRUE)
    OBVIOUS
  <2>2. s[0] = DigitSum(a, v, 0, One(q))
        /\ \A i \in Digits(TRUE) : i # 0 => s[i] = DigitSum(a, v, i, OutOf(s[i - 1]))
    <3>1. \A w \in BOOLEAN : \A t : t = DecimalSums(a, v, One(q), w) =>
            /\ t[0] = DigitSum(a, v, 0, One(q))
            /\ \A i \in Digits(w) : i # 0 => t[i] = DigitSum(a, v, i, OutOf(t[i - 1]))
      BY SumsAre
    <3>2. TRUE \in BOOLEAN
      OBVIOUS
    <3> QED BY <2>1, <3>1, <3>2, Zenon
  <2>3. /\ s[1] = DigitSum(a, v, 1, OutOf(s[0]))
        /\ s[2] = DigitSum(a, v, 2, OutOf(s[1])) /\ s[3] = DigitSum(a, v, 3, OutOf(s[2]))
    BY <2>2 DEF Digits
  <2> QED BY <2>1, <2>2, <2>3
<1>2. /\ DigitOf(a, 0) = x0 /\ DigitOf(a, 1) = x1 /\ DigitOf(a, 2) = x2 /\ DigitOf(a, 3) = x3
      /\ DigitOf(v, 0) = y0 /\ DigitOf(v, 1) = y1 /\ DigitOf(v, 2) = y2 /\ DigitOf(v, 3) = y3
  BY <1>0, Word2Digits
<1>3. One(q) \in {0, 1}
  BY DEF One
<1>4. s[0] = x0 + y0 + One(q) /\ s[1] = x1 + y1 + OutOf(s[0])
      /\ s[2] = x2 + y2 + OutOf(s[1]) /\ s[3] = x3 + y3 + OutOf(s[2])
  <2> HIDE DEF a, v
  <2> QED BY <1>1, <1>2 DEF DigitSum
<1>5. /\ FixUp(s[0]) \in Tens /\ OutOf(s[0]) \in {0, 1} /\ FixUp(s[1]) \in Tens /\ OutOf(s[1]) \in {0, 1}
      /\ FixUp(s[2]) \in Tens /\ OutOf(s[2]) \in {0, 1} /\ FixUp(s[3]) \in Tens /\ OutOf(s[3]) \in {0, 1}
  <2>1. FixUp(s[0]) \in Tens /\ OutOf(s[0]) \in {0, 1}
    BY <1>3, <1>4, DigitCarry
  <2>2. FixUp(s[1]) \in Tens /\ OutOf(s[1]) \in {0, 1}
    BY <2>1, <1>4, DigitCarry
  <2>3. FixUp(s[2]) \in Tens /\ OutOf(s[2]) \in {0, 1}
    BY <2>2, <1>4, DigitCarry
  <2> QED BY <2>1, <2>2, <2>3, <1>4, DigitCarry
<1>6. PICK s0 \in Nat, s1 \in Nat, s2 \in Nat, s3 \in Nat : s0 = s[0] /\ s1 = s[1] /\ s2 = s[2] /\ s3 = s[3]
  BY <1>0, <1>3, <1>4, <1>5
<1>7. PICK z \in Digs : z = s3 % Digit
  BY <1>6, AluSizes, Remainder DEF Digs
<1>8. PICK f0 \in Tens, f1 \in Tens, f2 \in Tens, f3 \in Tens :
        f0 = FixUp(s0) /\ f1 = FixUp(s1) /\ f2 = FixUp(s2) /\ f3 = FixUp(s3)
  BY <1>5, <1>6
<1> DEFINE fixed == [i \in Digits(TRUE) |-> (s[i] + IF s[i] > Ten - 1 THEN Digit - Ten ELSE 0) % Digit]
<1>9. fixed[0] = f0 /\ fixed[1] = f1 /\ fixed[2] = f2 /\ fixed[3] = f3
  BY <1>6, <1>8 DEF FixUp, Digits
<1> HIDE DEF fixed
<1> DEFINE hi(t) == Pair(f2, t)
           lo == Pair(f0, f1)
<1>10. Number(fixed, f3, TRUE) = Word2(lo, hi(f3)) /\ Number(fixed, z, TRUE) = Word2(lo, hi(z))
  <2>1. f0 \in Nat /\ f1 \in Nat /\ f2 \in Nat /\ f3 \in Nat /\ z \in Nat
    BY <1>0, <1>7, <1>8 DEF Digs
  <2>2. fixed[0] \in Nat /\ fixed[1] \in Nat /\ fixed[2] \in Nat
    BY <1>9, <2>1
  <2>3. \A t \in Nat : Number(fixed, t, TRUE) = Word2(Pair(fixed[0], fixed[1]), Pair(fixed[2], t))
    BY <2>2, NumberOfWord
  <2> QED BY <1>9, <2>1, <2>3
<1>12. lo \in 0 .. ByteVals - 1 /\ hi(f3) \in 0 .. ByteVals - 1 /\ hi(z) \in 0 .. ByteVals - 1
  BY <1>0, <1>7, <1>8, PairDigits
<1> DEFINE ov == Overflow(Word2(lo, hi(z)), a, v, TRUE)
           qq == Put(Put(q, "V", ov), "C", s3 > Ten - 1)
<1>11. AddDecimal(a, v, q, TRUE) = Result(Word2(lo, hi(f3)), qq, TRUE)
  <2>1. AddDecimal(a, v, q, TRUE)
          = Result(Number(fixed, fixed[3], TRUE),
                   Put(Put(q, "V", Overflow(Number(fixed, s[3] % Digit, TRUE), a, v, TRUE)), "C", s[3] > Ten - 1), TRUE)
    <3>1. Top(TRUE) = 3
      BY DEF Top
    <3> QED BY <1>1, <3>1 DEF AddDecimal, fixed
  <2> QED BY <2>1, <1>6, <1>7, <1>9, <1>10
<1>13. ov <=> TopOverflow(x3, y3, s3)
  <2>1. Negative(Word2(lo, hi(z)), TRUE) <=> UpperHalf(z)
    <3>1. Negative(hi(z), FALSE) <=> UpperHalf(z)
      BY <1>0, <1>7, <1>8, NegativePair
    <3> HIDE DEF lo, hi
    <3> QED BY <3>1, <1>12, NegativeWord2
  <2>2. (Negative(a, TRUE) <=> UpperHalf(x3)) /\ (Negative(v, TRUE) <=> UpperHalf(y3))
    <3>1. (Negative(Pair(x2, x3), FALSE) <=> UpperHalf(x3)) /\ (Negative(Pair(y2, y3), FALSE) <=> UpperHalf(y3))
      BY <1>0, NegativePair
    <3>2. /\ Pair(x0, x1) \in 0 .. ByteVals - 1 /\ Pair(x2, x3) \in 0 .. ByteVals - 1
          /\ Pair(y0, y1) \in 0 .. ByteVals - 1 /\ Pair(y2, y3) \in 0 .. ByteVals - 1
      BY <1>0, PairDigits
    <3> QED BY <3>1, <3>2, NegativeWord2
  <2> HIDE DEF a, v, lo, hi
  <2>3. Negative(Word2(lo, hi(z)), TRUE) = UpperHalf(z) /\ Negative(a, TRUE) = UpperHalf(x3)
        /\ Negative(v, TRUE) = UpperHalf(y3)
    BY <2>1, <2>2, SignsAreBoolean
  <2> QED BY <1>7, <2>3 DEF Overflow, TopOverflow
<1>14. Negative(Word2(lo, hi(f3)), TRUE) <=> UpperHalf(f3)
  <2>1. Negative(hi(f3), FALSE) <=> UpperHalf(f3)
    BY <1>0, <1>8, NegativePair
  <2> HIDE DEF lo, hi
  <2> QED BY <2>1, <1>12, NegativeWord2
<1>15. Word2(lo, hi(f3)) % Vals(TRUE) = Word2(lo, hi(f3))
  <2> HIDE DEF lo, hi
  <2>1. PICK n \in 0 .. WordVals - 1 : n = Word2(lo, hi(f3))
    BY <1>12, Word2Parts
  <2> QED BY <2>1, AluSizes DEF Vals
<1>16. s3 > Ten - 1 <=> OutOf(s3) = 1
  BY DEF OutOf
<1>17. LET o == AddDecimal(a, v, q, TRUE)
       IN  /\ o.r = Word2(lo, hi(f3))
           /\ "C" \in o.q <=> s3 > Ten - 1
           /\ "V" \in o.q <=> ov
           /\ "N" \in o.q <=> Negative(Word2(lo, hi(f3)), TRUE)
  <2> HIDE DEF lo, hi, a, v, ov
  <2>1. ("C" \in qq <=> s3 > Ten - 1) /\ ("V" \in qq <=> ov)
    BY DEF Put
  <2> HIDE DEF qq
  <2>2. PICK o : o = Result(Word2(lo, hi(f3)), qq, TRUE)
    OBVIOUS
  <2>3. /\ o.r = Word2(lo, hi(f3))
        /\ "C" \in o.q <=> "C" \in qq
        /\ "V" \in o.q <=> "V" \in qq
        /\ "N" \in o.q <=> Negative(Word2(lo, hi(f3)), TRUE)
    BY <2>2, <1>15, ResultFlags
  <2> QED BY <2>1, <2>2, <2>3, <1>11, Zenon
<1> HIDE DEF ov, qq
<1>18. LET o == AddDecimal(a, v, q, TRUE)
       IN  /\ o.r = Word2(lo, hi(f3))
           /\ "C" \in o.q <=> OutOf(s3) = 1
           /\ "V" \in o.q <=> TopOverflow(x3, y3, s3)
           /\ "N" \in o.q <=> UpperHalf(f3)
  <2> HIDE DEF lo, hi, a, v
  <2> QED BY <1>13, <1>14, <1>16, <1>17, Zenon
<1>19. LET o == AddDecimal(a, v, q, TRUE)
       IN  /\ s0 = x0 + y0 + One(q) /\ s1 = x1 + y1 + OutOf(s0)
           /\ s2 = x2 + y2 + OutOf(s1) /\ s3 = x3 + y3 + OutOf(s2)
           /\ o.r = Word2(Pair(FixUp(s0), FixUp(s1)), Pair(FixUp(s2), FixUp(s3)))
           /\ "C" \in o.q <=> OutOf(s3) = 1
           /\ "V" \in o.q <=> TopOverflow(x3, y3, s3)
           /\ "N" \in o.q <=> UpperHalf(FixUp(s3))
  <2>1. s0 = x0 + y0 + One(q) /\ s1 = x1 + y1 + OutOf(s0) /\ s2 = x2 + y2 + OutOf(s1) /\ s3 = x3 + y3 + OutOf(s2)
    BY <1>4, <1>6
  <2> HIDE DEF a, v
  <2> QED BY <2>1, <1>8, <1>18
<1> QED BY <1>19 DEF a, v, WordSum

-----------------------------------------------------------------------------
\* The digits of a decimal difference.
FixDown(t) == (t - IF t < 0 THEN Digit - Ten ELSE 0) % Digit

LEMMA DigitBorrow ==
    ASSUME NEW x \in Tens, NEW y \in Tens, NEW c \in {0, 1}
    PROVE  LET t == (x - y) - c
           IN  /\ t \in Int /\ t <= x /\ t < Ten
               /\ FixDown(t) \in Tens /\ Under(t) \in {0, 1}
               /\ t = FixDown(t) - (IF Under(t) = 1 THEN Ten ELSE 0)
               /\ t % Digit = IF t < 0 THEN t + Digit ELSE t
               /\ t < 0 => t + Digit > x
               /\ Under(t) = 0 <=> t >= 0
<1>1. PICK t \in Int : t = (x - y) - c
  BY DEF Tens
<1>2. /\ Ten \in Nat \ {0} /\ Digit \in Nat \ {0} /\ Ten < Digit
      /\ t <= x /\ t < Ten /\ t >= -Ten /\ (t < 0 => t + Digit > x) /\ x \in Nat
  BY <1>1, AluSizes DEF Tens
<1>3. CASE t < 0
  <2>1. t - (Digit - Ten) = Digit * (-1) + (t + Ten) /\ t + Ten \in 0 .. Digit - 1
        /\ t - (Digit - Ten) \in Int
    BY <1>2, <1>3
  <2>2. (t - (Digit - Ten)) % Digit = t + Ten
    BY <1>2, <2>1, RemainderUnique
  <2>3. FixDown(t) = t + Ten /\ Under(t) = 1
    BY <1>3, <2>2 DEF FixDown, Under
  <2>4. t = Digit * (-1) + (t + Digit) /\ t + Digit \in 0 .. Digit - 1
    BY <1>2, <1>3
  <2>5. t % Digit = t + Digit
    BY <1>2, <2>4, RemainderUnique
  <2>6. t + Ten \in Tens /\ Ten \in Int
    BY <1>2, <1>3 DEF Tens
  <2>7. t = (t + Ten) - Ten /\ ~ (t >= 0)
    BY <1>2, <1>3
  <2> QED BY <1>1, <1>2, <1>3, <2>3, <2>5, <2>6, <2>7
<1>4. CASE ~ (t < 0)
  <2>1. FixDown(t) = t /\ Under(t) = 0 /\ t % Digit = t
    BY <1>2, <1>4 DEF FixDown, Under
  <2>2. t \in Tens /\ t = t - 0 /\ t >= 0
    BY <1>2, <1>4 DEF Tens
  <2> QED BY <1>1, <1>2, <1>4, <2>1, <2>2
<1> QED BY <1>3, <1>4

\* The result before its top digit is corrected is above the minuend just where
\* that digit borrows.
LEMMA BorrowsAbove ==
    ASSUME NEW W \in Nat \ {0}, NEW r \in 0 .. W - 1, NEW a \in 0 .. W - 1,
           NEW x \in Tens, NEW t \in Int, t <= x, t < 0 => t + Digit > x,
           t = x => r <= a
    PROVE  /\ t >= 0 => r + (t * W) <= a + (x * W)
           /\ t < 0 => r + ((t + Digit) * W) > a + (x * W)
<1>0. Digit \in Nat /\ x \in Nat
  BY AluSizes DEF Tens
<1>1. CASE t >= 0 /\ t = x
  <2>1. t * W \in Nat /\ t * W = x * W
    BY <1>0, <1>1
  <2> QED BY <1>1, <2>1
<1>2. CASE t >= 0 /\ t < x
  <2>1. (t + 1) * W <= x * W /\ (t + 1) * W = t * W + W /\ t * W \in Nat /\ x * W \in Nat
    BY <1>0, <1>2
  <2> QED BY <1>2, <2>1
<1>3. CASE t < 0
  <2>1. PICK u \in Nat : u = t + Digit
    BY <1>0, <1>3
  <2>2. (x + 1) * W <= u * W /\ (x + 1) * W = x * W + W /\ x * W \in Nat /\ u * W \in Nat
    BY <1>0, <1>3, <2>1
  <2>3. r + (u * W) > a + (x * W)
    BY <2>2
  <2> QED BY <1>3, <2>1, <2>3
<1> QED BY <1>0, <1>1, <1>2, <1>3

\* What sbc leaves of two bytes and of two words.
ByteDifference(o, x0, x1, y0, y1, c, s0, s1) ==
    /\ s0 = (x0 - y0) - (1 - c) /\ s1 = (x1 - y1) - Under(s0)
    /\ o.r = Pair(FixDown(s0), FixDown(s1))
    /\ "C" \in o.q <=> Under(s1) = 0
    /\ "N" \in o.q <=> UpperHalf(FixDown(s1))
WordDifference(o, x0, x1, x2, x3, y0, y1, y2, y3, c, s0, s1, s2, s3) ==
    /\ s0 = (x0 - y0) - (1 - c) /\ s1 = (x1 - y1) - Under(s0)
    /\ s2 = (x2 - y2) - Under(s1) /\ s3 = (x3 - y3) - Under(s2)
    /\ o.r = Word2(Pair(FixDown(s0), FixDown(s1)), Pair(FixDown(s2), FixDown(s3)))
    /\ "C" \in o.q <=> Under(s3) = 0
    /\ "N" \in o.q <=> UpperHalf(FixDown(s3))

LEMMA SubtractByte ==
    ASSUME NEW x0 \in Tens, NEW x1 \in Tens, NEW y0 \in Tens, NEW y1 \in Tens, NEW q
    PROVE  \E s0, s1 \in Int :
              ByteDifference(SubtractDecimal(Pair(x0, x1), Pair(y0, y1), q, FALSE),
                             x0, x1, y0, y1, One(q), s0, s1)
<1> DEFINE a == Pair(x0, x1)
           v == Pair(y0, y1)
<1>0. Tens \subseteq Digs /\ Tens \subseteq Nat
  BY AluSizes DEF Tens, Digs
<1>1. PICK s : /\ DecimalDifferences(a, v, One(q), FALSE) = s
               /\ s[0] = DigitDifference(a, v, 0, 1 - One(q)) /\ s[1] = DigitDifference(a, v, 1, Under(s[0]))
  <2> HIDE DEF a, v
  <2>1. PICK s : s = DecimalDifferences(a, v, One(q), FALSE)
    OBVIOUS
  <2>2. s[0] = DigitDifference(a, v, 0, 1 - One(q))
        /\ \A i \in Digits(FALSE) : i # 0 => s[i] = DigitDifference(a, v, i, Under(s[i - 1]))
    <3>1. \A w \in BOOLEAN : \A t : t = DecimalDifferences(a, v, One(q), w) =>
            /\ t[0] = DigitDifference(a, v, 0, 1 - One(q))
            /\ \A i \in Digits(w) : i # 0 => t[i] = DigitDifference(a, v, i, Under(t[i - 1]))
      BY DifferencesAre
    <3>2. FALSE \in BOOLEAN
      OBVIOUS
    <3> QED BY <2>1, <3>1, <3>2, Zenon
  <2>3. s[1] = DigitDifference(a, v, 1, Under(s[0]))
    BY <2>2 DEF Digits
  <2> QED BY <2>1, <2>2, <2>3
<1>2. DigitOf(a, 0) = x0 /\ DigitOf(a, 1) = x1 /\ DigitOf(v, 0) = y0 /\ DigitOf(v, 1) = y1
  BY <1>0, PairDigits
<1>3. 1 - One(q) \in {0, 1}
  BY DEF One
<1>4. s[0] = (x0 - y0) - (1 - One(q)) /\ s[1] = (x1 - y1) - Under(s[0])
  BY <1>1, <1>2 DEF DigitDifference
<1>5. PICK s0 \in Int : /\ s0 = s[0] /\ s0 = (x0 - y0) - (1 - One(q)) /\ s0 <= x0 /\ FixDown(s0) \in Tens
                        /\ Under(s0) \in {0, 1} /\ (Under(s0) = 0 <=> s0 >= 0)
                        /\ s0 = FixDown(s0) - (IF Under(s0) = 1 THEN Ten ELSE 0)
  BY <1>3, <1>4, DigitBorrow
<1>6. PICK s1 \in Int : /\ s1 = s[1] /\ s1 = (x1 - y1) - Under(s0) /\ s1 <= x1 /\ FixDown(s1) \in Tens
                        /\ Under(s1) \in {0, 1} /\ (Under(s1) = 0 <=> s1 >= 0)
                        /\ s1 % Digit = (IF s1 < 0 THEN s1 + Digit ELSE s1)
                        /\ (s1 < 0 => s1 + Digit > x1)
  BY <1>4, <1>5, DigitBorrow
<1>7. PICK z \in Digs : z = s1 % Digit
  BY AluSizes, Remainder DEF Digs
<1>8. PICK f0 \in Tens, f1 \in Tens : f0 = FixDown(s0) /\ f1 = FixDown(s1)
  BY <1>5, <1>6
<1> DEFINE wrong == [i \in Digits(FALSE) |-> s[i] < 0 \/ (FALSE /\ i = Top(FALSE) /\ s[i] >= Ten)]
           fixed == [i \in Digits(FALSE) |-> (s[i] - IF wrong[i] THEN Digit - Ten ELSE 0) % Digit]
<1>9. fixed[0] = f0 /\ fixed[1] = f1
  <2>1. 0 \in Digits(FALSE) /\ 1 \in Digits(FALSE)
    BY DEF Digits
  <2>2. (wrong[0] <=> s[0] < 0) /\ (wrong[1] <=> s[1] < 0)
    BY <2>1
  <2> HIDE DEF wrong
  <2>3. fixed[0] = (s[0] - IF wrong[0] THEN Digit - Ten ELSE 0) % Digit
        /\ fixed[1] = (s[1] - IF wrong[1] THEN Digit - Ten ELSE 0) % Digit
    BY <2>1
  <2> HIDE DEF fixed
  <2> QED BY <2>2, <2>3, <1>5, <1>6, <1>8 DEF FixDown
<1> DEFINE carry == Number(fixed, z, FALSE) <= a
           ov == (a + Inverted(v, FALSE) + (IF carry THEN 1 ELSE 0)) % Vals(FALSE)
           qq == Put(Put(q, "C", carry), "V", Overflow(ov, a, Inverted(v, FALSE), FALSE))
<1>10. SubtractDecimal(a, v, q, FALSE) = Result(Number(fixed, fixed[1], FALSE), qq, FALSE)
  <2>1. Top(FALSE) = 1
    BY DEF Top
  <2> QED BY <1>1, <1>6, <1>7, <2>1 DEF SubtractDecimal
<1> HIDE DEF fixed
<1>11. Number(fixed, f1, FALSE) = Pair(f0, f1) /\ Number(fixed, z, FALSE) = Pair(f0, z)
  BY <1>9 DEF Number, Pair
<1>12. carry <=> Under(s1) = 0
  <2>1. Digit \in Nat \ {0} /\ f0 \in 0 .. Digit - 1 /\ x0 \in 0 .. Digit - 1 /\ z \in Int
    BY <1>0, AluSizes DEF Digs
  <2>2. s1 = x1 => f0 <= x0
    <3>1. SUFFICES ASSUME s1 = x1 PROVE f0 <= x0
      OBVIOUS
    <3>2. y1 = 0 /\ Under(s0) = 0
      <4>1. y1 \in Nat /\ x1 \in Nat
        BY <1>0
      <4> QED BY <1>5, <1>6, <3>1, <4>1
    <3> QED BY <1>5, <1>8, <3>2
  <2>3. /\ s1 >= 0 => f0 + (s1 * Digit) <= x0 + (x1 * Digit)
        /\ s1 < 0 => f0 + ((s1 + Digit) * Digit) > x0 + (x1 * Digit)
    BY <2>1, <2>2, <1>6, BorrowsAbove
  <2>4. s1 >= 0 => Pair(f0, z) <= a
    BY <2>3, <1>6, <1>7 DEF Pair
  <2>5. s1 < 0 => Pair(f0, z) > a
    BY <2>3, <1>6, <1>7 DEF Pair
  <2>6. Pair(f0, z) \in Int /\ a \in Int
    BY <1>0, <1>7, PairDigits
  <2> HIDE DEF a
  <2>7. Pair(f0, z) <= a <=> s1 >= 0
    BY <2>4, <2>5, <2>6
  <2> QED BY <2>7, <1>6, <1>11
<1>13. Negative(Pair(f0, f1), FALSE) <=> UpperHalf(f1)
  BY <1>0, NegativePair
<1>14. Pair(f0, f1) % Vals(FALSE) = Pair(f0, f1)
  <2>1. PICK n \in 0 .. ByteVals - 1 : n = Pair(f0, f1)
    BY <1>0, PairDigits
  <2> QED BY <2>1, AluSizes DEF Vals
<1> HIDE DEF a, v, ov, carry
<1>15. "C" \in qq <=> carry
  BY DEF Put
<1> HIDE DEF qq
<1>16. LET o == SubtractDecimal(a, v, q, FALSE)
       IN  /\ o.r = Pair(f0, f1)
           /\ "C" \in o.q <=> carry
           /\ "N" \in o.q <=> Negative(Pair(f0, f1), FALSE)
  <2>1. PICK o : o = Result(Pair(f0, f1), qq, FALSE)
    OBVIOUS
  <2>2. SubtractDecimal(a, v, q, FALSE) = o
    BY <2>1, <1>9, <1>10, <1>11
  <2>3. /\ o.r = Pair(f0, f1)
        /\ "C" \in o.q <=> "C" \in qq
        /\ "N" \in o.q <=> Negative(Pair(f0, f1), FALSE)
    BY <2>1, <1>14, ResultFlags
  <2> QED BY <2>2, <2>3, <1>15, Zenon
<1>17. LET o == SubtractDecimal(a, v, q, FALSE)
       IN  /\ s0 = (x0 - y0) - (1 - One(q)) /\ s1 = (x1 - y1) - Under(s0)
           /\ o.r = Pair(FixDown(s0), FixDown(s1))
           /\ "C" \in o.q <=> Under(s1) = 0
           /\ "N" \in o.q <=> UpperHalf(FixDown(s1))
  BY <1>5, <1>6, <1>8, <1>12, <1>13, <1>16
<1> QED BY <1>17 DEF a, v, ByteDifference

LEMMA SubtractWord ==
    ASSUME NEW x0 \in Tens, NEW x1 \in Tens, NEW x2 \in Tens, NEW x3 \in Tens,
           NEW y0 \in Tens, NEW y1 \in Tens, NEW y2 \in Tens, NEW y3 \in Tens, NEW q
    PROVE  \E s0, s1, s2, s3 \in Int :
              WordDifference(SubtractDecimal(Word2(Pair(x0, x1), Pair(x2, x3)), Word2(Pair(y0, y1), Pair(y2, y3)), q, TRUE),
                             x0, x1, x2, x3, y0, y1, y2, y3, One(q), s0, s1, s2, s3)
<1> DEFINE a == Word2(Pair(x0, x1), Pair(x2, x3))
           v == Word2(Pair(y0, y1), Pair(y2, y3))
<1>0. Tens \subseteq Digs /\ Tens \subseteq Nat
  BY AluSizes DEF Tens, Digs
<1>1. PICK s : /\ DecimalDifferences(a, v, One(q), TRUE) = s
               /\ s[0] = DigitDifference(a, v, 0, 1 - One(q)) /\ s[1] = DigitDifference(a, v, 1, Under(s[0]))
               /\ s[2] = DigitDifference(a, v, 2, Under(s[1])) /\ s[3] = DigitDifference(a, v, 3, Under(s[2]))
  <2> HIDE DEF a, v
  <2>1. PICK s : s = DecimalDifferences(a, v, One(q), TRUE)
    OBVIOUS
  <2>2. s[0] = DigitDifference(a, v, 0, 1 - One(q))
        /\ \A i \in Digits(TRUE) : i # 0 => s[i] = DigitDifference(a, v, i, Under(s[i - 1]))
    <3>1. \A w \in BOOLEAN : \A t : t = DecimalDifferences(a, v, One(q), w) =>
            /\ t[0] = DigitDifference(a, v, 0, 1 - One(q))
            /\ \A i \in Digits(w) : i # 0 => t[i] = DigitDifference(a, v, i, Under(t[i - 1]))
      BY DifferencesAre
    <3>2. TRUE \in BOOLEAN
      OBVIOUS
    <3> QED BY <2>1, <3>1, <3>2, Zenon
  <2>3. /\ s[1] = DigitDifference(a, v, 1, Under(s[0]))
        /\ s[2] = DigitDifference(a, v, 2, Under(s[1])) /\ s[3] = DigitDifference(a, v, 3, Under(s[2]))
    BY <2>2 DEF Digits
  <2> QED BY <2>1, <2>2, <2>3
<1>2. /\ DigitOf(a, 0) = x0 /\ DigitOf(a, 1) = x1 /\ DigitOf(a, 2) = x2 /\ DigitOf(a, 3) = x3
      /\ DigitOf(v, 0) = y0 /\ DigitOf(v, 1) = y1 /\ DigitOf(v, 2) = y2 /\ DigitOf(v, 3) = y3
  BY <1>0, Word2Digits
<1>3. 1 - One(q) \in {0, 1}
  BY DEF One
<1>4. s[0] = (x0 - y0) - (1 - One(q)) /\ s[1] = (x1 - y1) - Under(s[0])
      /\ s[2] = (x2 - y2) - Under(s[1]) /\ s[3] = (x3 - y3) - Under(s[2])
  <2> HIDE DEF a, v
  <2> QED BY <1>1, <1>2 DEF DigitDifference
<1> DEFINE Borrows(t, x, y, c) ==
        /\ t = (x - y) - c /\ t <= x /\ t < Ten /\ FixDown(t) \in Tens
        /\ Under(t) \in {0, 1} /\ (Under(t) = 0 <=> t >= 0)
        /\ t = FixDown(t) - (IF Under(t) = 1 THEN Ten ELSE 0)
        /\ t % Digit = (IF t < 0 THEN t + Digit ELSE t)
        /\ (t < 0 => t + Digit > x)
<1>5. PICK s0 \in Int : s0 = s[0] /\ Borrows(s0, x0, y0, 1 - One(q))
  BY <1>3, <1>4, DigitBorrow
<1>6. PICK s1 \in Int : s1 = s[1] /\ Borrows(s1, x1, y1, Under(s0))
  BY <1>4, <1>5, DigitBorrow
<1>7. PICK s2 \in Int : s2 = s[2] /\ Borrows(s2, x2, y2, Under(s1))
  BY <1>4, <1>6, DigitBorrow
<1>8. PICK s3 \in Int : s3 = s[3] /\ Borrows(s3, x3, y3, Under(s2))
  BY <1>4, <1>7, DigitBorrow
<1>9. PICK z \in Digs : z = s3 % Digit
  BY AluSizes, Remainder DEF Digs
<1>10. PICK f0 \in Tens, f1 \in Tens, f2 \in Tens, f3 \in Tens :
        f0 = FixDown(s0) /\ f1 = FixDown(s1) /\ f2 = FixDown(s2) /\ f3 = FixDown(s3)
  BY <1>5, <1>6, <1>7, <1>8
<1> DEFINE wrong == [i \in Digits(TRUE) |-> s[i] < 0 \/ (TRUE /\ i = Top(TRUE) /\ s[i] >= Ten)]
           fixed == [i \in Digits(TRUE) |-> (s[i] - IF wrong[i] THEN Digit - Ten ELSE 0) % Digit]
<1>11. fixed[0] = f0 /\ fixed[1] = f1 /\ fixed[2] = f2 /\ fixed[3] = f3
  <2>1. 0 \in Digits(TRUE) /\ 1 \in Digits(TRUE) /\ 2 \in Digits(TRUE) /\ 3 \in Digits(TRUE) /\ Top(TRUE) = 3
    BY DEF Digits, Top
  <2>2. ~ (s[3] >= Ten)
    BY <1>8, AluSizes
  <2>3. (wrong[0] <=> s[0] < 0) /\ (wrong[1] <=> s[1] < 0)
        /\ (wrong[2] <=> s[2] < 0) /\ (wrong[3] <=> s[3] < 0)
    BY <2>1, <2>2
  <2> HIDE DEF wrong
  <2>4. /\ fixed[0] = (s[0] - IF wrong[0] THEN Digit - Ten ELSE 0) % Digit
        /\ fixed[1] = (s[1] - IF wrong[1] THEN Digit - Ten ELSE 0) % Digit
        /\ fixed[2] = (s[2] - IF wrong[2] THEN Digit - Ten ELSE 0) % Digit
        /\ fixed[3] = (s[3] - IF wrong[3] THEN Digit - Ten ELSE 0) % Digit
    BY <2>1
  <2> HIDE DEF fixed
  <2> QED BY <2>3, <2>4, <1>5, <1>6, <1>7, <1>8, <1>10 DEF FixDown
<1> DEFINE carry == Number(fixed, z, TRUE) <= a
           ov == (a + Inverted(v, TRUE) + (IF carry THEN 1 ELSE 0)) % Vals(TRUE)
           qq == Put(Put(q, "C", carry), "V", Overflow(ov, a, Inverted(v, TRUE), TRUE))
<1>12. SubtractDecimal(a, v, q, TRUE) = Result(Number(fixed, fixed[3], TRUE), qq, TRUE)
  <2>1. Top(TRUE) = 3
    BY DEF Top
  <2> HIDE DEF Borrows
  <2> QED BY <1>1, <1>8, <1>9, <2>1 DEF SubtractDecimal
<1> HIDE DEF fixed
<1> DEFINE lo == Pair(f0, f1)
           hi(t) == Pair(f2, t)
<1>13. Number(fixed, f3, TRUE) = Word2(lo, hi(f3)) /\ Number(fixed, z, TRUE) = Word2(lo, hi(z))
  <2>1. f0 \in Nat /\ f1 \in Nat /\ f2 \in Nat /\ f3 \in Nat /\ z \in Nat
    BY <1>0, <1>9, <1>10 DEF Digs
  <2>2. fixed[0] \in Nat /\ fixed[1] \in Nat /\ fixed[2] \in Nat
    BY <1>11, <2>1
  <2>3. \A t \in Nat : Number(fixed, t, TRUE) = Word2(Pair(fixed[0], fixed[1]), Pair(fixed[2], t))
    BY <2>2, NumberOfWord
  <2> QED BY <1>11, <2>1, <2>3
<1>14. lo \in 0 .. ByteVals - 1 /\ hi(f3) \in 0 .. ByteVals - 1 /\ hi(z) \in 0 .. ByteVals - 1
  BY <1>0, <1>9, <1>10, PairDigits
\* A digit that is the minuend's had nothing to borrow for.
<1>15. \A x, y \in Tens, c \in {0, 1}, t \in Int : Borrows(t, x, y, c) /\ t = x => y = 0 /\ c = 0
  BY <1>0
<1>16. /\ s0 >= 0 => f0 <= x0
       /\ s1 >= 0 => f1 = s1
       /\ s2 >= 0 => f2 = s2
  BY <1>0, <1>5, <1>6, <1>7, <1>10
<1>17. s1 = x1 => f0 <= x0
  BY <1>5, <1>6, <1>15, <1>16
<1>18. s1 >= 0 => lo <= Pair(x0, x1)
  <2>1. Digit \in Nat \ {0} /\ f0 \in 0 .. Digit - 1 /\ x0 \in 0 .. Digit - 1
    BY <1>0, AluSizes DEF Digs
  <2>2. s1 >= 0 => f0 + (s1 * Digit) <= x0 + (x1 * Digit)
    BY <2>1, <1>6, <1>17, BorrowsAbove
  <2> QED BY <2>2, <1>16 DEF Pair
<1>19. s2 = x2 => lo <= Pair(x0, x1)
  BY <1>6, <1>7, <1>15, <1>18
<1> DEFINE lower(l, x) == l + (x * ByteVals)
<1>20. s2 >= 0 => lower(lo, f2) <= lower(Pair(x0, x1), x2)
  <2>1. ByteVals \in Nat \ {0} /\ Pair(x0, x1) \in 0 .. ByteVals - 1
    BY <1>0, AluSizes, PairDigits
  <2>2. PICK l \in 0 .. ByteVals - 1, j \in 0 .. ByteVals - 1 : l = lo /\ j = Pair(x0, x1)
    BY <2>1, <1>14
  <2>3. s2 = x2 => l <= j
    BY <2>2, <1>19
  <2>4. s2 >= 0 => l + (s2 * ByteVals) <= j + (x2 * ByteVals)
    BY <2>1, <2>3, <1>7, BorrowsAbove
  <2> QED BY <2>2, <2>4, <1>16
<1>21. s3 = x3 => lower(lo, f2) <= lower(Pair(x0, x1), x2)
  BY <1>7, <1>8, <1>15, <1>20
<1>22. PICK W \in Nat \ {0} : W = ByteVals * Digit
  BY AluSizes
<1>23. \A l \in 0 .. ByteVals - 1, x \in Digs : lower(l, x) \in 0 .. W - 1
  <2> SUFFICES ASSUME NEW l \in 0 .. ByteVals - 1, NEW x \in Digs PROVE lower(l, x) \in 0 .. W - 1
    OBVIOUS
  <2>1. x * ByteVals <= (Digit - 1) * ByteVals /\ (Digit - 1) * ByteVals = W - ByteVals /\ x * ByteVals \in Nat
    BY <1>22, AluSizes DEF Digs
  <2> QED BY <2>1, <1>22, AluSizes
<1>24. \A l, x, y \in Nat : Word2(l, Pair(x, y)) = lower(l, x) + (y * W)
  <2> SUFFICES ASSUME NEW l \in Nat, NEW x \in Nat, NEW y \in Nat
               PROVE  Word2(l, Pair(x, y)) = lower(l, x) + (y * W)
    OBVIOUS
  <2>1. PICK d \in Nat, b \in Nat : d = Digit /\ b = ByteVals
    BY AluSizes
  <2>2. (b * (x + (y * d))) + l = (l + (x * b)) + (y * (b * d))
    <3>1. b * (x + (y * d)) = (x * b) + (y * (b * d))
      OBVIOUS
    <3>2. x * b \in Nat /\ y * (b * d) \in Nat
      OBVIOUS
    <3> QED BY <3>1, <3>2
  <2> QED BY <2>1, <2>2, <1>22 DEF Word2, Pair
<1>25. carry <=> Under(s3) = 0
  <2>1. lower(lo, f2) \in 0 .. W - 1 /\ lower(Pair(x0, x1), x2) \in 0 .. W - 1
    BY <1>0, <1>14, <1>23, PairDigits
  <2>2. PICK l \in 0 .. W - 1, j \in 0 .. W - 1 : l = lower(lo, f2) /\ j = lower(Pair(x0, x1), x2)
    BY <2>1
  <2>3. s3 = x3 => l <= j
    BY <2>2, <1>21
  <2>4. /\ s3 >= 0 => l + (s3 * W) <= j + (x3 * W)
        /\ s3 < 0 => l + ((s3 + Digit) * W) > j + (x3 * W)
    BY <2>3, <1>8, BorrowsAbove
  <2>5. a = j + (x3 * W)
    <3>1. Pair(x0, x1) \in Nat /\ x2 \in Nat /\ x3 \in Nat
      BY <1>0, PairDigits
    <3> HIDE DEF lower
    <3> QED BY <3>1, <2>2, <1>24
  <2>6. Word2(lo, hi(z)) = l + (z * W)
    <3>1. lo \in Nat /\ f2 \in Nat /\ z \in Nat
      BY <1>0, <1>14 DEF Digs
    <3> HIDE DEF lower, lo
    <3> QED BY <3>1, <2>2, <1>24
  <2>7. z = IF s3 < 0 THEN s3 + Digit ELSE s3
    BY <1>8, <1>9
  <2> HIDE DEF a, lo, hi
  <2>8. s3 >= 0 => Word2(lo, hi(z)) <= a
    BY <2>4, <2>5, <2>6, <2>7
  <2>9. s3 < 0 => Word2(lo, hi(z)) > a
    BY <2>4, <2>5, <2>6, <2>7
  <2>10. Word2(lo, hi(z)) \in Int /\ a \in Int
    <3>1. z \in Nat /\ x3 \in Nat /\ l \in Nat /\ j \in Nat
      BY <1>0 DEF Digs
    <3>2. z * W \in Nat /\ x3 * W \in Nat
      BY <3>1
    <3> QED BY <2>5, <2>6, <3>1, <3>2
  <2>11. Word2(lo, hi(z)) <= a <=> s3 >= 0
    BY <2>8, <2>9, <2>10
  <2>12. Under(s3) = 0 <=> s3 >= 0
    BY <1>8
  <2> QED BY <2>11, <2>12, <1>13
<1>26. Negative(Word2(lo, hi(f3)), TRUE) <=> UpperHalf(f3)
  <2>1. Negative(hi(f3), FALSE) <=> UpperHalf(f3)
    BY <1>0, NegativePair
  <2> HIDE DEF lo, hi
  <2> QED BY <2>1, <1>14, NegativeWord2
<1>27. Word2(lo, hi(f3)) % Vals(TRUE) = Word2(lo, hi(f3))
  <2> HIDE DEF lo, hi
  <2>1. PICK n \in 0 .. WordVals - 1 : n = Word2(lo, hi(f3))
    BY <1>14, Word2Parts
  <2> QED BY <2>1, AluSizes DEF Vals
<1> HIDE DEF a, v, ov, carry, lo, hi
<1>28. "C" \in qq <=> carry
  BY DEF Put
<1> HIDE DEF qq
<1>29. LET o == SubtractDecimal(a, v, q, TRUE)
       IN  /\ o.r = Word2(lo, hi(f3))
           /\ "C" \in o.q <=> carry
           /\ "N" \in o.q <=> Negative(Word2(lo, hi(f3)), TRUE)
  <2>1. PICK o : o = Result(Word2(lo, hi(f3)), qq, TRUE)
    OBVIOUS
  <2>2. SubtractDecimal(a, v, q, TRUE) = o
    BY <2>1, <1>11, <1>12, <1>13
  <2>3. /\ o.r = Word2(lo, hi(f3))
        /\ "C" \in o.q <=> "C" \in qq
        /\ "N" \in o.q <=> Negative(Word2(lo, hi(f3)), TRUE)
    BY <2>1, <1>27, ResultFlags
  <2> QED BY <2>2, <2>3, <1>28, Zenon
<1>30. s0 = (x0 - y0) - (1 - One(q)) /\ s1 = (x1 - y1) - Under(s0)
       /\ s2 = (x2 - y2) - Under(s1) /\ s3 = (x3 - y3) - Under(s2)
  BY <1>5, <1>6, <1>7, <1>8
<1>31. Word2(lo, hi(f3)) = Word2(Pair(FixDown(s0), FixDown(s1)), Pair(FixDown(s2), FixDown(s3)))
  BY <1>10 DEF lo, hi
<1> HIDE DEF Borrows
<1>32. LET o == SubtractDecimal(a, v, q, TRUE)
       IN  /\ s0 = (x0 - y0) - (1 - One(q)) /\ s1 = (x1 - y1) - Under(s0)
           /\ s2 = (x2 - y2) - Under(s1) /\ s3 = (x3 - y3) - Under(s2)
           /\ o.r = Word2(Pair(FixDown(s0), FixDown(s1)), Pair(FixDown(s2), FixDown(s3)))
           /\ "C" \in o.q <=> Under(s3) = 0
           /\ "N" \in o.q <=> UpperHalf(FixDown(s3))
  BY <1>10, <1>25, <1>26, <1>29, <1>30, <1>31
<1> QED BY <1>32 DEF a, v, WordDifference

-----------------------------------------------------------------------------
\* x and y and a carry c add up to the digit f and a carry cc, in base T.
SumsTo(x, y, c, f, cc, T) == x + y + c = f + (cc * T)

\* Two digits of any base add up to a number of its square.
LEMMA TwoDigitsAdd ==
    ASSUME NEW T \in Nat \ {0}, NEW x0 \in Nat, NEW x1 \in Nat, NEW y0 \in Nat, NEW y1 \in Nat,
           NEW f0 \in Nat, NEW f1 \in Nat, NEW c \in Nat, NEW c1 \in Nat, NEW c2 \in Nat,
           SumsTo(x0, y0, c, f0, c1, T), SumsTo(x1, y1, c1, f1, c2, T)
    PROVE  SumsTo(x0 + (x1 * T), y0 + (y1 * T), c, f0 + (f1 * T), c2, T * T)
<1>0. x0 + y0 + c = f0 + (c1 * T) /\ x1 + y1 + c1 = f1 + (c2 * T)
  BY DEF SumsTo
<1>1. (x1 + y1 + c1) * T = (f1 + (c2 * T)) * T
  BY <1>0
<1>2. (x1 + y1 + c1) * T = (x1 * T) + (y1 * T) + (c1 * T)
  OBVIOUS
<1>3. (f1 + (c2 * T)) * T = (f1 * T) + (c2 * (T * T))
  OBVIOUS
<1>4. x1 * T \in Nat /\ y1 * T \in Nat /\ c1 * T \in Nat /\ f1 * T \in Nat /\ c2 * (T * T) \in Nat
  OBVIOUS
<1>5. (x0 + (x1 * T)) + (y0 + (y1 * T)) + c = (f0 + (f1 * T)) + (c2 * (T * T))
  BY <1>0, <1>1, <1>2, <1>3, <1>4
<1> QED BY <1>5 DEF SumsTo

LEMMA TwoDigitsBelow ==
    ASSUME NEW T \in Nat \ {0}, NEW f0 \in 0 .. T - 1, NEW f1 \in 0 .. T - 1
    PROVE  f0 + (f1 * T) \in 0 .. (T * T) - 1 /\ T * T \in Nat \ {0}
<1>1. f1 * T <= (T - 1) * T /\ (T - 1) * T = (T * T) - T /\ f1 * T \in Nat /\ T * T \in Nat \ {0}
  OBVIOUS
<1> QED BY <1>1

LEMMA DecimalByte ==
    /\ \A n \in 0 .. ByteVals - 1 : IsDecimal(n, FALSE) => \E x, y \in Tens : n = Pair(x, y)
    /\ \A x, y \in Tens : /\ IsDecimal(Pair(x, y), FALSE)
                          /\ InDecimal(Pair(x, y), FALSE) = x + (y * Ten)
<1>0. Tens \subseteq Digs /\ Digits(FALSE) = 0 .. 1
  BY AluSizes DEF Tens, Digs, Digits
<1>1. ASSUME NEW n \in 0 .. ByteVals - 1, IsDecimal(n, FALSE)
      PROVE  \E x, y \in Tens : n = Pair(x, y)
  <2>1. PICK x \in Digs, y \in Digs : n = Pair(x, y)
    BY IsPair
  <2>2. DigitOf(n, 0) < Ten /\ DigitOf(n, 1) < Ten
    BY <1>1 DEF IsDecimal, Digits
  <2>3. x < Ten /\ y < Ten
    BY <2>1, <2>2, PairDigits
  <2>4. x \in Tens /\ y \in Tens
    BY <2>3, AluSizes DEF Tens, Digs
  <2> QED BY <2>1, <2>4
<1>2. ASSUME NEW x \in Tens, NEW y \in Tens
      PROVE  IsDecimal(Pair(x, y), FALSE) /\ InDecimal(Pair(x, y), FALSE) = x + (y * Ten)
  <2>1. DigitOf(Pair(x, y), 0) = x /\ DigitOf(Pair(x, y), 1) = y
    BY <1>0, PairDigits
  <2>2. x < Ten /\ y < Ten /\ x \in Nat /\ y \in Nat /\ Ten \in Nat
    BY AluSizes DEF Tens
  <2>3. IsDecimal(Pair(x, y), FALSE)
    BY <2>1, <2>2 DEF IsDecimal, Digits
  <2>4. x + (y * Ten) + 0 = x + (y * Ten)
    BY <2>2
  <2> QED BY <2>1, <2>3, <2>4 DEF InDecimal
<1> QED BY <1>1, <1>2

ValueOf(x, y, z, u) == (x + (y * Ten)) + ((z + (u * Ten)) * (Ten * Ten))

LEMMA DecimalWord ==
    /\ \A n \in 0 .. WordVals - 1 : IsDecimal(n, TRUE) =>
          \E x, y, z, u \in Tens : n = Word2(Pair(x, y), Pair(z, u))
    /\ \A x, y, z, u \in Tens :
          LET n == Word2(Pair(x, y), Pair(z, u))
          IN  /\ IsDecimal(n, TRUE)
              /\ InDecimal(n, TRUE) = ValueOf(x, y, z, u)
<1>0. Tens \subseteq Digs /\ Digits(TRUE) = 0 .. 3
  BY AluSizes DEF Tens, Digs, Digits
<1>1. ASSUME NEW n \in 0 .. WordVals - 1, IsDecimal(n, TRUE)
      PROVE  \E x, y, z, u \in Tens : n = Word2(Pair(x, y), Pair(z, u))
  <2>0. PICK l \in 0 .. ByteVals - 1, h \in 0 .. ByteVals - 1 : n = Word2(l, h)
    BY IsWord2
  <2>1. PICK x \in Digs, y \in Digs : l = Pair(x, y)
    BY IsPair
  <2>2. PICK z \in Digs, u \in Digs : h = Pair(z, u)
    BY IsPair
  <2>3. DigitOf(n, 0) = x /\ DigitOf(n, 1) = y /\ DigitOf(n, 2) = z /\ DigitOf(n, 3) = u
    BY <2>0, <2>1, <2>2, Word2Digits
  <2>4. DigitOf(n, 0) < Ten /\ DigitOf(n, 1) < Ten /\ DigitOf(n, 2) < Ten /\ DigitOf(n, 3) < Ten
    BY <1>1 DEF IsDecimal, Digits
  <2>5. x \in Tens /\ y \in Tens /\ z \in Tens /\ u \in Tens
    BY <2>3, <2>4, AluSizes DEF Tens, Digs
  <2> QED BY <2>0, <2>1, <2>2, <2>5
<1>2. ASSUME NEW x \in Tens, NEW y \in Tens, NEW z \in Tens, NEW u \in Tens
      PROVE  LET n == Word2(Pair(x, y), Pair(z, u))
             IN  /\ IsDecimal(n, TRUE)
                 /\ InDecimal(n, TRUE) = ValueOf(x, y, z, u)
  <2>0. PICK n : n = Word2(Pair(x, y), Pair(z, u))
    OBVIOUS
  <2>1. DigitOf(n, 0) = x /\ DigitOf(n, 1) = y /\ DigitOf(n, 2) = z /\ DigitOf(n, 3) = u
    BY <1>0, <2>0, Word2Digits
  <2>2. x < Ten /\ y < Ten /\ z < Ten /\ u < Ten /\ x \in Nat /\ y \in Nat /\ z \in Nat /\ u \in Nat /\ Ten \in Nat
    BY AluSizes DEF Tens
  <2>3. IsDecimal(n, TRUE)
    BY <2>1, <2>2 DEF IsDecimal, Digits
  <2>4. InDecimal(n, TRUE) = x + (y * Ten) + ((z * Ten * Ten) + (u * Ten * Ten * Ten))
    BY <2>1 DEF InDecimal
  <2>5. x + (y * Ten) + ((z * Ten * Ten) + (u * Ten * Ten * Ten))
          = (x + (y * Ten)) + ((z + (u * Ten)) * (Ten * Ten))
    <3>1. (z + (u * Ten)) * (Ten * Ten) = (z * Ten * Ten) + (u * Ten * Ten * Ten)
      BY <2>2
    <3>2. y * Ten \in Nat /\ z * Ten * Ten \in Nat /\ u * Ten * Ten * Ten \in Nat
      BY <2>2
    <3> QED BY <2>2, <3>1, <3>2
  <2> QED BY <2>0, <2>3, <2>4, <2>5 DEF ValueOf
<1> QED BY <1>1, <1>2

IsWordOf(n, x, y, z, u) == n = Word2(Pair(x, y), Pair(z, u))
StandsFor(n, x, y, z, u) == IsDecimal(n, TRUE) /\ InDecimal(n, TRUE) = ValueOf(x, y, z, u)

LEMMA WordStandsFor ==
    ASSUME NEW n, NEW x \in Tens, NEW y \in Tens, NEW z \in Tens, NEW u \in Tens,
           IsWordOf(n, x, y, z, u)
    PROVE  StandsFor(n, x, y, z, u)
<1>1. n = Word2(Pair(x, y), Pair(z, u))
  BY DEF IsWordOf
<1>2. IsDecimal(n, TRUE) /\ InDecimal(n, TRUE) = ValueOf(x, y, z, u)
  BY <1>1, DecimalWord, Zenon
<1> QED BY <1>2 DEF StandsFor

\* What one digit of a sum, and of a difference, is and carries to the next.
IsSum(s, x, y, c) == s = x + y + c
IsDifference(s, x, y, c) == s = (x - y) - c

LEMMA DigitOfSum ==
    ASSUME NEW x \in Tens, NEW y \in Tens, NEW c \in {0, 1}, NEW s, IsSum(s, x, y, c)
    PROVE  \E f \in Tens, cc \in {0, 1} : f = FixUp(s) /\ cc = OutOf(s) /\ SumsTo(x, y, c, f, cc, Ten)
<1>0. s = x + y + c
  BY DEF IsSum
<1>1. PICK f \in Tens, cc \in {0, 1} : f = FixUp(s) /\ cc = OutOf(s)
  BY <1>0, DigitCarry
<1>2. x + y + c = f + (IF cc = 1 THEN Ten ELSE 0)
  BY <1>0, <1>1, DigitCarry
<1>3. x + y + c = f + (cc * Ten)
  BY <1>2, AluSizes DEF Tens
<1> QED BY <1>1, <1>3 DEF SumsTo

LEMMA DigitOfDifference ==
    ASSUME NEW x \in Tens, NEW y \in Tens, NEW c \in {0, 1}, NEW s, IsDifference(s, x, y, c)
    PROVE  \E f \in Tens, b \in {0, 1} : f = FixDown(s) /\ b = Under(s) /\ SumsTo(f, y, c, x, b, Ten)
<1>0. s = (x - y) - c
  BY DEF IsDifference
<1>1. PICK f \in Tens, b \in {0, 1} : f = FixDown(s) /\ b = Under(s)
  BY <1>0, DigitBorrow
<1>2. (x - y) - c = f - (IF b = 1 THEN Ten ELSE 0)
  BY <1>0, <1>1, DigitBorrow
<1>3. f + y + c = x + (b * Ten)
  BY <1>2, AluSizes DEF Tens
<1> QED BY <1>1, <1>3 DEF SumsTo

\* What is left of a sum and of a difference in base S.
WrapsUp(X, Y, c, F, cc, S) == (X + Y + c) % S = F /\ (X + Y + c >= S <=> cc = 1)
WrapsDown(X, Y, c, F, cc, S) == (X - Y - c) % S = F /\ (X - Y - c >= 0 <=> cc = 0)

LEMMA CarryOut ==
    ASSUME NEW S \in Nat \ {0}, NEW X \in Nat, NEW Y \in Nat, NEW F \in 0 .. S - 1,
           NEW c \in {0, 1}, NEW cc \in {0, 1}, SumsTo(X, Y, c, F, cc, S)
    PROVE  WrapsUp(X, Y, c, F, cc, S)
<1>1. PICK n \in Nat : n = X + Y + c
  OBVIOUS
<1>2. n = S * cc + F /\ (cc = 0 \/ cc = 1)
  BY <1>1 DEF SumsTo
<1>3. n % S = F
  BY <1>2, RemainderUnique
<1> QED BY <1>1, <1>2, <1>3 DEF WrapsUp

LEMMA BorrowOut ==
    ASSUME NEW S \in Nat \ {0}, NEW X \in Nat, NEW Y \in Nat, NEW F \in 0 .. S - 1,
           NEW c \in {0, 1}, NEW cc \in {0, 1}, SumsTo(F, Y, c, X, cc, S)
    PROVE  WrapsDown(X, Y, c, F, cc, S)
<1>1. PICK n \in Int : n = X - Y - c
  OBVIOUS
<1>2. n = F - (cc * S)
  BY <1>1 DEF SumsTo
<1>3. CASE cc = 0
  <2>1. n = S * 0 + F
    BY <1>2, <1>3
  <2>2. n % S = F
    BY <2>1, RemainderUnique
  <2> QED BY <1>1, <1>2, <1>3, <2>2 DEF WrapsDown
<1>4. CASE cc = 1
  <2>1. n = S * (-1) + F
    BY <1>2, <1>4
  <2>2. n % S = F
    BY <2>1, RemainderUnique
  <2> QED BY <1>1, <1>2, <1>4, <2>2 DEF WrapsDown
<1> QED BY <1>3, <1>4

-----------------------------------------------------------------------------
\* In bytes and in words, adc adds and sbc subtracts what the digits stand for.
LEMMA ByteAddsInDecimal ==
    ASSUME NEW a \in 0 .. ByteVals - 1, NEW v \in 0 .. ByteVals - 1, NEW q,
           IsDecimal(a, FALSE), IsDecimal(v, FALSE)
    PROVE  LET o == AddDecimal(a, v, q, FALSE)
               sum == InDecimal(a, FALSE) + InDecimal(v, FALSE) + One(q)
           IN  /\ InDecimal(o.r, FALSE) = sum % DecimalSize(FALSE)
               /\ IsDecimal(o.r, FALSE)
               /\ "C" \in o.q <=> sum >= DecimalSize(FALSE)
<1>1. PICK x0 \in Tens, x1 \in Tens : a = Pair(x0, x1)
  BY DecimalByte
<1>2. PICK y0 \in Tens, y1 \in Tens : v = Pair(y0, y1)
  BY DecimalByte
<1>3. PICK o : o = AddDecimal(a, v, q, FALSE)
  OBVIOUS
<1>4. PICK s0 \in Nat, s1 \in Nat : ByteSum(o, x0, x1, y0, y1, One(q), s0, s1)
  BY <1>1, <1>2, <1>3, AddByte
<1>5. PICK c \in {0, 1} : c = One(q)
  BY DEF One
<1>6. IsSum(s0, x0, y0, c)
  BY <1>4, <1>5 DEF ByteSum, IsSum
<1>7. PICK f0 \in Tens, c1 \in {0, 1} : f0 = FixUp(s0) /\ c1 = OutOf(s0) /\ SumsTo(x0, y0, c, f0, c1, Ten)
  BY <1>6, DigitOfSum
<1>8. IsSum(s1, x1, y1, c1)
  BY <1>4, <1>7 DEF ByteSum, IsSum
<1>9. PICK f1 \in Tens, c2 \in {0, 1} : f1 = FixUp(s1) /\ c2 = OutOf(s1) /\ SumsTo(x1, y1, c1, f1, c2, Ten)
  BY <1>8, DigitOfSum
<1>10. Ten \in Nat \ {0} /\ Tens = 0 .. Ten - 1 /\ Tens \subseteq Nat /\ {0, 1} \subseteq Nat
  BY AluSizes DEF Tens
<1>11. PICK X \in Nat, Y \in Nat, S \in Nat \ {0}, F \in Nat :
          X = x0 + (x1 * Ten) /\ Y = y0 + (y1 * Ten) /\ S = Ten * Ten /\ F = f0 + (f1 * Ten)
  BY <1>10
<1>12. F \in 0 .. S - 1 /\ SumsTo(X, Y, c, F, c2, S)
  BY <1>7, <1>9, <1>10, <1>11, TwoDigitsAdd, TwoDigitsBelow
<1>13. InDecimal(a, FALSE) = X /\ InDecimal(v, FALSE) = Y
       /\ InDecimal(o.r, FALSE) = F /\ IsDecimal(o.r, FALSE)
  <2>1. \A x, y \in Tens : /\ IsDecimal(Pair(x, y), FALSE)
                          /\ InDecimal(Pair(x, y), FALSE) = x + (y * Ten)
    BY DecimalByte
  <2>2. o.r = Pair(f0, f1)
    BY <1>4, <1>7, <1>9 DEF ByteSum
  <2> QED BY <1>1, <1>2, <1>11, <2>1, <2>2, Zenon
<1>14. DecimalSize(FALSE) = S
  BY <1>11 DEF DecimalSize
<1>15. WrapsUp(X, Y, c, F, c2, S)
  BY <1>12, CarryOut
<1>16. "C" \in o.q <=> c2 = 1
  BY <1>4, <1>9 DEF ByteSum
<1> QED BY <1>3, <1>5, <1>13, <1>14, <1>15, <1>16 DEF WrapsUp

LEMMA ByteSubtractsInDecimal ==
    ASSUME NEW a \in 0 .. ByteVals - 1, NEW v \in 0 .. ByteVals - 1, NEW q,
           IsDecimal(a, FALSE), IsDecimal(v, FALSE)
    PROVE  LET o == SubtractDecimal(a, v, q, FALSE)
               difference == InDecimal(a, FALSE) - InDecimal(v, FALSE) - (1 - One(q))
           IN  /\ InDecimal(o.r, FALSE) = difference % DecimalSize(FALSE)
               /\ IsDecimal(o.r, FALSE)
               /\ "C" \in o.q <=> difference >= 0
<1>1. PICK x0 \in Tens, x1 \in Tens : a = Pair(x0, x1)
  BY DecimalByte
<1>2. PICK y0 \in Tens, y1 \in Tens : v = Pair(y0, y1)
  BY DecimalByte
<1>3. PICK o : o = SubtractDecimal(a, v, q, FALSE)
  OBVIOUS
<1>4. PICK s0 \in Int, s1 \in Int : ByteDifference(o, x0, x1, y0, y1, One(q), s0, s1)
  BY <1>1, <1>2, <1>3, SubtractByte
<1>5. PICK c \in {0, 1} : c = 1 - One(q)
  BY DEF One
<1>6. IsDifference(s0, x0, y0, c)
  BY <1>4, <1>5 DEF ByteDifference, IsDifference
<1>7. PICK f0 \in Tens, c1 \in {0, 1} : f0 = FixDown(s0) /\ c1 = Under(s0) /\ SumsTo(f0, y0, c, x0, c1, Ten)
  BY <1>6, DigitOfDifference
<1>8. IsDifference(s1, x1, y1, c1)
  BY <1>4, <1>7 DEF ByteDifference, IsDifference
<1>9. PICK f1 \in Tens, c2 \in {0, 1} : f1 = FixDown(s1) /\ c2 = Under(s1) /\ SumsTo(f1, y1, c1, x1, c2, Ten)
  BY <1>8, DigitOfDifference
<1>10. Ten \in Nat \ {0} /\ Tens = 0 .. Ten - 1 /\ Tens \subseteq Nat /\ {0, 1} \subseteq Nat
  BY AluSizes DEF Tens
<1>11. PICK X \in Nat, Y \in Nat, S \in Nat \ {0}, F \in Nat :
          X = x0 + (x1 * Ten) /\ Y = y0 + (y1 * Ten) /\ S = Ten * Ten /\ F = f0 + (f1 * Ten)
  BY <1>10
<1>12. F \in 0 .. S - 1 /\ SumsTo(F, Y, c, X, c2, S)
  BY <1>7, <1>9, <1>10, <1>11, TwoDigitsAdd, TwoDigitsBelow
<1>13. InDecimal(a, FALSE) = X /\ InDecimal(v, FALSE) = Y
       /\ InDecimal(o.r, FALSE) = F /\ IsDecimal(o.r, FALSE)
  <2>1. \A x, y \in Tens : /\ IsDecimal(Pair(x, y), FALSE)
                          /\ InDecimal(Pair(x, y), FALSE) = x + (y * Ten)
    BY DecimalByte
  <2>2. o.r = Pair(f0, f1)
    BY <1>4, <1>7, <1>9 DEF ByteDifference
  <2> QED BY <1>1, <1>2, <1>11, <2>1, <2>2, Zenon
<1>14. DecimalSize(FALSE) = S
  BY <1>11 DEF DecimalSize
<1>15. WrapsDown(X, Y, c, F, c2, S)
  BY <1>12, BorrowOut
<1>16. "C" \in o.q <=> c2 = 0
  BY <1>4, <1>9 DEF ByteDifference
<1> QED BY <1>3, <1>5, <1>13, <1>14, <1>15, <1>16 DEF WrapsDown

LEMMA WordAddsInDecimal ==
    ASSUME NEW a \in 0 .. WordVals - 1, NEW v \in 0 .. WordVals - 1, NEW q,
           IsDecimal(a, TRUE), IsDecimal(v, TRUE)
    PROVE  LET o == AddDecimal(a, v, q, TRUE)
               sum == InDecimal(a, TRUE) + InDecimal(v, TRUE) + One(q)
           IN  /\ InDecimal(o.r, TRUE) = sum % DecimalSize(TRUE)
               /\ IsDecimal(o.r, TRUE)
               /\ "C" \in o.q <=> sum >= DecimalSize(TRUE)
<1>1. PICK x0 \in Tens, x1 \in Tens, x2 \in Tens, x3 \in Tens : a = Word2(Pair(x0, x1), Pair(x2, x3))
  BY DecimalWord
<1>2. PICK y0 \in Tens, y1 \in Tens, y2 \in Tens, y3 \in Tens : v = Word2(Pair(y0, y1), Pair(y2, y3))
  BY DecimalWord
<1>3. PICK o : o = AddDecimal(a, v, q, TRUE)
  OBVIOUS
<1>4. PICK s0 \in Nat, s1 \in Nat, s2 \in Nat, s3 \in Nat :
        WordSum(o, x0, x1, x2, x3, y0, y1, y2, y3, One(q), s0, s1, s2, s3)
  BY <1>1, <1>2, <1>3, AddWord
<1>5. PICK c \in {0, 1} : c = One(q)
  BY DEF One
<1>6. IsSum(s0, x0, y0, c)
  BY <1>4, <1>5 DEF WordSum, IsSum
<1>7. PICK f0 \in Tens, c1 \in {0, 1} :
        f0 = FixUp(s0) /\ c1 = OutOf(s0) /\ SumsTo(x0, y0, c, f0, c1, Ten)
  BY <1>6, DigitOfSum
<1>8. IsSum(s1, x1, y1, c1)
  BY <1>4, <1>7 DEF WordSum, IsSum
<1>9. PICK f1 \in Tens, c2 \in {0, 1} :
        f1 = FixUp(s1) /\ c2 = OutOf(s1) /\ SumsTo(x1, y1, c1, f1, c2, Ten)
  BY <1>8, DigitOfSum
<1>10. IsSum(s2, x2, y2, c2)
  BY <1>4, <1>9 DEF WordSum, IsSum
<1>11. PICK f2 \in Tens, c3 \in {0, 1} :
        f2 = FixUp(s2) /\ c3 = OutOf(s2) /\ SumsTo(x2, y2, c2, f2, c3, Ten)
  BY <1>10, DigitOfSum
<1>12. IsSum(s3, x3, y3, c3)
  BY <1>4, <1>11 DEF WordSum, IsSum
<1>13. PICK f3 \in Tens, c4 \in {0, 1} :
        f3 = FixUp(s3) /\ c4 = OutOf(s3) /\ SumsTo(x3, y3, c3, f3, c4, Ten)
  BY <1>12, DigitOfSum
<1>14. Ten \in Nat \ {0} /\ Tens = 0 .. Ten - 1 /\ Tens \subseteq Nat /\ {0, 1} \subseteq Nat
  BY AluSizes DEF Tens
<1>15. PICK X0 \in Nat, Y0 \in Nat, T \in Nat \ {0}, F0 \in Nat :
          X0 = x0 + (x1 * Ten) /\ Y0 = y0 + (y1 * Ten) /\ T = Ten * Ten /\ F0 = f0 + (f1 * Ten)
  BY <1>14
<1>16. PICK X1 \in Nat, Y1 \in Nat, F1 \in Nat :
          X1 = x2 + (x3 * Ten) /\ Y1 = y2 + (y3 * Ten) /\ F1 = f2 + (f3 * Ten)
  BY <1>14
<1>17. F0 \in 0 .. T - 1 /\ SumsTo(X0, Y0, c, F0, c2, T)
  BY <1>7, <1>9, <1>14, <1>15, TwoDigitsAdd, TwoDigitsBelow
<1>18. F1 \in 0 .. T - 1 /\ SumsTo(X1, Y1, c2, F1, c4, T)
  BY <1>11, <1>13, <1>14, <1>15, <1>16, TwoDigitsAdd, TwoDigitsBelow
<1>19. PICK X \in Nat, Y \in Nat, S \in Nat \ {0}, F \in Nat :
          X = X0 + (X1 * T) /\ Y = Y0 + (Y1 * T) /\ S = T * T /\ F = F0 + (F1 * T)
  OBVIOUS
<1>20. F \in 0 .. S - 1 /\ SumsTo(X, Y, c, F, c4, S)
  BY <1>14, <1>17, <1>18, <1>19, TwoDigitsAdd, TwoDigitsBelow
<1>21. InDecimal(a, TRUE) = X /\ InDecimal(v, TRUE) = Y
       /\ InDecimal(o.r, TRUE) = F /\ IsDecimal(o.r, TRUE)
  <2>1. IsWordOf(o.r, f0, f1, f2, f3)
    BY <1>4, <1>7, <1>9, <1>11, <1>13 DEF WordSum, IsWordOf
  <2>2. IsWordOf(a, x0, x1, x2, x3) /\ IsWordOf(v, y0, y1, y2, y3)
    BY <1>1, <1>2 DEF IsWordOf
  <2>3. StandsFor(a, x0, x1, x2, x3) /\ StandsFor(v, y0, y1, y2, y3) /\ StandsFor(o.r, f0, f1, f2, f3)
    BY <2>1, <2>2, WordStandsFor
  <2>4. X = ValueOf(x0, x1, x2, x3) /\ Y = ValueOf(y0, y1, y2, y3) /\ F = ValueOf(f0, f1, f2, f3)
    BY <1>15, <1>16, <1>19 DEF ValueOf
  <2> QED BY <2>3, <2>4 DEF StandsFor
<1>22. DecimalSize(TRUE) = S
  <2>1. Ten * Ten * Ten * Ten = (Ten * Ten) * (Ten * Ten)
    BY <1>14
  <2> QED BY <2>1, <1>15, <1>19 DEF DecimalSize
<1>23. WrapsUp(X, Y, c, F, c4, S)
  BY <1>20, CarryOut
<1>24. "C" \in o.q <=> c4 = 1
  BY <1>4, <1>13 DEF WordSum
<1> QED BY <1>3, <1>5, <1>21, <1>22, <1>23, <1>24 DEF WrapsUp

LEMMA WordSubtractsInDecimal ==
    ASSUME NEW a \in 0 .. WordVals - 1, NEW v \in 0 .. WordVals - 1, NEW q,
           IsDecimal(a, TRUE), IsDecimal(v, TRUE)
    PROVE  LET o == SubtractDecimal(a, v, q, TRUE)
               difference == InDecimal(a, TRUE) - InDecimal(v, TRUE) - (1 - One(q))
           IN  /\ InDecimal(o.r, TRUE) = difference % DecimalSize(TRUE)
               /\ IsDecimal(o.r, TRUE)
               /\ "C" \in o.q <=> difference >= 0
<1>1. PICK x0 \in Tens, x1 \in Tens, x2 \in Tens, x3 \in Tens : a = Word2(Pair(x0, x1), Pair(x2, x3))
  BY DecimalWord
<1>2. PICK y0 \in Tens, y1 \in Tens, y2 \in Tens, y3 \in Tens : v = Word2(Pair(y0, y1), Pair(y2, y3))
  BY DecimalWord
<1>3. PICK o : o = SubtractDecimal(a, v, q, TRUE)
  OBVIOUS
<1>4. PICK s0 \in Int, s1 \in Int, s2 \in Int, s3 \in Int :
        WordDifference(o, x0, x1, x2, x3, y0, y1, y2, y3, One(q), s0, s1, s2, s3)
  BY <1>1, <1>2, <1>3, SubtractWord
<1>5. PICK c \in {0, 1} : c = 1 - One(q)
  BY DEF One
<1>6. IsDifference(s0, x0, y0, c)
  BY <1>4, <1>5 DEF WordDifference, IsDifference
<1>7. PICK f0 \in Tens, c1 \in {0, 1} :
        f0 = FixDown(s0) /\ c1 = Under(s0) /\ SumsTo(f0, y0, c, x0, c1, Ten)
  BY <1>6, DigitOfDifference
<1>8. IsDifference(s1, x1, y1, c1)
  BY <1>4, <1>7 DEF WordDifference, IsDifference
<1>9. PICK f1 \in Tens, c2 \in {0, 1} :
        f1 = FixDown(s1) /\ c2 = Under(s1) /\ SumsTo(f1, y1, c1, x1, c2, Ten)
  BY <1>8, DigitOfDifference
<1>10. IsDifference(s2, x2, y2, c2)
  BY <1>4, <1>9 DEF WordDifference, IsDifference
<1>11. PICK f2 \in Tens, c3 \in {0, 1} :
        f2 = FixDown(s2) /\ c3 = Under(s2) /\ SumsTo(f2, y2, c2, x2, c3, Ten)
  BY <1>10, DigitOfDifference
<1>12. IsDifference(s3, x3, y3, c3)
  BY <1>4, <1>11 DEF WordDifference, IsDifference
<1>13. PICK f3 \in Tens, c4 \in {0, 1} :
        f3 = FixDown(s3) /\ c4 = Under(s3) /\ SumsTo(f3, y3, c3, x3, c4, Ten)
  BY <1>12, DigitOfDifference
<1>14. Ten \in Nat \ {0} /\ Tens = 0 .. Ten - 1 /\ Tens \subseteq Nat /\ {0, 1} \subseteq Nat
  BY AluSizes DEF Tens
<1>15. PICK X0 \in Nat, Y0 \in Nat, T \in Nat \ {0}, F0 \in Nat :
          X0 = x0 + (x1 * Ten) /\ Y0 = y0 + (y1 * Ten) /\ T = Ten * Ten /\ F0 = f0 + (f1 * Ten)
  BY <1>14
<1>16. PICK X1 \in Nat, Y1 \in Nat, F1 \in Nat :
          X1 = x2 + (x3 * Ten) /\ Y1 = y2 + (y3 * Ten) /\ F1 = f2 + (f3 * Ten)
  BY <1>14
<1>17. F0 \in 0 .. T - 1 /\ SumsTo(F0, Y0, c, X0, c2, T)
  BY <1>7, <1>9, <1>14, <1>15, TwoDigitsAdd, TwoDigitsBelow
<1>18. F1 \in 0 .. T - 1 /\ SumsTo(F1, Y1, c2, X1, c4, T)
  BY <1>11, <1>13, <1>14, <1>15, <1>16, TwoDigitsAdd, TwoDigitsBelow
<1>19. PICK X \in Nat, Y \in Nat, S \in Nat \ {0}, F \in Nat :
          X = X0 + (X1 * T) /\ Y = Y0 + (Y1 * T) /\ S = T * T /\ F = F0 + (F1 * T)
  OBVIOUS
<1>20. F \in 0 .. S - 1 /\ SumsTo(F, Y, c, X, c4, S)
  BY <1>14, <1>17, <1>18, <1>19, TwoDigitsAdd, TwoDigitsBelow
<1>21. InDecimal(a, TRUE) = X /\ InDecimal(v, TRUE) = Y
       /\ InDecimal(o.r, TRUE) = F /\ IsDecimal(o.r, TRUE)
  <2>1. IsWordOf(o.r, f0, f1, f2, f3)
    BY <1>4, <1>7, <1>9, <1>11, <1>13 DEF WordDifference, IsWordOf
  <2>2. IsWordOf(a, x0, x1, x2, x3) /\ IsWordOf(v, y0, y1, y2, y3)
    BY <1>1, <1>2 DEF IsWordOf
  <2>3. StandsFor(a, x0, x1, x2, x3) /\ StandsFor(v, y0, y1, y2, y3) /\ StandsFor(o.r, f0, f1, f2, f3)
    BY <2>1, <2>2, WordStandsFor
  <2>4. X = ValueOf(x0, x1, x2, x3) /\ Y = ValueOf(y0, y1, y2, y3) /\ F = ValueOf(f0, f1, f2, f3)
    BY <1>15, <1>16, <1>19 DEF ValueOf
  <2> QED BY <2>3, <2>4 DEF StandsFor
<1>22. DecimalSize(TRUE) = S
  <2>1. Ten * Ten * Ten * Ten = (Ten * Ten) * (Ten * Ten)
    BY <1>14
  <2> QED BY <2>1, <1>15, <1>19 DEF DecimalSize
<1>23. WrapsDown(X, Y, c, F, c4, S)
  BY <1>20, BorrowOut
<1>24. "C" \in o.q <=> c4 = 0
  BY <1>4, <1>13 DEF WordDifference
<1> QED BY <1>3, <1>5, <1>21, <1>22, <1>23, <1>24 DEF WrapsDown

-----------------------------------------------------------------------------
LEMMA DecimalAdcSbc ==
    ASSUME NEW w \in BOOLEAN, NEW a \in 0 .. Vals(w) - 1, NEW v \in 0 .. Vals(w) - 1, NEW q, "D" \in q,
           IsDecimal(a, w), IsDecimal(v, w)
    PROVE  LET sum == InDecimal(a, w) + InDecimal(v, w) + One(q)
               difference == InDecimal(a, w) - InDecimal(v, w) - (1 - One(q))
           IN  /\ InDecimal(adc(a, v, q, w).r, w) = sum % DecimalSize(w)
               /\ IsDecimal(adc(a, v, q, w).r, w)
               /\ "C" \in adc(a, v, q, w).q <=> sum >= DecimalSize(w)
               /\ InDecimal(sbc(a, v, q, w).r, w) = difference % DecimalSize(w)
               /\ IsDecimal(sbc(a, v, q, w).r, w)
               /\ "C" \in sbc(a, v, q, w).q <=> difference >= 0
<1>1. adc(a, v, q, w) = AddDecimal(a, v, q, w) /\ sbc(a, v, q, w) = SubtractDecimal(a, v, q, w)
  BY DEF adc, sbc
<1>2. CASE w = TRUE
  <2>1. a \in 0 .. WordVals - 1 /\ v \in 0 .. WordVals - 1 /\ IsDecimal(a, TRUE) /\ IsDecimal(v, TRUE)
    BY <1>2 DEF Vals
  <2>2. LET sum == InDecimal(a, TRUE) + InDecimal(v, TRUE) + One(q)
        IN  /\ InDecimal(AddDecimal(a, v, q, TRUE).r, TRUE) = sum % DecimalSize(TRUE)
            /\ IsDecimal(AddDecimal(a, v, q, TRUE).r, TRUE)
            /\ "C" \in AddDecimal(a, v, q, TRUE).q <=> sum >= DecimalSize(TRUE)
    BY <2>1, WordAddsInDecimal, Zenon
  <2>3. LET difference == InDecimal(a, TRUE) - InDecimal(v, TRUE) - (1 - One(q))
        IN  /\ InDecimal(SubtractDecimal(a, v, q, TRUE).r, TRUE) = difference % DecimalSize(TRUE)
            /\ IsDecimal(SubtractDecimal(a, v, q, TRUE).r, TRUE)
            /\ "C" \in SubtractDecimal(a, v, q, TRUE).q <=> difference >= 0
    BY <2>1, WordSubtractsInDecimal, Zenon
  <2> QED BY <1>1, <1>2, <2>2, <2>3, Zenon
<1>3. CASE w = FALSE
  <2>1. a \in 0 .. ByteVals - 1 /\ v \in 0 .. ByteVals - 1 /\ IsDecimal(a, FALSE) /\ IsDecimal(v, FALSE)
    BY <1>3 DEF Vals
  <2>2. LET sum == InDecimal(a, FALSE) + InDecimal(v, FALSE) + One(q)
        IN  /\ InDecimal(AddDecimal(a, v, q, FALSE).r, FALSE) = sum % DecimalSize(FALSE)
            /\ IsDecimal(AddDecimal(a, v, q, FALSE).r, FALSE)
            /\ "C" \in AddDecimal(a, v, q, FALSE).q <=> sum >= DecimalSize(FALSE)
    BY <2>1, ByteAddsInDecimal, Zenon
  <2>3. LET difference == InDecimal(a, FALSE) - InDecimal(v, FALSE) - (1 - One(q))
        IN  /\ InDecimal(SubtractDecimal(a, v, q, FALSE).r, FALSE) = difference % DecimalSize(FALSE)
            /\ IsDecimal(SubtractDecimal(a, v, q, FALSE).r, FALSE)
            /\ "C" \in SubtractDecimal(a, v, q, FALSE).q <=> difference >= 0
    BY <2>1, ByteSubtractsInDecimal, Zenon
  <2> QED BY <1>1, <1>3, <2>2, <2>3, Zenon
<1> QED BY <1>2, <1>3

LEMMA RegistersFit ==
    ASSUME NEW w \in BOOLEAN, NEW n \in Int
    PROVE  n % Vals(w) \in 0 .. Vals(w) - 1
BY AluSizes, Remainder

LEMMA AddsInDecimal ==
    ASSUME AluType
    PROVE  DecimalIsDecimal
<1> SUFFICES ASSUME NEW w \in BOOLEAN PROVE
        LET a == aluC % Vals(w)
            v == aluM % Vals(w)
            q == aluP \cup {"D"}
            sum == InDecimal(a, w) + InDecimal(v, w) + One(q)
            difference == InDecimal(a, w) - InDecimal(v, w) - (1 - One(q))
        IN  IsDecimal(a, w) /\ IsDecimal(v, w) =>
              /\ InDecimal(adc(a, v, q, w).r, w) = sum % DecimalSize(w)
              /\ IsDecimal(adc(a, v, q, w).r, w)
              /\ "C" \in adc(a, v, q, w).q <=> sum >= DecimalSize(w)
              /\ InDecimal(sbc(a, v, q, w).r, w) = difference % DecimalSize(w)
              /\ IsDecimal(sbc(a, v, q, w).r, w)
              /\ "C" \in sbc(a, v, q, w).q <=> difference >= 0
  BY Zenon DEF DecimalIsDecimal
<1> DEFINE a == aluC % Vals(w)
           v == aluM % Vals(w)
           q == aluP \cup {"D"}
<1>1. aluC \in Int /\ aluM \in Int
  BY AluSizes DEF AluType
<1>2. a \in 0 .. Vals(w) - 1 /\ v \in 0 .. Vals(w) - 1
  BY <1>1, RegistersFit
<1>3. "D" \in q
  OBVIOUS
<1> HIDE DEF a, v, q
<1> QED BY <1>2, <1>3, DecimalAdcSbc, Zenon DEF a, v, q

-----------------------------------------------------------------------------
LEMMA ValsHalf ==
    ASSUME NEW w \in BOOLEAN
    PROVE  \E H \in Nat \ {0} : Vals(w) = 2 * H /\ Vals(w) \div 2 = H
<1>1. PICK h \in Nat \ {0} : /\ ByteVals = 2 * (h * Digit) /\ ByteVals \div 2 = h * Digit
                             /\ WordVals = 2 * (h * Digit * ByteVals)
                             /\ WordVals \div 2 = h * Digit * ByteVals
  BY AluHalves
<1>2. \A x, y \in Nat \ {0} : x * y \in Nat \ {0}
  OBVIOUS
<1>3. h * Digit \in Nat \ {0}
  BY <1>2, AluSizes
<1>4. h * Digit * ByteVals \in Nat \ {0}
  BY <1>2, <1>3, AluSizes
<1>5. CASE w
  BY <1>1, <1>4, <1>5 DEF Vals
<1>6. CASE ~ w
  BY <1>1, <1>3, <1>6 DEF Vals
<1> QED BY <1>5, <1>6

\* What adc leaves of two numbers whose sum is f and a carry cc, in binary.
BinarySum(o, a, v, f, cc, w) ==
    /\ o.r = f
    /\ "C" \in o.q <=> cc = 1
    /\ "N" \in o.q <=> Negative(f, w)
    /\ "V" \in o.q <=> Negative(f, w) # Negative(a, w) /\ Negative(f, w) # Negative(v, w)

LEMMA BinaryAdds ==
    ASSUME NEW w \in BOOLEAN, NEW a \in 0 .. Vals(w) - 1, NEW v \in 0 .. Vals(w) - 1, NEW q,
           NEW f \in 0 .. Vals(w) - 1, NEW cc \in {0, 1}, SumsTo(a, v, One(q), f, cc, Vals(w))
    PROVE  BinarySum(AddBinary(a, v, q, w), a, v, f, cc, w)
<1>1. PICK M \in Nat \ {0} : M = Vals(w)
  BY AluSizes
<1>2. PICK c \in {0, 1} : c = One(q)
  BY DEF One
<1>3. PICK n \in Nat : n = a + v + c
  BY <1>1, <1>2
<1>4. (n >= M <=> cc = 1) /\ n % M = f /\ f % M = f
  <2>1. WrapsUp(a, v, c, f, cc, M)
    BY <1>1, <1>2, CarryOut
  <2> QED BY <2>1, <1>1, <1>3 DEF WrapsUp
<1>5. Negative(n, w) = Negative(f, w)
  BY <1>1, <1>4 DEF Negative
<1> DEFINE qq == Put(Put(q, "V", Overflow(n, a, v, w)), "C", n >= Vals(w))
<1>6. AddBinary(a, v, q, w) = Result(n, qq, w)
  BY <1>2, <1>3 DEF AddBinary
<1>7. ("C" \in qq <=> n >= M) /\ ("V" \in qq <=> Overflow(n, a, v, w))
  BY <1>1 DEF Put
<1> HIDE DEF qq
<1>8. PICK o : o = Result(n, qq, w)
  OBVIOUS
<1>9. /\ o.r = n % Vals(w)
      /\ "C" \in o.q <=> "C" \in qq
      /\ "V" \in o.q <=> "V" \in qq
      /\ "N" \in o.q <=> Negative(n, w)
  BY <1>8, ResultFlags
<1>10. Overflow(n, a, v, w) <=> Negative(f, w) # Negative(a, w) /\ Negative(f, w) # Negative(v, w)
  BY <1>5 DEF Overflow
<1> QED BY <1>1, <1>4, <1>5, <1>6, <1>7, <1>8, <1>9, <1>10 DEF BinarySum

LEMMA SignOf ==
    ASSUME NEW w \in BOOLEAN, NEW H \in Nat \ {0}, Vals(w) = 2 * H, Vals(w) \div 2 = H,
           NEW n \in 0 .. Vals(w) - 1
    PROVE  /\ Negative(n, w) <=> n >= H
           /\ Signed(n, w) = IF n >= H THEN n - (2 * H) ELSE n
           /\ Inverted(n, w) \in 0 .. Vals(w) - 1 /\ Inverted(n, w) = ((2 * H) - 1) - n
<1>1. n % Vals(w) = n
  <2>1. PICK M \in Nat \ {0} : M = Vals(w)
    BY AluSizes
  <2> QED BY <2>1
<1>2. Negative(n, w) <=> n >= H
  BY <1>1 DEF Negative
<1>3. Signed(n, w) = IF n >= H THEN n - (2 * H) ELSE n
  BY <1>1, <1>2 DEF Signed
<1> QED BY <1>2, <1>3 DEF Inverted

LEMMA OrdersOperands ==
    ASSUME AluType
    PROVE  OrdersSigned
<1> SUFFICES ASSUME NEW w \in BOOLEAN
             PROVE  LET a == aluC % Vals(w)
                        v == aluM % Vals(w)
                        q == sbc(a, v, (aluP \cup {"C"}) \ {"D"}, w).q
                    IN  /\ (bmi(q) # bvs(q)) <=> Signed(a, w) < Signed(v, w)
                        /\ bcs(q) <=> a >= v
                        /\ bcs(q) <=> bcs(Compare(a, v, aluP, w).q)
  BY Zenon DEF OrdersSigned
<1>1. PICK a \in 0 .. Vals(w) - 1, v \in 0 .. Vals(w) - 1 : a = aluC % Vals(w) /\ v = aluM % Vals(w)
  <2>1. aluC \in Int /\ aluM \in Int
    BY AluSizes DEF AluType
  <2> QED BY <2>1, RegistersFit
<1>2. PICK H \in Nat \ {0} : Vals(w) = 2 * H /\ Vals(w) \div 2 = H
  BY ValsHalf
<1>3. PICK u \in 0 .. Vals(w) - 1 : u = Inverted(v, w) /\ u = ((2 * H) - 1) - v
  BY <1>2, SignOf
<1>4. PICK q : q = (aluP \cup {"C"}) \ {"D"}
  OBVIOUS
<1>5. One(q) = 1 /\ sbc(a, v, q, w) = AddBinary(a, u, q, w)
  BY <1>3, <1>4 DEF One, sbc
<1>6. PICK f \in 0 .. Vals(w) - 1, cc \in {0, 1} :
         /\ a >= v => f = a - v /\ cc = 1
         /\ a < v => f = (a - v) + (2 * H) /\ cc = 0
  <2>1. CASE a >= v
    <3>1. a - v \in 0 .. Vals(w) - 1 /\ 1 \in {0, 1} /\ ~ (a < v)
      BY <1>2, <2>1
    <3> QED BY <3>1
  <2>2. CASE a < v
    <3>1. (a - v) + (2 * H) \in 0 .. Vals(w) - 1 /\ 0 \in {0, 1} /\ ~ (a >= v)
      BY <1>2, <2>2
    <3> QED BY <3>1
  <2> QED BY <1>2, <2>1, <2>2
<1>7. SumsTo(a, u, One(q), f, cc, Vals(w))
  BY <1>2, <1>3, <1>5, <1>6 DEF SumsTo
<1>8. PICK o : o = sbc(a, v, q, w) /\ BinarySum(o, a, u, f, cc, w)
  BY <1>5, <1>7, BinaryAdds
<1>9. "C" \in o.q <=> a >= v
  BY <1>2, <1>6, <1>8 DEF BinarySum
<1>10. "C" \in Compare(a, v, aluP, w).q <=> a >= v
  BY DEF Compare, Put
<1>11. ("N" \in o.q <=> f >= H) /\ ("V" \in o.q <=> (f >= H <=> a < H) /\ (f >= H <=> u < H))
  <2>1. (Negative(f, w) <=> f >= H) /\ (Negative(a, w) <=> a >= H) /\ (Negative(u, w) <=> u >= H)
    BY <1>2, SignOf
  <2>2. Negative(f, w) \in BOOLEAN /\ Negative(a, w) \in BOOLEAN /\ Negative(u, w) \in BOOLEAN
    BY SignsAreBoolean
  <2>3. (a < H <=> ~ (a >= H)) /\ (u < H <=> ~ (u >= H))
    BY <1>2
  <2>4. /\ "N" \in o.q <=> Negative(f, w)
        /\ "V" \in o.q <=> Negative(f, w) # Negative(a, w) /\ Negative(f, w) # Negative(u, w)
    BY <1>8 DEF BinarySum
  <2> QED BY <2>1, <2>2, <2>3, <2>4
<1>12. ("N" \in o.q <=> ~ ("V" \in o.q)) <=> Signed(a, w) < Signed(v, w)
  <2>1. Signed(a, w) = (IF a >= H THEN a - (2 * H) ELSE a) /\ Signed(v, w) = (IF v >= H THEN v - (2 * H) ELSE v)
    BY <1>2, SignOf
  <2> QED BY <1>2, <1>3, <1>6, <1>11, <2>1
<1>13. (bmi(o.q) # bvs(o.q)) <=> Signed(a, w) < Signed(v, w)
  BY <1>12 DEF bmi, bvs
<1>14. (bcs(o.q) <=> a >= v) /\ (bcs(o.q) <=> bcs(Compare(a, v, aluP, w).q))
  BY <1>9, <1>10 DEF bcs
<1> QED BY <1>1, <1>4, <1>8, <1>13, <1>14, Zenon

-----------------------------------------------------------------------------
\* The words whose halves are bytes: x is the lower half, y the upper.
LEMMA WordsAndBytes ==
    \A lo, hi : Word2(lo, hi) = lo + (hi * ByteVals) \/ ~ (lo \in Int /\ hi \in Int)
<1> SUFFICES ASSUME NEW lo \in Int, NEW hi \in Int PROVE Word2(lo, hi) = lo + (hi * ByteVals)
  OBVIOUS
<1>1. PICK b \in Nat : b = ByteVals
  BY AluSizes
<1>2. (b * hi) + lo = lo + (hi * b)
  OBVIOUS
<1> QED BY <1>1, <1>2 DEF Word2

AddUp(x0, x1, y0, y1, c) ==
    \E f0, f1 \in 0 .. ByteVals - 1, c1, c2 \in {0, 1} :
        /\ SumsTo(x0, y0, c, f0, c1, ByteVals) /\ SumsTo(x1, y1, c1, f1, c2, ByteVals)
        /\ SumsTo(Word2(x0, x1), Word2(y0, y1), c, Word2(f0, f1), c2, WordVals)

LEMMA WordSums ==
    ASSUME NEW x0 \in 0 .. ByteVals - 1, NEW x1 \in 0 .. ByteVals - 1,
           NEW y0 \in 0 .. ByteVals - 1, NEW y1 \in 0 .. ByteVals - 1, NEW c \in {0, 1}
    PROVE  AddUp(x0, x1, y0, y1, c)
<1>0. PICK B \in Nat \ {0} : B = ByteVals
  BY AluSizes
<1>1. \A x, y \in 0 .. B - 1, j \in {0, 1} :
         \E f \in 0 .. B - 1, cc \in {0, 1} : SumsTo(x, y, j, f, cc, B)
  <2> SUFFICES ASSUME NEW x \in 0 .. B - 1, NEW y \in 0 .. B - 1, NEW j \in {0, 1}
               PROVE  \E f \in 0 .. B - 1, cc \in {0, 1} : SumsTo(x, y, j, f, cc, B)
    OBVIOUS
  <2>1. CASE x + y + j >= B
    <3>1. (x + y + j) - B \in 0 .. B - 1 /\ SumsTo(x, y, j, (x + y + j) - B, 1, B)
      BY <2>1 DEF SumsTo
    <3> QED BY <3>1
  <2>2. CASE ~ (x + y + j >= B)
    <3>1. x + y + j \in 0 .. B - 1 /\ SumsTo(x, y, j, x + y + j, 0, B)
      BY <2>2 DEF SumsTo
    <3> QED BY <3>1
  <2> QED BY <2>1, <2>2
<1>2. PICK f0 \in 0 .. B - 1, c1 \in {0, 1} : SumsTo(x0, y0, c, f0, c1, B)
  BY <1>0, <1>1
<1>3. PICK f1 \in 0 .. B - 1, c2 \in {0, 1} : SumsTo(x1, y1, c1, f1, c2, B)
  BY <1>0, <1>1
<1>4. SumsTo(x0 + (x1 * B), y0 + (y1 * B), c, f0 + (f1 * B), c2, B * B)
  <2>1. x0 \in Nat /\ x1 \in Nat /\ y0 \in Nat /\ y1 \in Nat /\ f0 \in Nat /\ f1 \in Nat
        /\ c \in Nat /\ c1 \in Nat /\ c2 \in Nat
    BY <1>0
  <2> QED BY <2>1, <1>2, <1>3, TwoDigitsAdd
<1>5. /\ Word2(x0, x1) = x0 + (x1 * B) /\ Word2(y0, y1) = y0 + (y1 * B)
      /\ Word2(f0, f1) = f0 + (f1 * B) /\ WordVals = B * B
  BY <1>0, WordsAndBytes, AluSizes
<1>6. SumsTo(Word2(x0, x1), Word2(y0, y1), c, Word2(f0, f1), c2, WordVals)
  BY <1>4, <1>5
<1> QED BY <1>0, <1>2, <1>3, <1>6 DEF AddUp

\* The two widths of a binary sum, the parameter of the width being given.
LEMMA BinaryByteAdds ==
    ASSUME NEW a \in 0 .. ByteVals - 1, NEW v \in 0 .. ByteVals - 1, NEW q,
           NEW f \in 0 .. ByteVals - 1, NEW cc \in {0, 1}, SumsTo(a, v, One(q), f, cc, ByteVals)
    PROVE  BinarySum(AddBinary(a, v, q, FALSE), a, v, f, cc, FALSE)
<1>1. \A w \in BOOLEAN : Vals(w) = ByteVals => BinarySum(AddBinary(a, v, q, w), a, v, f, cc, w)
  BY BinaryAdds
<1>2. FALSE \in BOOLEAN /\ Vals(FALSE) = ByteVals
  BY DEF Vals
<1> QED BY <1>1, <1>2, Zenon

LEMMA BinaryWordAdds ==
    ASSUME NEW a \in 0 .. WordVals - 1, NEW v \in 0 .. WordVals - 1, NEW q,
           NEW f \in 0 .. WordVals - 1, NEW cc \in {0, 1}, SumsTo(a, v, One(q), f, cc, WordVals)
    PROVE  BinarySum(AddBinary(a, v, q, TRUE), a, v, f, cc, TRUE)
<1>1. \A w \in BOOLEAN : Vals(w) = WordVals => BinarySum(AddBinary(a, v, q, w), a, v, f, cc, w)
  BY BinaryAdds
<1>2. TRUE \in BOOLEAN /\ Vals(TRUE) = WordVals
  BY DEF Vals
<1> QED BY <1>1, <1>2, Zenon

-----------------------------------------------------------------------------
\* A long operation and two narrow ones agree where their results do.
LEMMA TheyAgree ==
    ASSUME NEW b, NEW lo, NEW hi, NEW out, b.r = Word2(lo.r, hi.r),
           \A g \in out : g \in b.q <=> g \in hi.q
    PROVE  Agree(b, Halves(lo, hi), out)
BY DEF Agree, Halves, Word2

LEMMA WideAdds ==
    ASSUME NEW cl \in 0 .. ByteVals - 1, NEW ch \in 0 .. ByteVals - 1,
           NEW vl \in 0 .. ByteVals - 1, NEW vh \in 0 .. ByteVals - 1, NEW q
    PROVE  LET lo == AddBinary(cl, vl, q, FALSE)
           IN  Agree(AddBinary(Word2(cl, ch), Word2(vl, vh), q, TRUE),
                     Halves(lo, AddBinary(ch, vh, lo.q, FALSE)), {"C", "V", "N"})
<1>1. PICK c \in {0, 1} : c = One(q)
  BY DEF One
<1>2. PICK f0 \in 0 .. ByteVals - 1, f1 \in 0 .. ByteVals - 1, c1 \in {0, 1}, c2 \in {0, 1} :
         /\ SumsTo(cl, vl, c, f0, c1, ByteVals) /\ SumsTo(ch, vh, c1, f1, c2, ByteVals)
         /\ SumsTo(Word2(cl, ch), Word2(vl, vh), c, Word2(f0, f1), c2, WordVals)
  <2>1. AddUp(cl, ch, vl, vh, c)
    BY WordSums
  <2> QED BY <2>1 DEF AddUp
<1>3. PICK lo : lo = AddBinary(cl, vl, q, FALSE)
  OBVIOUS
<1>4. BinarySum(lo, cl, vl, f0, c1, FALSE)
  BY <1>1, <1>2, <1>3, BinaryByteAdds
<1>5. One(lo.q) = c1
  BY <1>4 DEF BinarySum, One
<1>6. PICK hi : hi = AddBinary(ch, vh, lo.q, FALSE)
  OBVIOUS
<1>7. BinarySum(hi, ch, vh, f1, c2, FALSE)
  BY <1>2, <1>5, <1>6, BinaryByteAdds
<1>8. PICK b : b = AddBinary(Word2(cl, ch), Word2(vl, vh), q, TRUE)
  OBVIOUS
<1>9. BinarySum(b, Word2(cl, ch), Word2(vl, vh), Word2(f0, f1), c2, TRUE)
  <2>1. Word2(cl, ch) \in 0 .. WordVals - 1 /\ Word2(vl, vh) \in 0 .. WordVals - 1
        /\ Word2(f0, f1) \in 0 .. WordVals - 1
    BY Word2Parts
  <2> QED BY <2>1, <1>1, <1>2, <1>8, BinaryWordAdds
<1>10. /\ Negative(Word2(cl, ch), TRUE) = Negative(ch, FALSE)
       /\ Negative(Word2(vl, vh), TRUE) = Negative(vh, FALSE)
       /\ Negative(Word2(f0, f1), TRUE) = Negative(f1, FALSE)
  <2>1. /\ Negative(Word2(cl, ch), TRUE) <=> Negative(ch, FALSE)
        /\ Negative(Word2(vl, vh), TRUE) <=> Negative(vh, FALSE)
        /\ Negative(Word2(f0, f1), TRUE) <=> Negative(f1, FALSE)
    BY NegativeWord2
  <2> QED BY <2>1, SignsAreBoolean
<1>11. b.r = Word2(lo.r, hi.r)
  BY <1>4, <1>7, <1>9 DEF BinarySum
<1>12. ("C" \in b.q <=> "C" \in hi.q) /\ ("N" \in b.q <=> "N" \in hi.q) /\ ("V" \in b.q <=> "V" \in hi.q)
  BY <1>7, <1>9, <1>10 DEF BinarySum
<1>13. Agree(b, Halves(lo, hi), {"C", "V", "N"})
  BY <1>11, <1>12, TheyAgree
<1> QED BY <1>3, <1>6, <1>8, <1>13

LEMMA WideSubtracts ==
    ASSUME NEW cl \in 0 .. ByteVals - 1, NEW ch \in 0 .. ByteVals - 1,
           NEW vl \in 0 .. ByteVals - 1, NEW vh \in 0 .. ByteVals - 1, NEW q
    PROVE  LET lo == AddBinary(cl, Inverted(vl, FALSE), q, FALSE)
           IN  Agree(AddBinary(Word2(cl, ch), Inverted(Word2(vl, vh), TRUE), q, TRUE),
                     Halves(lo, AddBinary(ch, Inverted(vh, FALSE), lo.q, FALSE)), {"C", "V", "N"})
<1>1. PICK B \in Nat \ {0} : B = ByteVals /\ WordVals = B * B
  BY AluSizes
<1>2. PICK il \in 0 .. ByteVals - 1, ih \in 0 .. ByteVals - 1 :
         /\ il = Inverted(vl, FALSE) /\ ih = Inverted(vh, FALSE)
         /\ il = (B - 1) - vl /\ ih = (B - 1) - vh
  <2>1. (B - 1) - vl \in 0 .. ByteVals - 1 /\ (B - 1) - vh \in 0 .. ByteVals - 1
    BY <1>1
  <2> QED BY <2>1, <1>1 DEF Inverted, Vals
<1>3. Inverted(Word2(vl, vh), TRUE) = Word2(il, ih)
  <2>1. B * ((B - 1) - vh) = ((B * B) - B) - (B * vh) /\ B * B \in Int /\ B * vh \in Int
    BY <1>1
  <2>2. ((B * B) - 1) - ((B * vh) + vl) = (B * ((B - 1) - vh)) + ((B - 1) - vl)
    BY <1>1, <2>1
  <2> QED BY <2>2, <1>1, <1>2 DEF Inverted, Vals, Word2
<1> QED BY <1>2, <1>3, WideAdds

-----------------------------------------------------------------------------
\* The carry that the low byte of a decimal sum passes on.
LEMMA WideDecimalAdds ==
    ASSUME NEW x0 \in Tens, NEW x1 \in Tens, NEW x2 \in Tens, NEW x3 \in Tens,
           NEW y0 \in Tens, NEW y1 \in Tens, NEW y2 \in Tens, NEW y3 \in Tens, NEW q
    PROVE  LET lo == AddDecimal(Pair(x0, x1), Pair(y0, y1), q, FALSE)
           IN  Agree(AddDecimal(Word2(Pair(x0, x1), Pair(x2, x3)), Word2(Pair(y0, y1), Pair(y2, y3)), q, TRUE),
                     Halves(lo, AddDecimal(Pair(x2, x3), Pair(y2, y3), lo.q, FALSE)), {"C", "V", "N"})
<1>1. PICK lo : lo = AddDecimal(Pair(x0, x1), Pair(y0, y1), q, FALSE)
  OBVIOUS
<1>2. PICK s0 \in Nat, s1 \in Nat : ByteSum(lo, x0, x1, y0, y1, One(q), s0, s1)
  BY <1>1, AddByte
<1>3. OutOf(s1) \in {0, 1} /\ One(lo.q) = OutOf(s1)
  BY <1>2 DEF ByteSum, OutOf, One
<1>4. PICK hi : hi = AddDecimal(Pair(x2, x3), Pair(y2, y3), lo.q, FALSE)
  OBVIOUS
<1>5. PICK s2 \in Nat, s3 \in Nat : ByteSum(hi, x2, x3, y2, y3, One(lo.q), s2, s3)
  BY <1>4, AddByte
<1>6. PICK b : b = AddDecimal(Word2(Pair(x0, x1), Pair(x2, x3)), Word2(Pair(y0, y1), Pair(y2, y3)), q, TRUE)
  OBVIOUS
<1>7. PICK t0 \in Nat, t1 \in Nat, t2 \in Nat, t3 \in Nat :
         WordSum(b, x0, x1, x2, x3, y0, y1, y2, y3, One(q), t0, t1, t2, t3)
  BY <1>6, AddWord
<1>8. t0 = s0 /\ t1 = s1 /\ t2 = s2 /\ t3 = s3
  BY <1>2, <1>3, <1>5, <1>7 DEF ByteSum, WordSum
<1>9. b.r = Word2(lo.r, hi.r)
  BY <1>2, <1>5, <1>7, <1>8 DEF ByteSum, WordSum
<1>10. ("C" \in b.q <=> "C" \in hi.q) /\ ("N" \in b.q <=> "N" \in hi.q) /\ ("V" \in b.q <=> "V" \in hi.q)
  BY <1>5, <1>7, <1>8 DEF ByteSum, WordSum
<1>11. Agree(b, Halves(lo, hi), {"C", "V", "N"})
  BY <1>9, <1>10, TheyAgree
<1> QED BY <1>1, <1>4, <1>6, <1>11, Zenon

LEMMA WideDecimalSubtracts ==
    ASSUME NEW x0 \in Tens, NEW x1 \in Tens, NEW x2 \in Tens, NEW x3 \in Tens,
           NEW y0 \in Tens, NEW y1 \in Tens, NEW y2 \in Tens, NEW y3 \in Tens, NEW q
    PROVE  LET lo == SubtractDecimal(Pair(x0, x1), Pair(y0, y1), q, FALSE)
           IN  Agree(SubtractDecimal(Word2(Pair(x0, x1), Pair(x2, x3)),
                                     Word2(Pair(y0, y1), Pair(y2, y3)), q, TRUE),
                     Halves(lo, SubtractDecimal(Pair(x2, x3), Pair(y2, y3), lo.q, FALSE)), {"C", "N"})
<1>1. PICK lo : lo = SubtractDecimal(Pair(x0, x1), Pair(y0, y1), q, FALSE)
  OBVIOUS
<1>2. PICK s0 \in Int, s1 \in Int : ByteDifference(lo, x0, x1, y0, y1, One(q), s0, s1)
  BY <1>1, SubtractByte
<1>3. 1 - One(lo.q) = Under(s1)
  BY <1>2 DEF ByteDifference, Under, One
<1>4. PICK hi : hi = SubtractDecimal(Pair(x2, x3), Pair(y2, y3), lo.q, FALSE)
  OBVIOUS
<1>5. PICK s2 \in Int, s3 \in Int : ByteDifference(hi, x2, x3, y2, y3, One(lo.q), s2, s3)
  BY <1>4, SubtractByte
<1>6. PICK b : b = SubtractDecimal(Word2(Pair(x0, x1), Pair(x2, x3)), Word2(Pair(y0, y1), Pair(y2, y3)), q, TRUE)
  OBVIOUS
<1>7. PICK t0 \in Int, t1 \in Int, t2 \in Int, t3 \in Int :
         WordDifference(b, x0, x1, x2, x3, y0, y1, y2, y3, One(q), t0, t1, t2, t3)
  BY <1>6, SubtractWord
<1>8. t0 = s0 /\ t1 = s1 /\ t2 = s2 /\ t3 = s3
  BY <1>2, <1>3, <1>5, <1>7 DEF ByteDifference, WordDifference
<1>9. b.r = Word2(lo.r, hi.r)
  BY <1>2, <1>5, <1>7, <1>8 DEF ByteDifference, WordDifference
<1>10. ("C" \in b.q <=> "C" \in hi.q) /\ ("N" \in b.q <=> "N" \in hi.q)
  BY <1>5, <1>7, <1>8 DEF ByteDifference, WordDifference
<1>11. Agree(b, Halves(lo, hi), {"C", "N"})
  BY <1>9, <1>10, TheyAgree
<1> QED BY <1>1, <1>4, <1>6, <1>11, Zenon

-----------------------------------------------------------------------------
\* Shifts to the left add a number to itself.
Doubled(o, v, f, w) ==
    /\ o.r = f
    /\ "C" \in o.q <=> Negative(v, w)
    /\ "N" \in o.q <=> Negative(f, w)

LEMMA ShiftLeft ==
    ASSUME NEW w \in BOOLEAN, NEW v \in 0 .. Vals(w) - 1, NEW q, NEW f \in 0 .. Vals(w) - 1,
           NEW c \in {0, 1}, NEW cc \in {0, 1}, SumsTo(v, v, c, f, cc, Vals(w)),
           NEW n, n = (2 * v) + c
    PROVE  /\ Doubled(Shifted(n, Negative(v, w), q, w), v, f, w)
           /\ cc = 1 <=> Negative(v, w)
<1>1. PICK H \in Nat \ {0} : Vals(w) = 2 * H /\ Vals(w) \div 2 = H
  BY ValsHalf
<1>2. v \in Nat /\ v < 2 * H /\ f \in Nat /\ f < 2 * H /\ n \in Nat
  BY <1>1
<1>3. v + v + c = f + (cc * (2 * H))
  BY <1>1 DEF SumsTo
<1>4. n % Vals(w) = f
  <2>1. WrapsUp(v, v, c, f, cc, Vals(w))
    BY <1>1, <1>2, CarryOut
  <2>2. n = v + v + c
    BY <1>2
  <2> QED BY <2>1, <2>2 DEF WrapsUp
<1>5. cc = 1 <=> v >= H
  BY <1>2, <1>3
<1>6. Negative(v, w) <=> v >= H
  BY <1>1, SignOf
<1>7. f % Vals(w) = f
  BY <1>1, <1>2
<1>8. Negative(n, w) <=> Negative(f, w)
  BY <1>4, <1>7 DEF Negative
<1>9. Doubled(Shifted(n, Negative(v, w), q, w), v, f, w)
  <2>1. PICK qq : qq = Put(q, "C", Negative(v, w))
    OBVIOUS
  <2>2. "C" \in qq <=> Negative(v, w)
    BY <2>1 DEF Put
  <2>3. PICK o : o = Result(n, qq, w)
    OBVIOUS
  <2>4. o = Shifted(n, Negative(v, w), q, w)
    BY <2>1, <2>3 DEF Shifted
  <2>5. o.r = n % Vals(w) /\ ("C" \in o.q <=> "C" \in qq) /\ ("N" \in o.q <=> Negative(n, w))
    BY <2>3, ResultFlags
  <2> QED BY <2>2, <2>4, <2>5, <1>4, <1>8 DEF Doubled
<1> QED BY <1>5, <1>6, <1>9

LEMMA ByteShiftsLeft ==
    ASSUME NEW v \in 0 .. ByteVals - 1, NEW q, NEW f \in 0 .. ByteVals - 1,
           NEW c \in {0, 1}, NEW cc \in {0, 1}, SumsTo(v, v, c, f, cc, ByteVals),
           NEW n, n = (2 * v) + c
    PROVE  /\ Doubled(Shifted(n, Negative(v, FALSE), q, FALSE), v, f, FALSE)
           /\ cc = 1 <=> Negative(v, FALSE)
<1>1. \A w \in BOOLEAN : Vals(w) = ByteVals =>
         Doubled(Shifted(n, Negative(v, w), q, w), v, f, w) /\ (cc = 1 <=> Negative(v, w))
  BY ShiftLeft
<1>2. FALSE \in BOOLEAN /\ Vals(FALSE) = ByteVals
  BY DEF Vals
<1> QED BY <1>1, <1>2, Zenon

LEMMA WordShiftsLeft ==
    ASSUME NEW v \in 0 .. WordVals - 1, NEW q, NEW f \in 0 .. WordVals - 1,
           NEW c \in {0, 1}, NEW cc \in {0, 1}, SumsTo(v, v, c, f, cc, WordVals),
           NEW n, n = (2 * v) + c
    PROVE  Doubled(Shifted(n, Negative(v, TRUE), q, TRUE), v, f, TRUE)
<1>1. \A w \in BOOLEAN : Vals(w) = WordVals => Doubled(Shifted(n, Negative(v, w), q, w), v, f, w)
  BY ShiftLeft
<1>2. TRUE \in BOOLEAN /\ Vals(TRUE) = WordVals
  BY DEF Vals
<1> QED BY <1>1, <1>2, Zenon

LEMMA WideShiftsLeft ==
    ASSUME NEW cl \in 0 .. ByteVals - 1, NEW ch \in 0 .. ByteVals - 1, NEW q
    PROVE  LET lo == asl(cl, q, FALSE)
           IN  Agree(asl(Word2(cl, ch), q, TRUE), Halves(lo, rol(ch, lo.q, FALSE)), {"C", "N"})
<1>0. PICK c \in {0, 1} : c = 0
  OBVIOUS
<1>1. PICK f0 \in 0 .. ByteVals - 1, f1 \in 0 .. ByteVals - 1, c1 \in {0, 1}, c2 \in {0, 1} :
         /\ SumsTo(cl, cl, c, f0, c1, ByteVals) /\ SumsTo(ch, ch, c1, f1, c2, ByteVals)
         /\ SumsTo(Word2(cl, ch), Word2(cl, ch), c, Word2(f0, f1), c2, WordVals)
  <2>1. AddUp(cl, ch, cl, ch, c)
    BY WordSums
  <2> QED BY <2>1 DEF AddUp
<1>5. PICK lo : lo = asl(cl, q, FALSE)
  OBVIOUS
<1>6. cl \in Nat /\ ch \in Nat /\ ByteVals \in Nat /\ WordVals \in Nat
  BY AluSizes
<1>7. Doubled(lo, cl, f0, FALSE) /\ (c1 = 1 <=> Negative(cl, FALSE))
  <2>1. 2 * cl = (2 * cl) + c
    BY <1>0, <1>6
  <2>2. lo = Shifted(2 * cl, Negative(cl, FALSE), q, FALSE)
    BY <1>5 DEF asl
  <2>3. PICK n : n = 2 * cl /\ n = (2 * cl) + c
    BY <2>1
  <2> QED BY <1>1, <2>2, <2>3, ByteShiftsLeft
<1>8. One(lo.q) = c1
  BY <1>7 DEF Doubled, One
<1>9. PICK hi : hi = rol(ch, lo.q, FALSE)
  OBVIOUS
<1>10. Doubled(hi, ch, f1, FALSE)
  <2>1. hi = Shifted((2 * ch) + c1, Negative(ch, FALSE), lo.q, FALSE)
    BY <1>8, <1>9 DEF rol
  <2>2. PICK n : n = (2 * ch) + c1
    OBVIOUS
  <2> QED BY <1>1, <2>1, <2>2, ByteShiftsLeft
<1>11. PICK b : b = asl(Word2(cl, ch), q, TRUE)
  OBVIOUS
<1>12. Doubled(b, Word2(cl, ch), Word2(f0, f1), TRUE)
  <2>1. Word2(cl, ch) \in 0 .. WordVals - 1 /\ Word2(f0, f1) \in 0 .. WordVals - 1
    BY Word2Parts
  <2>2. PICK x \in 0 .. WordVals - 1 : x = Word2(cl, ch)
    BY <2>1
  <2>3. 2 * x = (2 * x) + c
    BY <1>0, <1>6
  <2>4. b = Shifted(2 * x, Negative(x, TRUE), q, TRUE)
    BY <1>11, <2>2 DEF asl
  <2>5. PICK n : n = 2 * x /\ n = (2 * x) + c
    BY <2>3
  <2> QED BY <1>1, <2>1, <2>2, <2>4, <2>5, WordShiftsLeft
<1>13. /\ Negative(Word2(cl, ch), TRUE) <=> Negative(ch, FALSE)
       /\ Negative(Word2(f0, f1), TRUE) <=> Negative(f1, FALSE)
  BY NegativeWord2
<1>14. b.r = Word2(lo.r, hi.r)
  BY <1>7, <1>10, <1>12 DEF Doubled
<1>15. ("C" \in b.q <=> "C" \in hi.q) /\ ("N" \in b.q <=> "N" \in hi.q)
  BY <1>10, <1>12, <1>13 DEF Doubled
<1>16. Agree(b, Halves(lo, hi), {"C", "N"})
  BY <1>14, <1>15, TheyAgree
<1> QED BY <1>5, <1>9, <1>11, <1>16, Zenon

-----------------------------------------------------------------------------
\* Shifts to the right halve a number; what is lost goes to the carry.
LEMMA Fits ==
    /\ \A n \in 0 .. ByteVals - 1 : n % Vals(FALSE) = n
    /\ \A n \in 0 .. WordVals - 1 : n % Vals(TRUE) = n
BY AluSizes DEF Vals

LEMMA HalfOf ==
    ASSUME NEW n \in Nat
    PROVE  \E d \in Nat, b \in {0, 1} :
              n = (2 * d) + b /\ n \div 2 = d /\ n % 2 = b
OBVIOUS

LEMMA WideShiftsRight ==
    ASSUME NEW cl \in 0 .. ByteVals - 1, NEW ch \in 0 .. ByteVals - 1, NEW q
    PROVE  LET right == lsr(ch, q, FALSE)
               low == ror(cl, right.q, FALSE)
           IN  Agree(lsr(Word2(cl, ch), q, TRUE), [r |-> (ByteVals * right.r) + low.r, q |-> low.q], {"C"})
<1>1. PICK K \in Nat \ {0} : Vals(FALSE) = 2 * K /\ Vals(FALSE) \div 2 = K /\ ByteVals = 2 * K /\ ByteVals \div 2 = K
  <2>1. \A w \in BOOLEAN : \E H \in Nat \ {0} : Vals(w) = 2 * H /\ Vals(w) \div 2 = H
    BY ValsHalf
  <2>2. FALSE \in BOOLEAN /\ Vals(FALSE) = ByteVals
    BY DEF Vals
  <2>3. \E H \in Nat \ {0} : Vals(FALSE) = 2 * H /\ Vals(FALSE) \div 2 = H
    BY <2>1, <2>2, Zenon
  <2> QED BY <2>2, <2>3
<1>2. PICK n \in 0 .. WordVals - 1 : n = Word2(cl, ch)
  BY Word2Parts
<1>3. cl \in Nat /\ cl < 2 * K /\ ch \in Nat /\ ch < 2 * K /\ n \in Nat /\ n = ((2 * K) * ch) + cl
      /\ WordVals \in Nat /\ n < WordVals
  BY <1>1, <1>2, AluSizes DEF Word2
<1>4. PICK d \in Nat, b \in {0, 1} : ch = (2 * d) + b /\ ch \div 2 = d /\ ch % 2 = b
  BY <1>3, HalfOf
<1>5. PICK x \in Nat, y \in {0, 1} : cl = (2 * x) + y /\ cl \div 2 = x /\ cl % 2 = y
  BY <1>3, HalfOf
<1>6. n \div 2 = ((2 * K) * d) + (x + (b * K)) /\ n % 2 = y
  <2>1. PICK z \in Nat : z = ((2 * K) * d) + (x + (b * K))
    BY <1>1
  <2>2. n = (2 * z) + y
    <3>1. (2 * K) * ((2 * d) + b) = (2 * ((2 * K) * d)) + (2 * (b * K))
      BY <1>1
    <3>2. (2 * K) * d \in Nat /\ b * K \in Nat
      BY <1>1
    <3>3. n = ((2 * ((2 * K) * d)) + (2 * (b * K))) + ((2 * x) + y)
      BY <1>3, <1>4, <1>5, <3>1
    <3> QED BY <2>1, <3>2, <3>3
  <2>3. n \div 2 = z /\ n % 2 = y
    BY <2>2
  <2> QED BY <2>1, <2>3
<1>7. PICK right : right = lsr(ch, q, FALSE)
  OBVIOUS
<1>8. right.r = d /\ ("C" \in right.q <=> b = 1)
  <2>1. PICK o, qq : o = Result(d, qq, FALSE) /\ qq = Put(q, "C", b = 1) /\ right = o
    BY <1>4, <1>7 DEF lsr, Shifted
  <2>2. o.r = d % Vals(FALSE) /\ ("C" \in o.q <=> "C" \in qq)
    <3>1. o = Result(d, qq, FALSE)
      BY <2>1
    <3> QED BY <3>1, ResultFlags
  <2>3. d % Vals(FALSE) = d
    <3>1. d \in 0 .. ByteVals - 1
      BY <1>1, <1>3, <1>4
    <3> QED BY <3>1, Fits
  <2>4. "C" \in qq <=> b = 1
    BY <2>1 DEF Put
  <2> QED BY <2>1, <2>2, <2>3, <2>4
<1>9. One(right.q) = b
  BY <1>8 DEF One
<1>10. PICK low : low = ror(cl, right.q, FALSE)
  OBVIOUS
<1>11. low.r = x + (b * K) /\ ("C" \in low.q <=> y = 1)
  <2>1. PICK m \in Nat : m = x + (b * K) /\ m < 2 * K
    BY <1>3, <1>5, <1>1
  <2>2. PICK o, qq : o = Result(m, qq, FALSE) /\ qq = Put(right.q, "C", y = 1) /\ low = o
    <3>1. Vals(FALSE) \div 2 = K
      BY <1>1
    <3> QED BY <3>1, <1>5, <1>9, <1>10, <2>1 DEF ror, Shifted
  <2>3. o.r = m % Vals(FALSE) /\ ("C" \in o.q <=> "C" \in qq)
    <3>1. o = Result(m, qq, FALSE)
      BY <2>2
    <3> QED BY <3>1, ResultFlags
  <2>4. m % Vals(FALSE) = m
    <3>1. m \in 0 .. ByteVals - 1
      BY <1>1, <2>1
    <3> QED BY <3>1, Fits
  <2>5. "C" \in qq <=> y = 1
    BY <2>2 DEF Put
  <2> QED BY <2>1, <2>2, <2>3, <2>4, <2>5
<1>12. PICK long : long = lsr(n, q, TRUE)
  OBVIOUS
<1>13. long.r = ((2 * K) * d) + (x + (b * K)) /\ ("C" \in long.q <=> y = 1)
  <2>1. PICK m \in Nat : m = n \div 2 /\ m < WordVals
    BY <1>3
  <2>2. PICK o, qq : o = Result(m, qq, TRUE) /\ qq = Put(q, "C", y = 1) /\ long = o
    BY <1>6, <1>12, <2>1 DEF lsr, Shifted
  <2>3. o.r = m % Vals(TRUE) /\ ("C" \in o.q <=> "C" \in qq)
    <3>1. o = Result(m, qq, TRUE)
      BY <2>2
    <3> QED BY <3>1, ResultFlags
  <2>4. m % Vals(TRUE) = m
    BY <2>1, <1>3 DEF Vals
  <2>5. "C" \in qq <=> y = 1
    BY <2>2 DEF Put
  <2> QED BY <1>6, <2>1, <2>2, <2>3, <2>4, <2>5
<1>14. long.r = (ByteVals * right.r) + low.r
  BY <1>1, <1>8, <1>11, <1>13
<1>15. Agree(long, [r |-> (ByteVals * right.r) + low.r, q |-> low.q], {"C"})
  BY <1>11, <1>13, <1>14 DEF Agree
<1> QED BY <1>2, <1>7, <1>10, <1>12, <1>15

LEMMA RotatesBack ==
    ASSUME NEW n \in 0 .. WordVals - 1, NEW q
    PROVE  ror(rol(n, q, TRUE).r, rol(n, q, TRUE).q, TRUE).r = n
<1>1. PICK H \in Nat \ {0} : Vals(TRUE) = 2 * H /\ Vals(TRUE) \div 2 = H /\ WordVals = 2 * H
  <2>1. \A w \in BOOLEAN : \E H \in Nat \ {0} : Vals(w) = 2 * H /\ Vals(w) \div 2 = H
    BY ValsHalf
  <2>2. TRUE \in BOOLEAN /\ Vals(TRUE) = WordVals
    BY DEF Vals
  <2>3. \E H \in Nat \ {0} : Vals(TRUE) = 2 * H /\ Vals(TRUE) \div 2 = H
    BY <2>1, <2>2, Zenon
  <2> QED BY <2>2, <2>3
<1>2. n \in Nat /\ n < 2 * H
  BY <1>1
<1>3. PICK c \in {0, 1} : c = One(q)
  BY DEF One
<1>4. Negative(n, TRUE) <=> n >= H
  <2>1. n % Vals(TRUE) = n
    BY Fits
  <2> QED BY <1>1, <2>1 DEF Negative
<1>5. PICK d \in 0 .. H - 1, t \in {0, 1} : n = d + (t * H) /\ (t = 1 <=> n >= H)
  <2>1. CASE n >= H
    <3>1. n - H \in 0 .. H - 1 /\ n = (n - H) + (1 * H)
      BY <1>1, <1>2, <2>1
    <3> QED BY <2>1, <3>1
  <2>2. CASE ~ (n >= H)
    <3>1. n \in 0 .. H - 1 /\ n = n + (0 * H)
      BY <1>1, <1>2, <2>2
    <3> QED BY <2>2, <3>1
  <2> QED BY <2>1, <2>2
<1>6. PICK left : left = rol(n, q, TRUE)
  OBVIOUS
<1>7. left.r = (2 * d) + c /\ One(left.q) = t
  <2>1. PICK m \in Nat : m = (2 * n) + c
    BY <1>2
  <2>2. PICK o, qq : o = Result(m, qq, TRUE) /\ qq = Put(q, "C", Negative(n, TRUE)) /\ left = o
    BY <1>3, <1>6, <2>1 DEF rol, Shifted
  <2>3. o.r = m % Vals(TRUE) /\ ("C" \in o.q <=> "C" \in qq)
    BY <2>2, ResultFlags, Zenon
  <2>4. m % Vals(TRUE) = (2 * d) + c
    <3>1. m = ((2 * H) * t) + ((2 * d) + c)
      <4>1. t = 0 \/ t = 1
        OBVIOUS
      <4> QED BY <1>5, <2>1, <4>1
    <3>2. (2 * d) + c \in 0 .. (2 * H) - 1 /\ 2 * H \in Nat \ {0}
      BY <1>1
    <3>3. m % (2 * H) = (2 * d) + c
      BY <3>1, <3>2, RemainderUnique
    <3> QED BY <3>3, <1>1
  <2>5. "C" \in qq <=> n >= H
    BY <2>2, <1>4 DEF Put
  <2>6. "C" \in left.q <=> t = 1
    BY <2>2, <2>3, <2>5, <1>5
  <2> QED BY <2>2, <2>3, <2>4, <2>6 DEF One
<1>8. PICK l \in Nat : l = (2 * d) + c
  BY <1>1
<1>9. l \div 2 = d
  BY <1>1, <1>8
<1>10. ror(l, left.q, TRUE).r = n
  <2>1. PICK o, qq : o = Result(n, qq, TRUE) /\ ror(l, left.q, TRUE) = o
    BY <1>1, <1>5, <1>7, <1>9 DEF ror, Shifted
  <2>2. o.r = n % Vals(TRUE)
    <3>1. o = Result(n, qq, TRUE)
      BY <2>1
    <3> QED BY <3>1, ResultFlags
  <2>3. n % Vals(TRUE) = n
    BY Fits
  <2> QED BY <2>1, <2>2, <2>3
<1> QED BY <1>6, <1>7, <1>8, <1>10

-----------------------------------------------------------------------------
\* Arithmetic leaves the decimal flag as it is.
LEMMA KeepsDecimal ==
    \A a, v, q, w : /\ "D" \in AddBinary(a, v, q, w).q <=> "D" \in q
                    /\ "D" \in AddDecimal(a, v, q, w).q <=> "D" \in q
                    /\ "D" \in SubtractDecimal(a, v, q, w).q <=> "D" \in q
<1>1. \A a, v, q, w : "D" \in AddBinary(a, v, q, w).q <=> "D" \in q
  BY DEF AddBinary, Result, NZ, Put
<1>2. \A a, v, q, w : "D" \in AddDecimal(a, v, q, w).q <=> "D" \in q
  BY DEF AddDecimal, Result, NZ, Put
<1>3. \A a, v, q, w : "D" \in SubtractDecimal(a, v, q, w).q <=> "D" \in q
  BY DEF SubtractDecimal, Result, NZ, Put
<1> QED BY <1>1, <1>2, <1>3

LEMMA WidthsDoAgree ==
    ASSUME AluType
    PROVE  WideIsTwoNarrow
<1> SUFFICES ASSUME "D" \in aluP => IsDecimal(aluC, TRUE) /\ IsDecimal(aluM, TRUE)
             PROVE  LET cl == aluC % ByteVals
                        ch == aluC \div ByteVals
                        vl == aluM % ByteVals
                        vh == aluM \div ByteVals
                        right == lsr(ch, aluP, FALSE)
                        low == ror(cl, right.q, FALSE)
                    IN  /\ LET lo == adc(cl, vl, aluP, FALSE)
                           IN  Agree(adc(aluC, aluM, aluP, TRUE), Halves(lo, adc(ch, vh, lo.q, FALSE)),
                                     {"C", "V", "N"})
                        /\ LET lo == sbc(cl, vl, aluP, FALSE)
                           IN  Agree(sbc(aluC, aluM, aluP, TRUE), Halves(lo, sbc(ch, vh, lo.q, FALSE)),
                                     IF "D" \in aluP THEN {"C", "N"} ELSE {"C", "V", "N"})
                        /\ LET lo == asl(cl, aluP, FALSE)
                           IN  Agree(asl(aluC, aluP, TRUE), Halves(lo, rol(ch, lo.q, FALSE)), {"C", "N"})
                        /\ Agree(lsr(aluC, aluP, TRUE),
                                 [r |-> (ByteVals * right.r) + low.r, q |-> low.q], {"C"})
                        /\ ror(rol(aluC, aluP, TRUE).r, rol(aluC, aluP, TRUE).q, TRUE).r = aluC
  BY Zenon DEF WideIsTwoNarrow
<1>1. PICK cl \in 0 .. ByteVals - 1, ch \in 0 .. ByteVals - 1 :
         cl = aluC % ByteVals /\ ch = aluC \div ByteVals /\ aluC = Word2(cl, ch)
  BY IsWord2 DEF AluType
<1>2. PICK vl \in 0 .. ByteVals - 1, vh \in 0 .. ByteVals - 1 :
         vl = aluM % ByteVals /\ vh = aluM \div ByteVals /\ aluM = Word2(vl, vh)
  BY IsWord2 DEF AluType
<1>3. PICK q : q = aluP
  OBVIOUS
<1>4. ASSUME "D" \in q
      PROVE  \E x0, x1, x2, x3, y0, y1, y2, y3 \in Tens :
                /\ cl = Pair(x0, x1) /\ ch = Pair(x2, x3) /\ vl = Pair(y0, y1) /\ vh = Pair(y2, y3)
  <2>1. PICK x0 \in Tens, x1 \in Tens, x2 \in Tens, x3 \in Tens :
           aluC = Word2(Pair(x0, x1), Pair(x2, x3))
    BY <1>3, <1>4, DecimalWord, Zenon DEF AluType
  <2>2. PICK y0 \in Tens, y1 \in Tens, y2 \in Tens, y3 \in Tens :
           aluM = Word2(Pair(y0, y1), Pair(y2, y3))
    BY <1>3, <1>4, DecimalWord, Zenon DEF AluType
  <2>3. Tens \subseteq Digs
    BY AluSizes DEF Tens, Digs
  <2>4. /\ Pair(x0, x1) \in 0 .. ByteVals - 1 /\ Pair(x2, x3) \in 0 .. ByteVals - 1
        /\ Pair(y0, y1) \in 0 .. ByteVals - 1 /\ Pair(y2, y3) \in 0 .. ByteVals - 1
    BY <2>3, PairDigits
  <2>5. cl = Pair(x0, x1) /\ ch = Pair(x2, x3) /\ vl = Pair(y0, y1) /\ vh = Pair(y2, y3)
    BY <1>1, <1>2, <2>1, <2>2, <2>4, Word2Parts
  <2> QED BY <2>5
<1>5. LET lo == adc(cl, vl, q, FALSE)
      IN  Agree(adc(Word2(cl, ch), Word2(vl, vh), q, TRUE), Halves(lo, adc(ch, vh, lo.q, FALSE)), {"C", "V", "N"})
  <2>1. CASE "D" \in q
    <3>1. PICK x0 \in Tens, x1 \in Tens, x2 \in Tens, x3 \in Tens,
               y0 \in Tens, y1 \in Tens, y2 \in Tens, y3 \in Tens :
             cl = Pair(x0, x1) /\ ch = Pair(x2, x3) /\ vl = Pair(y0, y1) /\ vh = Pair(y2, y3)
      BY <1>4, <2>1, Zenon
    <3>2. PICK lo : lo = AddDecimal(cl, vl, q, FALSE)
      OBVIOUS
    <3>3. "D" \in lo.q
      BY <2>1, <3>2, KeepsDecimal, Zenon
    <3>4. Agree(AddDecimal(Word2(cl, ch), Word2(vl, vh), q, TRUE),
                Halves(lo, AddDecimal(ch, vh, lo.q, FALSE)), {"C", "V", "N"})
      BY <3>1, <3>2, WideDecimalAdds
    <3>5. lo = adc(cl, vl, q, FALSE) /\ adc(ch, vh, lo.q, FALSE) = AddDecimal(ch, vh, lo.q, FALSE)
          /\ adc(Word2(cl, ch), Word2(vl, vh), q, TRUE) = AddDecimal(Word2(cl, ch), Word2(vl, vh), q, TRUE)
      BY <2>1, <3>2, <3>3 DEF adc
    <3> QED BY <3>4, <3>5
  <2>2. CASE "D" \notin q
    <3>2. PICK lo : lo = AddBinary(cl, vl, q, FALSE)
      OBVIOUS
    <3>3. "D" \notin lo.q
      BY <2>2, <3>2, KeepsDecimal, Zenon
    <3>4. Agree(AddBinary(Word2(cl, ch), Word2(vl, vh), q, TRUE),
                Halves(lo, AddBinary(ch, vh, lo.q, FALSE)), {"C", "V", "N"})
      BY <3>2, WideAdds
    <3>5. lo = adc(cl, vl, q, FALSE) /\ adc(ch, vh, lo.q, FALSE) = AddBinary(ch, vh, lo.q, FALSE)
          /\ adc(Word2(cl, ch), Word2(vl, vh), q, TRUE) = AddBinary(Word2(cl, ch), Word2(vl, vh), q, TRUE)
      BY <2>2, <3>2, <3>3 DEF adc
    <3> QED BY <3>4, <3>5
  <2> QED BY <2>1, <2>2
<1>6. LET lo == sbc(cl, vl, q, FALSE)
      IN  Agree(sbc(Word2(cl, ch), Word2(vl, vh), q, TRUE), Halves(lo, sbc(ch, vh, lo.q, FALSE)),
                IF "D" \in q THEN {"C", "N"} ELSE {"C", "V", "N"})
  <2>1. CASE "D" \in q
    <3>1. PICK x0 \in Tens, x1 \in Tens, x2 \in Tens, x3 \in Tens,
               y0 \in Tens, y1 \in Tens, y2 \in Tens, y3 \in Tens :
             cl = Pair(x0, x1) /\ ch = Pair(x2, x3) /\ vl = Pair(y0, y1) /\ vh = Pair(y2, y3)
      BY <1>4, <2>1, Zenon
    <3>2. PICK lo : lo = SubtractDecimal(cl, vl, q, FALSE)
      OBVIOUS
    <3>3. "D" \in lo.q
      BY <2>1, <3>2, KeepsDecimal, Zenon
    <3>4. Agree(SubtractDecimal(Word2(cl, ch), Word2(vl, vh), q, TRUE),
                Halves(lo, SubtractDecimal(ch, vh, lo.q, FALSE)), {"C", "N"})
      BY <3>1, <3>2, WideDecimalSubtracts
    <3>5. lo = sbc(cl, vl, q, FALSE) /\ sbc(ch, vh, lo.q, FALSE) = SubtractDecimal(ch, vh, lo.q, FALSE)
          /\ sbc(Word2(cl, ch), Word2(vl, vh), q, TRUE) = SubtractDecimal(Word2(cl, ch), Word2(vl, vh), q, TRUE)
      BY <2>1, <3>2, <3>3 DEF sbc
    <3> QED BY <2>1, <3>4, <3>5
  <2>2. CASE "D" \notin q
    <3>2. PICK lo : lo = AddBinary(cl, Inverted(vl, FALSE), q, FALSE)
      OBVIOUS
    <3>3. "D" \notin lo.q
      BY <2>2, <3>2, KeepsDecimal, Zenon
    <3>4. Agree(AddBinary(Word2(cl, ch), Inverted(Word2(vl, vh), TRUE), q, TRUE),
                Halves(lo, AddBinary(ch, Inverted(vh, FALSE), lo.q, FALSE)), {"C", "V", "N"})
      BY <3>2, WideSubtracts
    <3>5. /\ lo = sbc(cl, vl, q, FALSE)
          /\ sbc(ch, vh, lo.q, FALSE) = AddBinary(ch, Inverted(vh, FALSE), lo.q, FALSE)
          /\ sbc(Word2(cl, ch), Word2(vl, vh), q, TRUE)
               = AddBinary(Word2(cl, ch), Inverted(Word2(vl, vh), TRUE), q, TRUE)
      BY <2>2, <3>2, <3>3 DEF sbc
    <3> QED BY <2>2, <3>4, <3>5
  <2> QED BY <2>1, <2>2
<1>7. LET lo == asl(cl, q, FALSE)
      IN  Agree(asl(Word2(cl, ch), q, TRUE), Halves(lo, rol(ch, lo.q, FALSE)), {"C", "N"})
  BY WideShiftsLeft
<1>8. LET right == lsr(ch, q, FALSE)
          low == ror(cl, right.q, FALSE)
      IN  Agree(lsr(Word2(cl, ch), q, TRUE), [r |-> (ByteVals * right.r) + low.r, q |-> low.q], {"C"})
  BY WideShiftsRight
<1>9. ror(rol(aluC, aluP, TRUE).r, rol(aluC, aluP, TRUE).q, TRUE).r = aluC
  BY RotatesBack DEF AluType
<1> QED BY <1>1, <1>2, <1>3, <1>5, <1>6, <1>7, <1>8, <1>9, Zenon

-----------------------------------------------------------------------------
\* Every operation gives a number and a status.
IsOperation(o) == o.r \in Int /\ o.q \in SUBSET AluFlags

LEMMA ResultIsOperation ==
    ASSUME NEW n \in Int, NEW q \in SUBSET AluFlags, NEW w \in BOOLEAN
    PROVE  IsOperation(Result(n, q, w))
<1>1. n % Vals(w) \in Int
  BY AluSizes, Remainder
<1>2. NZ(q, n, w) \in SUBSET AluFlags
  BY NZType
<1> QED BY <1>1, <1>2 DEF IsOperation, Result

LEMMA PutsType ==
    ASSUME NEW q \in SUBSET AluFlags, NEW b, NEW d
    PROVE  /\ Put(q, "C", b) \in SUBSET AluFlags /\ Put(q, "Z", b) \in SUBSET AluFlags
           /\ Put(Put(q, "V", b), "C", d) \in SUBSET AluFlags
           /\ Put(Put(q, "C", b), "V", d) \in SUBSET AluFlags
           /\ Put(Put(q, "C", b), "Z", d) \in SUBSET AluFlags
           /\ Put(Put(q, "Z", b), "N", d) \in SUBSET AluFlags
BY DEF Put, AluFlags

LEMMA DigitIsNumber ==
    ASSUME NEW n \in Nat, NEW i \in 0 .. 3
    PROVE  DigitOf(n, i) \in Int
<1>1. Weight(i) \in Nat \ {0}
  <2>1. ByteVals * Digit \in Nat \ {0}
    <3>1. \A x, y \in Nat \ {0} : x * y \in Nat \ {0}
      OBVIOUS
    <3> QED BY <3>1, AluSizes
  <2> QED BY <2>1, AluSizes DEF Weight
<1>2. PICK m \in Nat \ {0} : m = Weight(i)
  BY <1>1
<1>3. n \div m \in Int
  OBVIOUS
<1>4. (n \div m) % Digit \in Int
  BY <1>3, AluSizes, Remainder
<1> QED BY <1>2, <1>4 DEF DigitOf

LEMMA NumberIsNumber ==
    ASSUME NEW w \in BOOLEAN, NEW f, \A i \in Digits(w) : f[i] \in Int, NEW t \in Int
    PROVE  Number(f, t, w) \in Int
<1>1. Digit \in Int /\ ByteVals \in Int
  BY AluSizes
<1>2. CASE w
  <2>1. f[0] \in Int /\ f[1] \in Int /\ f[2] \in Int
    BY <1>2 DEF Digits
  <2>2. PICK x \in Int, y \in Int, z \in Int : x = f[0] /\ y = f[1] /\ z = f[2]
    BY <2>1
  <2>3. x + (y * Digit) + (z * ByteVals) + (t * ByteVals * Digit) \in Int
    BY <1>1
  <2> QED BY <1>2, <2>2, <2>3 DEF Number
<1>3. CASE ~ w
  <2>1. f[0] \in Int
    BY <1>3 DEF Digits
  <2>2. PICK x \in Int : x = f[0]
    BY <2>1
  <2>3. x + (t * Digit) \in Int
    BY <1>1
  <2> QED BY <1>3, <2>2, <2>3 DEF Number
<1> QED BY <1>2, <1>3

LEMMA SumsAreNumbers ==
    ASSUME NEW w \in BOOLEAN, NEW a \in Nat, NEW v \in Nat, NEW c \in Int
    PROVE  /\ \A i \in Digits(w) : DecimalSums(a, v, c, w)[i] \in Int
           /\ \A i \in Digits(w) : DecimalDifferences(a, v, c, w)[i] \in Int
<1>0. Digits(w) \subseteq 0 .. 3 /\ 0 \in Digits(w) /\ 1 \in Digits(w)
      /\ (2 \in Digits(w) <=> w) /\ (3 \in Digits(w) <=> w)
  BY DEF Digits
<1>1. \A i \in 0 .. 3 : DigitOf(a, i) \in Int /\ DigitOf(v, i) \in Int
  BY DigitIsNumber
<1>2. \A i \in 0 .. 3, d \in Int : DigitSum(a, v, i, d) \in Int /\ DigitDifference(a, v, i, d) \in Int
  BY <1>1 DEF DigitSum, DigitDifference
<1>3. \A t : OutOf(t) \in Int /\ Under(t) \in Int
  BY DEF OutOf, Under
<1>4. PICK s : s = DecimalSums(a, v, c, w)
  OBVIOUS
<1>5. PICK z : z = DecimalDifferences(a, v, c, w)
  OBVIOUS
<1>6. s[0] = DigitSum(a, v, 0, c) /\ \A i \in Digits(w) : i # 0 => s[i] = DigitSum(a, v, i, OutOf(s[i - 1]))
  BY <1>4, SumsAre
<1>7. z[0] = DigitDifference(a, v, 0, 1 - c)
      /\ \A i \in Digits(w) : i # 0 => z[i] = DigitDifference(a, v, i, Under(z[i - 1]))
  BY <1>5, DifferencesAre
<1>8. \A i \in Digits(w) : s[i] \in Int /\ z[i] \in Int
  <2> SUFFICES ASSUME NEW i \in Digits(w) PROVE s[i] \in Int /\ z[i] \in Int
    OBVIOUS
  <2>1. CASE i = 0
    <3>1. c \in Int /\ 1 - c \in Int /\ 0 \in 0 .. 3
      OBVIOUS
    <3> QED BY <2>1, <1>2, <1>6, <1>7, <3>1
  <2>2. CASE i # 0
    <3>1. i \in 0 .. 3
      BY <1>0
    <3> QED BY <2>2, <1>2, <1>3, <1>6, <1>7, <3>1
  <2> QED BY <2>1, <2>2
<1> QED BY <1>4, <1>5, <1>8

LEMMA DecimalIsOperation ==
    ASSUME NEW w \in BOOLEAN, NEW a \in Nat, NEW v \in Nat, NEW q \in SUBSET AluFlags
    PROVE  IsOperation(AddDecimal(a, v, q, w)) /\ IsOperation(SubtractDecimal(a, v, q, w))
<1>0. One(q) \in Int /\ Digit \in Nat \ {0} /\ Ten \in Nat /\ Top(w) \in Digits(w)
  BY AluSizes DEF One, Top, Digits
<1>1. PICK s : s = DecimalSums(a, v, One(q), w)
  OBVIOUS
<1>2. PICK z : z = DecimalDifferences(a, v, One(q), w)
  OBVIOUS
<1>3. \A i \in Digits(w) : s[i] \in Int /\ z[i] \in Int
  BY <1>0, <1>1, <1>2, SumsAreNumbers
<1>4. IsOperation(AddDecimal(a, v, q, w))
  <2> DEFINE fixed == [i \in Digits(w) |-> (s[i] + IF s[i] > Ten - 1 THEN Digit - Ten ELSE 0) % Digit]
             n == Number(fixed, fixed[Top(w)], w)
             ov == Number(fixed, s[Top(w)] % Digit, w)
             qq == Put(Put(q, "V", Overflow(ov, a, v, w)), "C", s[Top(w)] > Ten - 1)
  <2>1. AddDecimal(a, v, q, w) = Result(n, qq, w)
    BY <1>1 DEF AddDecimal
  <2>2. \A i \in Digits(w) : fixed[i] \in Int
    <3>1. \A i \in Digits(w) : s[i] + (IF s[i] > Ten - 1 THEN Digit - Ten ELSE 0) \in Int
      BY <1>0, <1>3
    <3> QED BY <3>1, <1>0, Remainder
  <2> HIDE DEF fixed
  <2>3. n \in Int
    BY <2>2, <1>0, NumberIsNumber
  <2>4. qq \in SUBSET AluFlags
    BY PutsType
  <2> HIDE DEF n, qq
  <2> QED BY <2>1, <2>3, <2>4, ResultIsOperation
<1>5. IsOperation(SubtractDecimal(a, v, q, w))
  <2> DEFINE wrong == [i \in Digits(w) |-> z[i] < 0 \/ (w /\ i = Top(w) /\ z[i] >= Ten)]
             fixed == [i \in Digits(w) |-> (z[i] - IF wrong[i] THEN Digit - Ten ELSE 0) % Digit]
             n == Number(fixed, fixed[Top(w)], w)
             carry == Number(fixed, z[Top(w)] % Digit, w) <= a
             ov == (a + Inverted(v, w) + (IF carry THEN 1 ELSE 0)) % Vals(w)
             qq == Put(Put(q, "C", carry), "V", Overflow(ov, a, Inverted(v, w), w))
  <2>1. SubtractDecimal(a, v, q, w) = Result(n, qq, w)
    BY <1>2 DEF SubtractDecimal
  <2>2. \A i \in Digits(w) : fixed[i] \in Int
    <3> HIDE DEF wrong
    <3> SUFFICES ASSUME NEW i \in Digits(w) PROVE fixed[i] \in Int
      OBVIOUS
    <3>1. PICK x \in Int : x = z[i] - (IF wrong[i] THEN Digit - Ten ELSE 0)
      BY <1>0, <1>3
    <3>2. fixed[i] = x % Digit
      BY <3>1
    <3> QED BY <3>2, <1>0, Remainder
  <2> HIDE DEF fixed
  <2>3. n \in Int
    BY <2>2, <1>0, NumberIsNumber
  <2>4. qq \in SUBSET AluFlags
    BY PutsType
  <2> HIDE DEF n, qq
  <2> QED BY <2>1, <2>3, <2>4, ResultIsOperation
<1> QED BY <1>4, <1>5

-----------------------------------------------------------------------------
LEMMA OperandsFit ==
    ASSUME NEW w \in BOOLEAN, NEW n \in 0 .. WordVals - 1
    PROVE  /\ n % Vals(w) \in 0 .. Vals(w) - 1 /\ n % Vals(w) \in 0 .. WordVals - 1
           /\ n % Vals(w) \in Nat
           /\ Inverted(n % Vals(w), w) \in 0 .. WordVals - 1
<1>1. PICK M \in Nat \ {0} : M = Vals(w)
  BY AluSizes
<1>2. M <= WordVals /\ WordVals \in Nat
  <2>1. ByteVals <= ByteVals * ByteVals
    BY AluSizes
  <2> QED BY <2>1, <1>1, AluSizes DEF Vals
<1>3. PICK r \in 0 .. M - 1 : r = n % Vals(w)
  <2>1. n \in Int
    BY <1>2
  <2>2. n % M \in 0 .. M - 1
    BY <2>1, <1>1, Remainder
  <2> QED BY <2>2, <1>1
<1>4. Inverted(r, w) = (M - 1) - r
  BY <1>1 DEF Inverted
<1> QED BY <1>1, <1>2, <1>3, <1>4

LEMMA HalfIsNumber ==
    ASSUME NEW w \in BOOLEAN, NEW n \in Int
    PROVE  Vals(w) \div 2 \in Int /\ n \div 2 \in Int
BY ValsHalf

\* Operations on two operands, and on one.
LEMMA AccumulateOperations ==
    ASSUME NEW w \in BOOLEAN, NEW a \in 0 .. WordVals - 1, NEW v \in 0 .. WordVals - 1,
           NEW q \in SUBSET AluFlags, Inverted(v, w) \in 0 .. WordVals - 1
    PROVE  /\ IsOperation(adc(a, v, q, w)) /\ IsOperation(sbc(a, v, q, w))
           /\ IsOperation(and(a, v, q, w)) /\ IsOperation(ora(a, v, q, w)) /\ IsOperation(eor(a, v, q, w))
           /\ IsOperation(Compare(a, v, q, w))
<1>0. WordVals \in Nat /\ a \in Nat /\ v \in Nat
  BY AluSizes
<1>1. \A u \in 0 .. WordVals - 1 : IsOperation(AddBinary(a, u, q, w))
  <2> SUFFICES ASSUME NEW u \in 0 .. WordVals - 1 PROVE IsOperation(AddBinary(a, u, q, w))
    OBVIOUS
  <2> DEFINE n == a + u + One(q)
             qq == Put(Put(q, "V", Overflow(n, a, u, w)), "C", n >= Vals(w))
  <2>1. n \in Int
    BY <1>0 DEF One
  <2>2. qq \in SUBSET AluFlags
    BY PutsType
  <2>3. AddBinary(a, u, q, w) = Result(n, qq, w)
    BY DEF AddBinary
  <2> HIDE DEF n, qq
  <2> QED BY <2>1, <2>2, <2>3, ResultIsOperation
<1>2. IsOperation(AddDecimal(a, v, q, w)) /\ IsOperation(SubtractDecimal(a, v, q, w))
  BY <1>0, DecimalIsOperation
<1>3. IsOperation(adc(a, v, q, w)) /\ IsOperation(sbc(a, v, q, w))
  BY <1>1, <1>2 DEF adc, sbc
<1>4. BitAnd(a, v) \in Int /\ BitOr(a, v) \in Int /\ BitXor(a, v) \in Int
  BY AluAssumption
<1>5. IsOperation(and(a, v, q, w)) /\ IsOperation(ora(a, v, q, w)) /\ IsOperation(eor(a, v, q, w))
  BY <1>4, ResultIsOperation DEF and, ora, eor
<1>6. IsOperation(Compare(a, v, q, w))
  <2>1. Put(Put(Put(q, "C", a >= v), "Z", a = v), "N", Negative(a - v, w)) \in SUBSET AluFlags
    BY DEF Put, AluFlags
  <2> QED BY <2>1, <1>0 DEF IsOperation, Compare
<1> QED BY <1>3, <1>5, <1>6

LEMMA RewriteOperations ==
    ASSUME AluType, NEW w \in BOOLEAN, NEW v \in 0 .. WordVals - 1
    PROVE  /\ \A o \in Rewrites(v, w) : IsOperation(o)
           /\ IsOperation(tsb(v, aluP, w)) /\ IsOperation(trb(v, aluP, w)) /\ IsOperation(stz(v, aluP, w))
<1>0. PICK q \in SUBSET AluFlags : q = aluP
  BY DEF AluType
<1>1. WordVals \in Nat /\ v \in Nat /\ One(q) \in Int
  BY AluSizes DEF One
<1>2. PICK h \in Int : h = Vals(w) \div 2
  BY HalfIsNumber
<1>3. PICK d \in Int : d = v \div 2
  BY <1>1, HalfIsNumber
<1>4. \A n \in Int : \A b : IsOperation(Shifted(n, b, q, w))
  <2> SUFFICES ASSUME NEW n \in Int, NEW b PROVE IsOperation(Shifted(n, b, q, w))
    OBVIOUS
  <2>1. Put(q, "C", b) \in SUBSET AluFlags
    BY PutsType
  <2> QED BY <2>1, ResultIsOperation DEF Shifted
<1>5. IsOperation(asl(v, q, w)) /\ IsOperation(rol(v, q, w))
  <2>1. 2 * v \in Int /\ (2 * v) + One(q) \in Int
    BY <1>1
  <2> QED BY <2>1, <1>4 DEF asl, rol
<1>6. IsOperation(lsr(v, q, w)) /\ IsOperation(ror(v, q, w))
  <2>1. d + (One(q) * h) \in Int
    BY <1>1
  <2> QED BY <2>1, <1>2, <1>3, <1>4 DEF lsr, ror
<1>7. IsOperation(inc(v, q, w)) /\ IsOperation(dec(v, q, w))
  <2>1. v + 1 \in Int /\ v - 1 \in Int
    BY <1>1
  <2> QED BY <2>1, ResultIsOperation DEF inc, dec
<1>8. Tested(v, q, w) \in SUBSET AluFlags
  BY PutsType DEF Tested
<1>9. aluC % Vals(w) \in 0 .. WordVals - 1 /\ Inverted(aluC % Vals(w), w) \in 0 .. WordVals - 1
  BY OperandsFit DEF AluType
<1>10. IsOperation(tsb(v, q, w)) /\ IsOperation(trb(v, q, w))
  <2>1. BitOr(v, aluC % Vals(w)) \in Int /\ BitAnd(v, Inverted(aluC % Vals(w), w)) \in Int
    BY <1>9, AluAssumption
  <2> QED BY <2>1, <1>8 DEF IsOperation, tsb, trb
<1>11. IsOperation(stz(v, q, w))
  BY DEF IsOperation, stz
<1> QED BY <1>0, <1>5, <1>6, <1>7, <1>10, <1>11 DEF Rewrites

-----------------------------------------------------------------------------
LEMMA SaveOperation ==
    ASSUME NEW reg \in 0 .. WordVals - 1, NEW o, IsOperation(o), NEW w \in BOOLEAN
    PROVE  Save(reg, o.r, w) \in 0 .. WordVals - 1 /\ o.q \in SUBSET AluFlags
BY SaveType DEF IsOperation

\* Registers, the cell and the status keep their sizes.
LEMMA AluTypeInductive ==
    ASSUME AluType, [AluNext \/ AluDone]_aluVars
    PROVE  AluType'
<1>0. /\ WordVals \in Nat \ {0} /\ ByteVals \in Nat \ {0} /\ WordVals = ByteVals * ByteVals
      /\ Memory16 \in BOOLEAN /\ Index16 \in BOOLEAN
  BY AluSizes DEF Memory16, Index16
<1>1. ByteVals <= WordVals
  BY <1>0
<1>2. \A reg \in 0 .. WordVals - 1 : reg % ByteVals \in 0 .. WordVals - 1
  <2> SUFFICES ASSUME NEW reg \in 0 .. WordVals - 1 PROVE reg % ByteVals \in 0 .. WordVals - 1
    OBVIOUS
  <2>1. reg \in Int
    BY <1>0
  <2>2. reg % ByteVals \in 0 .. ByteVals - 1
    BY <2>1, <1>0, Remainder
  <2> QED BY <2>2, <1>0, <1>1
<1>3. \A w \in BOOLEAN : \A n \in 0 .. WordVals - 1 :
         /\ n % Vals(w) \in 0 .. WordVals - 1
         /\ Inverted(n % Vals(w), w) \in 0 .. WordVals - 1
  BY OperandsFit
<1>4. CASE Accumulate
  <2>1. PICK a \in 0 .. WordVals - 1, v \in 0 .. WordVals - 1 :
           /\ a = aluC % Vals(Memory16) /\ v = Fetch(Memory16)
           /\ Inverted(v, Memory16) \in 0 .. WordVals - 1
    BY <1>0, <1>3 DEF AluType, Fetch
  <2>2. PICK o \in {adc(a, v, aluP, Memory16), sbc(a, v, aluP, Memory16), and(a, v, aluP, Memory16),
                    ora(a, v, aluP, Memory16), eor(a, v, aluP, Memory16), Compare(a, v, aluP, Memory16)} :
           aluC' = Save(aluC, o.r, Memory16) /\ aluP' = o.q
    BY <1>4, <2>1 DEF Accumulate
  <2>3. IsOperation(o)
    BY <1>0, <2>1, <2>2, AccumulateOperations DEF AluType
  <2>4. Save(aluC, o.r, Memory16) \in 0 .. WordVals - 1 /\ o.q \in SUBSET AluFlags
    BY <1>0, <2>3, SaveOperation DEF AluType
  <2> QED BY <1>4, <2>2, <2>4 DEF AluType, Accumulate
<1>5. CASE cpx
  <2>1. PICK reg \in {aluX, aluY} : aluP' = Compare(reg % Vals(Index16), Fetch(Index16), aluP, Index16).q
    BY <1>5 DEF cpx
  <2>2. PICK a \in 0 .. WordVals - 1, v \in 0 .. WordVals - 1 :
           /\ a = reg % Vals(Index16) /\ v = Fetch(Index16)
           /\ Inverted(v, Index16) \in 0 .. WordVals - 1
    BY <1>0, <1>3, <2>1 DEF AluType, Fetch
  <2>3. IsOperation(Compare(a, v, aluP, Index16))
    BY <1>0, <2>2, AccumulateOperations DEF AluType
  <2> QED BY <1>5, <2>1, <2>2, <2>3 DEF AluType, cpx, IsOperation
<1>6. CASE RewriteA
  <2>1. PICK o \in Rewrites(aluC % Vals(Memory16), Memory16) :
           aluC' = Save(aluC, o.r, Memory16) /\ aluP' = o.q
    BY <1>6 DEF RewriteA
  <2>2. IsOperation(o)
    <3>1. aluC % Vals(Memory16) \in 0 .. WordVals - 1
      BY <1>0, <1>3 DEF AluType
    <3> QED BY <1>0, <2>1, <3>1, RewriteOperations
  <2>3. Save(aluC, o.r, Memory16) \in 0 .. WordVals - 1 /\ o.q \in SUBSET AluFlags
    BY <1>0, <2>2, SaveOperation DEF AluType
  <2> QED BY <1>6, <2>1, <2>3 DEF AluType, RewriteA
<1>7. CASE RewriteCell
  <2>0. PICK v \in 0 .. WordVals - 1 : v = Fetch(Memory16)
    BY <1>0, <1>3 DEF AluType, Fetch
  <2>1. PICK o \in Rewrites(v, Memory16) \cup
                     {tsb(v, aluP, Memory16), trb(v, aluP, Memory16), stz(v, aluP, Memory16)} :
           aluM' = Save(aluM, o.r, Memory16) /\ aluP' = o.q
    BY <1>7, <2>0 DEF RewriteCell
  <2>2. IsOperation(o)
    BY <1>0, <2>1, RewriteOperations
  <2>3. Save(aluM, o.r, Memory16) \in 0 .. WordVals - 1 /\ o.q \in SUBSET AluFlags
    BY <1>0, <2>2, SaveOperation DEF AluType
  <2> QED BY <1>7, <2>1, <2>3 DEF AluType, RewriteCell
<1>8. CASE smb
  <2>1. PICK h \in Nat \ {0} : ByteVals = 2 * h /\ ByteVals \div 2 = h
    <3>1. PICK g \in Nat \ {0} : ByteVals = 2 * (g * Digit) /\ ByteVals \div 2 = g * Digit
      BY AluHalves
    <3>2. \A x, y \in Nat \ {0} : x * y \in Nat \ {0}
      OBVIOUS
    <3> QED BY <3>1, <3>2, AluSizes
  <2>2. PICK b \in {1, h} : aluM' \in {Save(aluM, BitOr(aluM % ByteVals, b), FALSE),
                                       Save(aluM, BitAnd(aluM % ByteVals, Inverted(b, FALSE)), FALSE)}
    BY <1>8, <2>1 DEF smb
  <2>3. b \in 0 .. WordVals - 1 /\ Inverted(b, FALSE) \in 0 .. WordVals - 1
    <3>1. Inverted(b, FALSE) = (ByteVals - 1) - b
      BY DEF Inverted, Vals
    <3>2. b \in Nat /\ b <= ByteVals - 1
      BY <2>1
    <3>3. PICK B \in Nat, W \in Nat : B = ByteVals /\ W = WordVals /\ B <= W
      BY <1>0, <1>1
    <3>4. b \in 0 .. W - 1 /\ (B - 1) - b \in 0 .. W - 1
      BY <3>2, <3>3
    <3> QED BY <3>1, <3>3, <3>4
  <2>4. aluM % ByteVals \in 0 .. WordVals - 1
    BY <1>2 DEF AluType
  <2>5. BitOr(aluM % ByteVals, b) \in Int /\ BitAnd(aluM % ByteVals, Inverted(b, FALSE)) \in Int
    <3>1. PICK x \in 0 .. WordVals - 1, y \in 0 .. WordVals - 1, z \in 0 .. WordVals - 1 :
             x = aluM % ByteVals /\ y = b /\ z = Inverted(b, FALSE)
      BY <2>3, <2>4
    <3>2. BitOr(x, y) \in Int /\ BitAnd(x, z) \in Int
      BY AluAssumption
    <3> QED BY <3>1, <3>2
  <2>6. \A n \in Int : Save(aluM, n, FALSE) \in 0 .. WordVals - 1
    <3>1. \A w \in BOOLEAN : \A n \in Int : Save(aluM, n, w) \in 0 .. WordVals - 1
      BY SaveType DEF AluType
    <3>2. FALSE \in BOOLEAN
      OBVIOUS
    <3> QED BY <3>1, <3>2, Zenon
  <2>7. aluM' \in 0 .. WordVals - 1
    BY <2>2, <2>5, <2>6
  <2> QED BY <1>8, <2>7 DEF AluType, smb
<1>9. CASE Bit
  <2>1. bit(aluM, aluP, Memory16) \in SUBSET AluFlags
    BY DEF bit, Put, AluType, AluFlags
  <2>2. Put(aluP, "Z", BitAnd(aluC, aluM) % Vals(Memory16) = 0) \in SUBSET AluFlags
    BY PutsType DEF AluType
  <2>3. aluP' \in SUBSET AluFlags
    BY <1>9, <2>1, <2>2 DEF Bit
  <2> QED BY <1>9, <2>3 DEF AluType, Bit
<1>10. \A reg, n \in 0 .. WordVals - 1 : \A w \in BOOLEAN : Save(reg, n, w) \in 0 .. WordVals - 1
  <2>1. \A n \in 0 .. WordVals - 1 : n \in Int
    BY <1>0
  <2> QED BY <2>1, SaveType
<1>11. \A n, w : NZ(aluP, n, w) \in SUBSET AluFlags
  BY NZType DEF AluType
<1>12. CASE lda
  BY <1>12, <1>0, <1>10, <1>11 DEF AluType, lda
<1>13. CASE ldx
  BY <1>13, <1>0, <1>10, <1>11 DEF AluType, ldx
<1>14. CASE sta
  BY <1>14, <1>0, <1>10 DEF AluType, sta
<1>15. CASE inx
  <2>1. aluX + 1 \in Int /\ aluX + (-1) \in Int /\ aluY + 1 \in Int /\ aluY + (-1) \in Int
    BY <1>0 DEF AluType
  <2>2. \A d \in {1, -1} : Save(aluX, aluX + d, Index16) \in 0 .. WordVals - 1
                           /\ Save(aluY, aluY + d, Index16) \in 0 .. WordVals - 1
    BY <1>0, <2>1, SaveType DEF AluType
  <2> QED BY <1>15, <2>2, <1>11 DEF AluType, inx
<1>16. CASE tax
  BY <1>16, <1>0, <1>10, <1>11 DEF AluType, tax
<1>17. CASE txa
  <2>1. PICK reg \in {aluX, aluY} :
           /\ aluC' = IF Memory16 /\ ~ Index16 THEN reg % ByteVals ELSE Save(aluC, reg, Memory16)
           /\ aluP' = NZ(aluP, reg, Memory16 /\ Index16)
    BY <1>17 DEF txa
  <2>2. reg \in 0 .. WordVals - 1
    BY DEF AluType
  <2>3. reg % ByteVals \in 0 .. WordVals - 1 /\ Save(aluC, reg, Memory16) \in 0 .. WordVals - 1
    BY <2>2, <1>0, <1>2, <1>10 DEF AluType
  <2>4. aluC' \in 0 .. WordVals - 1
    BY <2>1, <2>3
  <2>5. aluP' \in SUBSET AluFlags
    BY <2>1, <1>11
  <2> QED BY <1>17, <2>4, <2>5 DEF AluType, txa
<1>18. CASE txy
  BY <1>18, <1>0, <1>10, <1>11 DEF AluType, txy
<1>19. CASE xba
  <2>1. aluC % ByteVals \in 0 .. ByteVals - 1 /\ aluC \div ByteVals \in 0 .. ByteVals - 1
    BY IsWord2 DEF AluType
  <2>2. Word2(aluC \div ByteVals, aluC % ByteVals) \in 0 .. WordVals - 1
    BY <2>1, Word2Parts
  <2> QED BY <1>19, <2>2, <1>11 DEF AluType, xba, Word2
<1>20. CASE SetAluFlag
  <2>1. aluP' \in SUBSET AluFlags
    <3>1. \/ \E f \in {"C", "D"}, b \in BOOLEAN : aluP' = Put(aluP, f, b)
          \/ aluP' = aluP \ {"V"}
      BY <1>20 DEF SetAluFlag
    <3>2. {"C", "D"} \subseteq AluFlags
      BY DEF AluFlags
    <3> QED BY <3>1, <3>2, PutType DEF AluType
  <2> QED BY <1>20, <2>1 DEF AluType, SetAluFlag
<1>21. CASE SetWidths
  <2>1. aluP' \in SUBSET AluFlags
    <3>1. \E f \in {"M", "X"}, b \in BOOLEAN : aluP' = Put(aluP, f, b)
      BY <1>21 DEF SetWidths
    <3>2. {"M", "X"} \subseteq AluFlags
      BY DEF AluFlags
    <3> QED BY <3>1, <3>2, PutType DEF AluType
  <2> QED BY <1>21, <2>1, <1>2 DEF AluType, SetWidths
<1>22. CASE UNCHANGED aluVars
  BY <1>22 DEF AluType, aluVars
<1> QED BY <1>4, <1>5, <1>6, <1>7, <1>8, <1>9, <1>12, <1>13, <1>14, <1>15, <1>16, <1>17, <1>18, <1>19,
           <1>20, <1>21, <1>22 DEF AluNext, AluDone

LEMMA AluTypeInvariant == AluSpec => []AluType
<1>1. AluInit => AluType
  BY AluSizes, AluAssumption DEF AluInit, AluType, AluFlags
<1>2. AluType /\ [AluNext \/ AluDone]_aluVars => AluType'
  BY AluTypeInductive
<1> QED BY <1>1, <1>2, PTL DEF AluSpec

\* Whatever instructions come before, adc and sbc add and subtract the numbers
\* that decimal operands stand for, with carry and borrow, in both widths, and in
\* binary N, V and C order the operands as signed and unsigned numbers
\* (instructions.h), for every number of values of a digit.
THEOREM ArithmeticCorrect == AluSpec => []AddsAndSubtracts
<1>1. AluType => AddsAndSubtracts
  BY AddsInDecimal, OrdersOperands DEF AddsAndSubtracts
<1> QED BY <1>1, AluTypeInvariant, PTL

\* One long instruction does what two narrow ones do that pass the carry on.
THEOREM WidthsAgree == AluSpec => []WideIsTwoNarrow
<1>1. AluType => WideIsTwoNarrow
  BY WidthsDoAgree
<1> QED BY <1>1, AluTypeInvariant, PTL
=============================================================================
