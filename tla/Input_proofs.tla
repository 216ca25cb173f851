---------------------------- MODULE Input_proofs ----------------------------
(***************************************************************************)
(* The input path: what each ring operation does to the queue the ring     *)
(* stands for; that the mouse ring holds whole reports and the SMC knows   *)
(* which byte of one comes next; that a guest of the two transfer forms    *)
(* writes the bytes of its own transfer; and that rings, mouse_send and    *)
(* smc_read implement two bounded queues.  All of it for rings and         *)
(* counters of any size and any bytes a guest may write.  And the game     *)
(* controllers: that a scan reads the buttons held at its latch, for any   *)
(* number of ports, buttons and controllers.  And automatic typing: that   *)
(* the guest reads the text.                                               *)
(***************************************************************************)
EXTENDS SmcInput, Joysticks, AutoKeys, NatLemmas, FiniteSetTheorems, SequenceTheorems

-----------------------------------------------------------------------------
(* The ring buffers *)

\* The index of the slot after the last is 0; every other slot is followed
\* by its successor.
LEMMA NextSlotValue ==
  ASSUME NEW Size, NEW Byte, RingAssumption(Size, Byte),
         NEW i \in 0 .. Size - 1
  PROVE  /\ NextSlot(Size, i) \in 0 .. Size - 1
         /\ NextSlot(Size, i) = IF i = Size - 1 THEN 0 ELSE i + 1
BY DEF NextSlot, RingAssumption

\* The count is the distance from tail to head around the ring.
LEMMA RingCountValue ==
  ASSUME NEW Size, NEW Byte, RingAssumption(Size, Byte),
         NEW r \in Ring(Size, Byte)
  PROVE  /\ RingCount(Size, r) \in 0 .. Size - 1
         /\ RingCount(Size, r) = IF r.head >= r.tail THEN r.head - r.tail
                                               ELSE Size + r.head - r.tail
<1>1. r.head \in 0 .. Size - 1 /\ r.tail \in 0 .. Size - 1
  BY DEF Ring
<1>2. CASE r.head >= r.tail
  <2>1. Size + r.head - r.tail = Size + (r.head - r.tail)
    BY <1>1 DEF RingAssumption
  <2>2. (Size + (r.head - r.tail)) % Size = r.head - r.tail
    BY <1>1, <1>2 DEF RingAssumption
  <2>3. QED
    BY <1>1, <1>2, <2>1, <2>2 DEF RingCount, RingAssumption
<1>3. CASE r.head < r.tail
  <2>1. (Size + r.head - r.tail) % Size = Size + r.head - r.tail
    BY <1>1, <1>3 DEF RingAssumption
  <2>2. QED
    BY <1>1, <1>3, <2>1 DEF RingCount, RingAssumption
<1>4. QED
  BY <1>1, <1>2, <1>3 DEF RingAssumption

\* Slot number k of the queue, counted from the tail.
LEMMA SlotValue ==
  ASSUME NEW Size, NEW Byte, RingAssumption(Size, Byte),
         NEW t \in 0 .. Size - 1, NEW k \in 0 .. Size - 1
  PROVE  /\ (t + k) % Size \in 0 .. Size - 1
         /\ (t + k) % Size = IF t + k < Size THEN t + k ELSE t + k - Size
BY DEF RingAssumption

\* The queue of a ring is a sequence of bytes as long as its count
\* (i2c_mse_buffer_count, i2c.c).
THEOREM ContentsType ==
  ASSUME NEW Size, NEW Byte, RingAssumption(Size, Byte),
         NEW r \in Ring(Size, Byte)
  PROVE  /\ Contents(Size, r) \in Seq(Byte)
         /\ Len(Contents(Size, r)) = RingCount(Size, r)
<1>1. RingCount(Size, r) \in Nat
  BY RingCountValue DEF RingAssumption
<1>2. ASSUME NEW i \in 1 .. RingCount(Size, r)
      PROVE  r.buf[(r.tail + i - 1) % Size] \in Byte
  <2>0. RingCount(Size, r) \in 0 .. Size - 1
    BY RingCountValue
  <2>1. i - 1 \in 0 .. Size - 1 /\ r.tail \in 0 .. Size - 1
    BY <2>0 DEF Ring, RingAssumption
  <2>2. (r.tail + (i - 1)) % Size \in 0 .. Size - 1
    BY <2>1, SlotValue
  <2>3. r.tail + (i - 1) = r.tail + i - 1
    BY <2>1
  <2>4. QED
    BY <2>2, <2>3 DEF Ring
<1>3. Contents(Size, r) \in [1 .. RingCount(Size, r) -> Byte]
  BY <1>2 DEF Contents
<1>4. QED
  BY <1>1, <1>3

\* A byte of the queue, with the modulus resolved.
LEMMA ContentsAt ==
  ASSUME NEW Size, NEW Byte, RingAssumption(Size, Byte),
         NEW r \in Ring(Size, Byte), NEW i \in 1 .. RingCount(Size, r)
  PROVE  Contents(Size, r)[i] = r.buf[IF r.tail + i - 1 < Size THEN r.tail + i - 1
                                                          ELSE r.tail + i - 1 - Size]
<1>0. RingCount(Size, r) \in 0 .. Size - 1
  BY RingCountValue
<1>1. i - 1 \in 0 .. Size - 1 /\ r.tail \in 0 .. Size - 1
  BY <1>0 DEF Ring, RingAssumption
<1>2. (r.tail + (i - 1)) % Size = IF r.tail + (i - 1) < Size THEN r.tail + (i - 1)
                                   ELSE r.tail + (i - 1) - Size
  BY <1>1, SlotValue
<1>3. r.tail + (i - 1) = r.tail + i - 1 /\ r.tail + (i - 1) - Size = r.tail + i - 1 - Size
  BY <1>1 DEF RingAssumption
<1>4. QED
  BY <1>2, <1>3 DEF Contents

\* add() appends the byte to the queue, or, when the ring holds Size - 1
\* bytes, leaves it alone (i2c_kbd_buffer_add and i2c_mse_buffer_add, i2c.c).
THEOREM AddIsQueueAdd ==
  ASSUME NEW Size, NEW Byte, RingAssumption(Size, Byte),
         NEW r \in Ring(Size, Byte), NEW v \in Byte
  PROVE  /\ RingAdd(Size, r, v) \in Ring(Size, Byte)
         /\ Contents(Size, RingAdd(Size, r, v)) = QueueAdd(Size, Contents(Size, r), v)
<1> DEFINE s == [r EXCEPT !.buf[r.head] = v, !.head = NextSlot(Size, r.head)]
<1>1. /\ r.head \in 0 .. Size - 1 /\ r.tail \in 0 .. Size - 1
      /\ r.buf \in [0 .. Size - 1 -> Byte]
      /\ NextSlot(Size, r.head) \in 0 .. Size - 1
      /\ NextSlot(Size, r.head) = IF r.head = Size - 1 THEN 0 ELSE r.head + 1
  BY NextSlotValue DEF Ring
<1>2. CASE NextSlot(Size, r.head) = r.tail
  <2>1. RingCount(Size, r) = Size - 1
    BY <1>1, <1>2, RingCountValue DEF RingAssumption
  <2>2. QED
    BY <1>2, <2>1, ContentsType DEF RingAdd, QueueAdd, RingAssumption
<1>3. CASE NextSlot(Size, r.head) # r.tail
  <2>1. /\ s \in Ring(Size, Byte)
        /\ s.head = NextSlot(Size, r.head) /\ s.tail = r.tail
        /\ s.buf = [r.buf EXCEPT ![r.head] = v]
    BY <1>1 DEF Ring
  <2>9. RingAdd(Size, r, v) = s
    BY <1>3 DEF RingAdd
  <2> HIDE DEF s
  <2>2. RingCount(Size, s) = RingCount(Size, r) + 1 /\ RingCount(Size, r) < Size - 1
    <3>1. RingCount(Size, r) = IF r.head >= r.tail THEN r.head - r.tail
                                             ELSE Size + r.head - r.tail
      BY RingCountValue
    <3>2. RingCount(Size, s) = IF s.head >= s.tail THEN s.head - s.tail
                                             ELSE Size + s.head - s.tail
      BY <2>1, RingCountValue
    <3>3. CASE r.head = Size - 1
      BY <1>1, <1>3, <2>1, <3>1, <3>2, <3>3 DEF RingAssumption
    <3>4. CASE r.head # Size - 1
      BY <1>1, <1>3, <2>1, <3>1, <3>2, <3>4 DEF RingAssumption
    <3>5. QED
      BY <3>3, <3>4
  <2> DEFINE Slot(i) == IF r.tail + i - 1 < Size THEN r.tail + i - 1
                                                  ELSE r.tail + i - 1 - Size
  <2>3. ASSUME NEW i \in 1 .. RingCount(Size, s)
        PROVE  Contents(Size, s)[i] = s.buf[Slot(i)]
    <3>1. \A j \in 1 .. RingCount(Size, s) :
              Contents(Size, s)[j] = s.buf[IF s.tail + j - 1 < Size THEN s.tail + j - 1
                                           ELSE s.tail + j - 1 - Size]
      BY <2>1, ContentsAt
    <3>2. QED
      BY <2>1, <3>1
  <2>4. ASSUME NEW i \in 1 .. RingCount(Size, r)
        PROVE  Slot(i) \in 0 .. Size - 1 /\ Slot(i) # r.head
    <3>1. /\ Size \in Nat /\ r.head \in 0 .. Size - 1 /\ r.tail \in 0 .. Size - 1
          /\ RingCount(Size, r) = IF r.head >= r.tail THEN r.head - r.tail
                                  ELSE Size + r.head - r.tail
      BY <1>1, RingCountValue DEF RingAssumption
    <3>2. i \in Nat /\ i >= 1 /\ i <= RingCount(Size, r)
      BY <3>1, RingCountValue
    <3> QED BY <3>1, <3>2
  <2>5. Slot(RingCount(Size, r) + 1) = r.head
    <3>1. /\ Size \in Nat /\ r.head \in 0 .. Size - 1 /\ r.tail \in 0 .. Size - 1
          /\ RingCount(Size, r) = IF r.head >= r.tail THEN r.head - r.tail
                                  ELSE Size + r.head - r.tail
      BY <1>1, RingCountValue DEF RingAssumption
    <3> QED BY <3>1
  <2>6. ASSUME NEW i \in 1 .. RingCount(Size, r)
        PROVE  Contents(Size, s)[i] = Contents(Size, r)[i]
    <3>1. i \in 1 .. RingCount(Size, s)
      BY <2>2, RingCountValue DEF RingAssumption
    <3>2. s.buf[Slot(i)] = r.buf[Slot(i)]
      BY <1>1, <2>1, <2>4
    <3>3. QED
      BY <2>3, <3>1, <3>2, ContentsAt
  <2>7. Contents(Size, s)[RingCount(Size, r) + 1] = v
    <3>1. RingCount(Size, r) + 1 \in 1 .. RingCount(Size, s)
      BY <2>2, RingCountValue DEF RingAssumption
    <3>2. Contents(Size, s)[RingCount(Size, r) + 1] = s.buf[Slot(RingCount(Size, r) + 1)]
      BY <2>3, <3>1
    <3>3. QED
      BY <1>1, <2>1, <2>5, <3>2
  <2>8. Contents(Size, s) = Append(Contents(Size, r), v)
    <3>1. /\ Contents(Size, s) \in Seq(Byte) /\ Len(Contents(Size, s)) = RingCount(Size, r) + 1
          /\ Contents(Size, r) \in Seq(Byte) /\ Len(Contents(Size, r)) = RingCount(Size, r)
      BY <2>1, <2>2, ContentsType
    <3>2. /\ Append(Contents(Size, r), v) \in Seq(Byte)
          /\ Len(Append(Contents(Size, r), v)) = RingCount(Size, r) + 1
      BY <3>1
    <3>3. ASSUME NEW i \in 1 .. RingCount(Size, r) + 1
          PROVE  Contents(Size, s)[i] = Append(Contents(Size, r), v)[i]
      <4>1. CASE i = RingCount(Size, r) + 1
        BY <2>7, <3>1, <4>1
      <4>2. CASE i # RingCount(Size, r) + 1
        <5>1. i \in 1 .. RingCount(Size, r)
          BY <4>2, RingCountValue DEF RingAssumption
        <5>2. QED
          BY <2>6, <3>1, <5>1
      <4>3. QED
        BY <4>1, <4>2
    <3>4. QED
      BY <3>1, <3>2, <3>3
  <2>10. QED
    BY <2>1, <2>2, <2>8, <2>9, ContentsType DEF QueueAdd
<1>4. QED
  BY <1>2, <1>3

\* next() returns the head of the queue and removes it; on an empty queue it
\* answers 0 and changes nothing (i2c_kbd_buffer_next and
\* i2c_mse_buffer_next, i2c.c).
THEOREM NextIsQueueNext ==
  ASSUME NEW Size, NEW Byte, RingAssumption(Size, Byte),
         NEW r \in Ring(Size, Byte)
  PROVE  /\ RingNext(Size, r) \in Ring(Size, Byte)
         /\ RingFront(r) = QueueFront(Contents(Size, r))
         /\ Contents(Size, RingNext(Size, r)) = QueueNext(Contents(Size, r))
<1>1. /\ r.head \in 0 .. Size - 1 /\ r.tail \in 0 .. Size - 1
      /\ NextSlot(Size, r.tail) \in 0 .. Size - 1
      /\ NextSlot(Size, r.tail) = IF r.tail = Size - 1 THEN 0 ELSE r.tail + 1
  BY NextSlotValue DEF Ring
<1>2. Contents(Size, r) \in Seq(Byte) /\ Len(Contents(Size, r)) = RingCount(Size, r)
  BY ContentsType
<1>3. CASE r.head = r.tail
  <2>1. Contents(Size, r) = <<>>
    BY <1>1, <1>2, <1>3, RingCountValue DEF RingAssumption
  <2>2. QED
    BY <1>3, <2>1 DEF RingNext, RingFront, QueueNext, QueueFront
<1>4. CASE r.head # r.tail
  <2> DEFINE s == [r EXCEPT !.tail = NextSlot(Size, r.tail)]
  <2>1. /\ s \in Ring(Size, Byte) /\ s.head = r.head /\ s.buf = r.buf
        /\ s.tail = NextSlot(Size, r.tail) /\ RingNext(Size, r) = s
    BY <1>1, <1>4 DEF Ring, RingNext
  <2> HIDE DEF s
  <2>2. RingCount(Size, r) >= 1 /\ RingCount(Size, s) = RingCount(Size, r) - 1 /\ RingCount(Size, r) <= Size - 1
    BY <1>1, <1>4, <2>1, RingCountValue DEF RingAssumption
  <2>3. Contents(Size, r) # <<>>
    BY <1>2, <2>2
  <2>4. Head(Contents(Size, r)) = r.buf[r.tail]
    <3>1. Contents(Size, r)[1] = r.buf[r.tail]
      BY <1>1, <2>2, ContentsAt DEF RingAssumption
    <3>2. QED
      BY <1>2, <2>3, <3>1
  <2>5. /\ Contents(Size, s) \in Seq(Byte) /\ Len(Contents(Size, s)) = RingCount(Size, r) - 1
        /\ Tail(Contents(Size, r)) \in Seq(Byte) /\ Len(Tail(Contents(Size, r))) = RingCount(Size, r) - 1
    BY <1>2, <2>1, <2>2, <2>3, ContentsType
  <2>6. ASSUME NEW i \in 1 .. RingCount(Size, r) - 1
        PROVE  Contents(Size, s)[i] = Tail(Contents(Size, r))[i]
    <3>1. i \in 1 .. RingCount(Size, s) /\ i + 1 \in 1 .. RingCount(Size, r)
      BY <2>2, RingCountValue DEF RingAssumption
    <3>2. Contents(Size, s)[i] = s.buf[IF s.tail + i - 1 < Size THEN s.tail + i - 1
                                                          ELSE s.tail + i - 1 - Size]
      BY <2>1, <3>1, ContentsAt
    <3>3. Contents(Size, r)[i + 1] = r.buf[IF r.tail + (i + 1) - 1 < Size THEN r.tail + (i + 1) - 1
                                                          ELSE r.tail + (i + 1) - 1 - Size]
      BY <3>1, ContentsAt
    <3>4. (IF s.tail + i - 1 < Size THEN s.tail + i - 1 ELSE s.tail + i - 1 - Size)
        = (IF r.tail + (i + 1) - 1 < Size THEN r.tail + (i + 1) - 1
                                          ELSE r.tail + (i + 1) - 1 - Size)
      <4>1. i \in 1 .. Size - 2
        BY <2>2, RingCountValue DEF RingAssumption
      <4>2. CASE r.tail = Size - 1
        BY <1>1, <2>1, <4>1, <4>2 DEF RingAssumption
      <4>3. CASE r.tail # Size - 1
        BY <1>1, <2>1, <4>1, <4>3 DEF RingAssumption
      <4>4. QED
        BY <4>2, <4>3
    <3>5. Tail(Contents(Size, r))[i] = Contents(Size, r)[i + 1]
      BY <1>2, <2>3, <2>5
    <3>6. QED
      BY <2>1, <3>2, <3>3, <3>4, <3>5
  <2>7. Contents(Size, s) = Tail(Contents(Size, r))
    BY <2>5, <2>6
  <2>8. QED
    BY <1>4, <2>1, <2>3, <2>4, <2>7 DEF RingFront, QueueNext, QueueFront
<1>5. QED
  BY <1>3, <1>4

\* flush() empties the queue (i2c_kbd_buffer_flush, i2c_mse_buffer_flush).
THEOREM FlushIsEmpty ==
  ASSUME NEW Size, NEW Byte, RingAssumption(Size, Byte),
         NEW r \in Ring(Size, Byte)
  PROVE  RingFlush(r) \in Ring(Size, Byte) /\ Contents(Size, RingFlush(r)) = <<>>
<1>1. RingFlush(r) \in Ring(Size, Byte) /\ RingFlush(r).head = 0 /\ RingFlush(r).tail = 0
  BY DEF RingFlush, Ring, RingAssumption
<1>2. RingCount(Size, RingFlush(r)) = 0
  BY <1>1, RingCountValue
<1>3. QED
  BY <1>1, <1>2, ContentsType

\* A ring that nothing was put in.
LEMMA EmptyIsEmpty ==
  ASSUME NEW Size, NEW Byte, RingAssumption(Size, Byte)
  PROVE  EmptyRing(Size) \in Ring(Size, Byte) /\ Contents(Size, EmptyRing(Size)) = <<>>
<1> DEFINE e == EmptyRing(Size)
<1>1. e \in Ring(Size, Byte)
  <2>1. 0 \in 0 .. Size - 1 /\ 0 \in Byte
    BY DEF RingAssumption
  <2> QED BY <2>1 DEF EmptyRing, Ring
<1>2. RingFlush(e) = e
  BY DEF EmptyRing, RingFlush
<1> HIDE DEF e
<1>3. RingFlush(e) \in Ring(Size, Byte) /\ Contents(Size, RingFlush(e)) = <<>>
  BY <1>1, FlushIsEmpty
<1> QED BY <1>1, <1>2, <1>3 DEF e

-----------------------------------------------------------------------------
(* The mouse's reports *)

LEMMA RingSizes == RingAssumption(MseSize, 0 .. 4) /\ RingAssumption(KbdSize, 0 .. 255)
BY SizeAssumption DEF RingAssumption

LEMMA Sizes == \A id \in {0, 3} : PacketSize(id) \in {3, 4}
BY DEF PacketSize

\* A queue with one more report, and one of whole reports.
Grown(q, size) ==
    LET three == Append(Append(Append(q, 1), 2), 3)
    IN  IF size = 4 THEN Append(three, 4) ELSE three

Whole(q, size) ==
    /\ \A i \in 1 .. Len(q) - 1 : q[i + 1] = IF q[i] = size THEN 1 ELSE q[i] + 1
    /\ q # <<>> => q[Len(q)] = size

OneMore(g, q, size) ==
    /\ g \in Seq(0 .. 4) /\ Len(g) = Len(q) + size
    /\ \A i \in 1 .. Len(q) : g[i] = q[i]
    /\ \A i \in 1 .. size : g[Len(q) + i] = i

LEMMA GrownType ==
    ASSUME NEW q \in Seq(0 .. 4), NEW size \in {3, 4}
    PROVE  OneMore(Grown(q, size), q, size)
<1>1. CASE size = 3
  BY <1>1 DEF Grown, OneMore
<1>2. CASE size = 4
  BY <1>2 DEF Grown, OneMore
<1> QED BY <1>1, <1>2

LEMMA GrownWhole ==
    ASSUME NEW q \in Seq(0 .. 4), NEW size \in {3, 4}, Whole(q, size)
    PROVE  Whole(Grown(q, size), size)
<1> DEFINE g == Grown(q, size)
           n == Len(q)
<1>1. /\ g \in Seq(0 .. 4) /\ Len(g) = n + size /\ n \in Nat
      /\ \A i \in 1 .. n : g[i] = q[i]
      /\ \A i \in 1 .. size : g[n + i] = i
  <2>1. OneMore(Grown(q, size), q, size)
    BY GrownType
  <2> QED BY <2>1 DEF OneMore
<1>2. (q # <<>> => q[n] = size) /\ (n > 0 => q # <<>>)
      /\ \A i \in 1 .. n - 1 : q[i + 1] = IF q[i] = size THEN 1 ELSE q[i] + 1
  BY DEF Whole
<1> HIDE DEF g, n
<1>3. g[Len(g)] = size
  BY <1>1
<1>4. ASSUME NEW i \in 1 .. Len(g) - 1
      PROVE  g[i + 1] = IF g[i] = size THEN 1 ELSE g[i] + 1
  <2>1. CASE i < n
    <3>1. i \in 1 .. n - 1 /\ i \in 1 .. n /\ i + 1 \in 1 .. n
      BY <1>1, <2>1
    <3> QED BY <1>1, <1>2, <3>1
  <2>2. CASE i = n
    <3>1. n \in 1 .. n /\ n > 0
      BY <1>1, <2>2
    <3>2. g[n] = size
      BY <1>1, <1>2, <3>1
    <3>3. g[n + 1] = 1
      BY <1>1
    <3> QED BY <2>2, <3>2, <3>3
  <2>3. CASE i > n
    <3> DEFINE k == i - n
    <3>1. k \in 1 .. size /\ k + 1 \in 1 .. size /\ n + k = i /\ n + (k + 1) = i + 1
          /\ k # size /\ k \in Nat
      BY <1>1, <2>3
    <3> HIDE DEF k
    <3>2. g[n + k] = k /\ g[n + (k + 1)] = k + 1
      BY <1>1, <3>1
    <3> QED BY <3>1, <3>2
  <2> QED BY <1>1, <2>1, <2>2, <2>3
<1> QED BY <1>3, <1>4 DEF Whole, g

LEMMA OneGrown ==
    ASSUME NEW q \in Seq(0 .. 4), NEW size \in {3, 4}
    PROVE  Grown(q, size) = q \o [i \in 1 .. 1 * size |-> ((i - 1) % size) + 1]
<1> DEFINE g == Grown(q, size)
           n == Len(q)
           u == [i \in 1 .. 1 * size |-> ((i - 1) % size) + 1]
           h == q \o u
<1>1. /\ g \in Seq(0 .. 4) /\ Len(g) = n + size /\ n \in Nat
      /\ \A i \in 1 .. n : g[i] = q[i]
      /\ \A i \in 1 .. size : g[n + i] = i
  <2>1. OneMore(Grown(q, size), q, size)
    BY GrownType
  <2> QED BY <2>1 DEF OneMore
<1>2. \A i \in 1 .. size : u[i] = i
  <2>1. CASE size = 3
    BY <2>1
  <2>2. CASE size = 4
    BY <2>2
  <2> QED BY <2>1, <2>2
<1>3. u \in Seq(Nat) /\ Len(u) = size
  <2>1. 1 * size = size /\ \A i \in 1 .. size : u[i] \in Nat
    BY <1>2
  <2>2. u \in [1 .. size -> Nat]
    BY <2>1
  <2> QED BY <2>2
<1> HIDE DEF g, u
<1>4. h \in Seq(Nat) /\ Len(h) = n + size
      /\ (\A i \in 1 .. n : h[i] = q[i]) /\ \A i \in 1 .. size : h[n + i] = u[i]
  <2>1. q \in Seq(Nat)
    OBVIOUS
  <2> QED BY <1>1, <1>3, <2>1
<1> HIDE DEF h
<1>5. ASSUME NEW i \in 1 .. n + size PROVE g[i] = h[i]
  <2>1. CASE i <= n
    BY <1>1, <1>4, <2>1
  <2>2. CASE i > n
    <3> DEFINE k == i - n
    <3>1. k \in 1 .. size /\ i = n + k
      BY <1>1, <2>2
    <3> HIDE DEF k
    <3> QED BY <1>1, <1>2, <1>4, <3>1
  <2> QED BY <1>1, <2>1, <2>2
<1>6. g = h
  <2>1. g \in Seq(Nat)
    BY <1>1
  <2> QED BY <1>1, <1>4, <1>5, <2>1
<1> QED BY <1>6 DEF g, h, u

LEMMA TwoGrown ==
    ASSUME NEW q \in Seq(0 .. 4), NEW size \in {3, 4}
    PROVE  Grown(Grown(q, size), size) = q \o [i \in 1 .. 2 * size |-> ((i - 1) % size) + 1]
<1> DEFINE p == Grown(q, size)
           g == Grown(p, size)
           n == Len(q)
           u == [i \in 1 .. 2 * size |-> ((i - 1) % size) + 1]
           h == q \o u
<1>0. /\ p \in Seq(0 .. 4) /\ Len(p) = n + size /\ n \in Nat
      /\ \A i \in 1 .. n : p[i] = q[i]
      /\ \A i \in 1 .. size : p[n + i] = i
  <2>1. OneMore(Grown(q, size), q, size)
    BY GrownType
  <2> QED BY <2>1 DEF OneMore
<1> HIDE DEF p
<1>1. /\ g \in Seq(0 .. 4) /\ Len(g) = Len(p) + size
      /\ \A i \in 1 .. Len(p) : g[i] = p[i]
      /\ \A i \in 1 .. size : g[Len(p) + i] = i
  <2>1. OneMore(Grown(p, size), p, size)
    BY <1>0, GrownType
  <2> QED BY <2>1 DEF OneMore
<1>2. /\ \A i \in 1 .. size : u[i] = i
      /\ \A i \in 1 .. size : u[size + i] = i
  <2>1. CASE size = 3
    BY <2>1
  <2>2. CASE size = 4
    BY <2>2
  <2> QED BY <2>1, <2>2
<1>3. u \in Seq(Nat) /\ Len(u) = 2 * size
  <2>1. \A i \in 1 .. 2 * size : ((i - 1) % size) + 1 \in Nat
    OBVIOUS
  <2>2. u \in [1 .. 2 * size -> Nat] /\ 2 * size \in Nat
    BY <2>1
  <2> QED BY <2>2
<1> HIDE DEF g, u
<1>4. h \in Seq(Nat) /\ Len(h) = n + 2 * size
      /\ (\A i \in 1 .. n : h[i] = q[i]) /\ \A i \in 1 .. 2 * size : h[n + i] = u[i]
  <2>1. q \in Seq(Nat)
    OBVIOUS
  <2> QED BY <1>0, <1>3, <2>1
<1> HIDE DEF h
<1>5. ASSUME NEW i \in 1 .. n + 2 * size PROVE g[i] = h[i]
  <2>1. CASE i <= n
    <3>1. i \in 1 .. n /\ i \in 1 .. Len(p)
      BY <1>0, <2>1
    <3> QED BY <1>0, <1>1, <1>4, <3>1
  <2>2. CASE i > n /\ i <= n + size
    <3> DEFINE k == i - n
    <3>1. k \in 1 .. size /\ k \in 1 .. 2 * size /\ i = n + k /\ i \in 1 .. Len(p)
      BY <1>0, <2>2
    <3> HIDE DEF k
    <3> QED BY <1>0, <1>1, <1>2, <1>4, <3>1
  <2>3. CASE i > n + size
    <3> DEFINE k == i - n - size
    <3>1. k \in 1 .. size /\ size + k \in 1 .. 2 * size /\ i = n + (size + k) /\ i = Len(p) + k
      BY <1>0, <2>3
    <3> HIDE DEF k
    <3>2. g[i] = k
      BY <1>1, <3>1
    <3>3. h[i] = u[size + k]
      BY <1>4, <3>1
    <3>4. u[size + k] = k
      BY <1>2, <3>1
    <3> QED BY <3>2, <3>3, <3>4
  <2> QED BY <1>0, <2>1, <2>2, <2>3
<1>6. g = h
  <2>1. g \in Seq(Nat) /\ Len(g) = n + 2 * size
    BY <1>0, <1>1
  <2> QED BY <1>4, <1>5, <2>1
<1> QED BY <1>6 DEF g, h, u, p

\* A report goes in whole or not at all.
MseRing == Ring(MseSize, 0 .. 4)
Bytes(r) == Contents(MseSize, r)

LEMMA BytesType ==
    ASSUME NEW r \in MseRing
    PROVE  Bytes(r) \in Seq(0 .. 4) /\ Len(Bytes(r)) = RingCount(MseSize, r)
           /\ Len(Bytes(r)) \in 0 .. MseSize - 1
<1>1. Contents(MseSize, r) \in Seq(0 .. 4) /\ Len(Contents(MseSize, r)) = RingCount(MseSize, r)
  BY RingSizes, ContentsType DEF MseRing
<1>2. RingCount(MseSize, r) \in 0 .. MseSize - 1
  BY RingSizes, RingCountValue DEF MseRing
<1> QED BY <1>1, <1>2 DEF Bytes

LEMMA AddAppends ==
    ASSUME NEW r \in MseRing, NEW v \in 0 .. 4, Len(Bytes(r)) < MseSize - 1
    PROVE  RingAdd(MseSize, r, v) \in MseRing
           /\ Bytes(RingAdd(MseSize, r, v)) = Append(Bytes(r), v)
           /\ Len(Bytes(RingAdd(MseSize, r, v))) = Len(Bytes(r)) + 1
<1>1. RingAdd(MseSize, r, v) \in MseRing
      /\ Bytes(RingAdd(MseSize, r, v)) = QueueAdd(MseSize, Bytes(r), v)
  BY RingSizes, AddIsQueueAdd DEF MseRing, Bytes
<1>2. Bytes(r) \in Seq(0 .. 4)
  BY BytesType
<1>3. QueueAdd(MseSize, Bytes(r), v) = Append(Bytes(r), v)
  BY DEF QueueAdd
<1> QED BY <1>1, <1>2, <1>3

LEMMA SendGrows ==
    ASSUME NEW r \in MseRing, NEW id \in {0, 3}
    PROVE  /\ mouse_send(r, id) \in MseRing
           /\ IF Len(Bytes(r)) < MseSize - PacketSize(id)
              THEN Bytes(mouse_send(r, id)) = Grown(Bytes(r), PacketSize(id))
              ELSE mouse_send(r, id) = r
<1> DEFINE size == PacketSize(id)
           add(x, v) == RingAdd(MseSize, x, v)
           a == add(r, 1)
           b == add(a, 2)
           c == add(b, 3)
           d == add(c, 4)
<1>1. Len(Bytes(r)) \in Nat /\ MseSize \in Nat /\ Len(Bytes(r)) = RingCount(MseSize, r)
  BY BytesType, SizeAssumption
<1>2. CASE ~ (Len(Bytes(r)) < MseSize - size)
  BY <1>1, <1>2 DEF mouse_send
<1>3. CASE Len(Bytes(r)) < MseSize - size
  <2>1. size \in {3, 4} /\ (size = 4 <=> id = 3)
    BY DEF PacketSize
  <2>2. mouse_send(r, id) = IF id = 3 THEN d ELSE c
    BY <1>1, <1>3 DEF mouse_send, AddReport
  <2> HIDE DEF add
  <2>3. Len(Bytes(r)) + 3 <= MseSize - 1 /\ (id = 3 => Len(Bytes(r)) + 4 <= MseSize - 1)
    BY <1>1, <1>3, <2>1
  <2> HIDE DEF size
  <2>4. a \in MseRing /\ Bytes(a) = Append(Bytes(r), 1) /\ Len(Bytes(a)) = Len(Bytes(r)) + 1
    <3>1. Len(Bytes(r)) < MseSize - 1
      BY <1>1, <2>3
    <3> QED BY <3>1, AddAppends DEF add
  <2> HIDE DEF a
  <2>5. b \in MseRing /\ Bytes(b) = Append(Bytes(a), 2) /\ Len(Bytes(b)) = Len(Bytes(r)) + 2
    <3>1. Len(Bytes(a)) < MseSize - 1 /\ Len(Bytes(a)) + 1 = Len(Bytes(r)) + 2
      BY <1>1, <2>3, <2>4
    <3> QED BY <2>4, <3>1, AddAppends DEF add
  <2> HIDE DEF b
  <2>6. c \in MseRing /\ Bytes(c) = Append(Bytes(b), 3) /\ Len(Bytes(c)) = Len(Bytes(r)) + 3
    <3>1. Len(Bytes(b)) < MseSize - 1 /\ Len(Bytes(b)) + 1 = Len(Bytes(r)) + 3
      BY <1>1, <2>3, <2>5
    <3> QED BY <2>5, <3>1, AddAppends DEF add
  <2> HIDE DEF c
  <2>7. id = 3 => d \in MseRing /\ Bytes(d) = Append(Bytes(c), 4)
    <3>1. id = 3 => Len(Bytes(c)) < MseSize - 1
      BY <1>1, <2>3, <2>6
    <3> QED BY <2>6, <3>1, AddAppends DEF add
  <2>8. Bytes(mouse_send(r, id)) = Grown(Bytes(r), size) /\ mouse_send(r, id) \in MseRing
    <3>1. CASE id = 3
      BY <2>1, <2>2, <2>4, <2>5, <2>6, <2>7, <3>1 DEF Grown
    <3>2. CASE id = 0
      BY <2>1, <2>2, <2>4, <2>5, <2>6, <3>2 DEF Grown
    <3> QED BY <3>1, <3>2
  <2> QED BY <1>3, <2>8 DEF size
<1> QED BY <1>2, <1>3

\* k whole reports behind what was there.
SentMore(r, u, k, size) ==
    /\ Len(Bytes(r)) + k * size <= MseSize - 1
    /\ Bytes(u) = Bytes(r) \o [i \in 1 .. k * size |-> ((i - 1) % size) + 1]
    /\ \A i \in 1 .. Len(Bytes(r)) : Bytes(u)[i] = Bytes(r)[i]
    /\ Bytes(u)[Len(Bytes(r)) + 1] = 1
    /\ Len(Bytes(u)) > Len(Bytes(r))

\* One send or two leave as many whole reports as there was room for.
LEMMA SendsGrow ==
    ASSUME NEW r \in MseRing, NEW id \in {0, 3}, NEW n \in {1, 2}
    PROVE  /\ SendMany(r, id, n) \in MseRing
           /\ Whole(Bytes(r), PacketSize(id)) => Whole(Bytes(SendMany(r, id, n)), PacketSize(id))
           /\ \/ SendMany(r, id, n) = r
              \/ \E k \in {1, 2} : SentMore(r, SendMany(r, id, n), k, PacketSize(id))
<1> DEFINE size == PacketSize(id)
           q == Bytes(r)
           s == mouse_send(r, id)
           t == mouse_send(s, id)
<1>1. size \in {3, 4}
  BY DEF PacketSize
<1>2. s \in MseRing /\ IF Len(q) < MseSize - size THEN Bytes(s) = Grown(q, size) ELSE s = r
  BY SendGrows
<1>3. t \in MseRing /\ IF Len(Bytes(s)) < MseSize - size THEN Bytes(t) = Grown(Bytes(s), size) ELSE t = s
  BY <1>2, SendGrows
<1>4. SendMany(r, id, n) = IF n = 1 THEN s ELSE t
  BY DEF SendMany
<1>5. q \in Seq(0 .. 4) /\ Bytes(s) \in Seq(0 .. 4) /\ Bytes(t) \in Seq(0 .. 4)
      /\ MseSize \in Nat /\ Len(q) \in Nat
  BY <1>2, <1>3, BytesType, SizeAssumption
<1> DEFINE u == SendMany(r, id, n)
           Sent(k, x) == /\ Len(q) + k * size <= MseSize - 1
                         /\ Bytes(x) = q \o [i \in 1 .. k * size |-> ((i - 1) % size) + 1]
                         /\ \A i \in 1 .. Len(q) : Bytes(x)[i] = q[i]
                         /\ Bytes(x)[Len(q) + 1] = 1
                         /\ Len(Bytes(x)) > Len(q)
<1> HIDE DEF size, q, s, t
<1>6. s = r \/ (Sent(1, s) /\ Bytes(s) = Grown(q, size))
  <2> SUFFICES ASSUME Len(q) < MseSize - size PROVE Sent(1, s) /\ Bytes(s) = Grown(q, size)
    BY <1>2
  <2>1. Bytes(s) = Grown(q, size) /\ OneMore(Grown(q, size), q, size)
    BY <1>1, <1>2, <1>5, GrownType
  <2>2. Bytes(s) = q \o [i \in 1 .. 1 * size |-> ((i - 1) % size) + 1]
    BY <1>1, <1>5, <2>1, OneGrown
  <2>3. Len(q) + 1 * size <= MseSize - 1
    BY <1>1, <1>5
  <2>4. 1 \in 1 .. size
    BY <1>1
  <2>5. Bytes(s)[Len(q) + 1] = 1 /\ (\A i \in 1 .. Len(q) : Bytes(s)[i] = q[i])
        /\ Len(Bytes(s)) > Len(q)
    BY <1>1, <1>5, <2>1, <2>4 DEF OneMore
  <2> QED BY <2>1, <2>2, <2>3, <2>5
<1>7. t = r \/ Sent(1, t) \/ Sent(2, t)
  <2>1. CASE t = s
    BY <1>6, <2>1
  <2>2. CASE s = r /\ t # s
    <3>1. Bytes(s) = q
      BY <2>2 DEF q
    <3>2. Len(q) < MseSize - size
      BY <1>3, <2>2, <3>1
    <3>3. OneMore(q, q, size)
      BY <1>1, <1>2, <1>5, <3>1, <3>2, GrownType
    <3>4. FALSE
      BY <1>1, <1>5, <3>3 DEF OneMore
    <3> QED BY <3>4
  <2>3. CASE Bytes(s) = Grown(q, size) /\ t # s
    <3>0. Len(Bytes(s)) < MseSize - size /\ Bytes(t) = Grown(Bytes(s), size)
      BY <1>3, <2>3
    <3>1. OneMore(Bytes(s), q, size) /\ OneMore(Bytes(t), Bytes(s), size)
      BY <1>1, <1>5, <2>3, <3>0, GrownType
    <3>2. Bytes(t) = q \o [i \in 1 .. 2 * size |-> ((i - 1) % size) + 1]
      BY <1>1, <1>5, <2>3, <3>0, TwoGrown
    <3>3. Len(q) + 2 * size <= MseSize - 1 /\ Len(Bytes(t)) > Len(q) /\ Len(q) + 1 \in 1 .. Len(Bytes(s))
          /\ Len(Bytes(s)) = Len(q) + size
      BY <1>1, <1>5, <3>0, <3>1 DEF OneMore
    <3>4. \A i \in 1 .. Len(q) : Bytes(t)[i] = q[i]
      <4> SUFFICES ASSUME NEW i \in 1 .. Len(q) PROVE Bytes(t)[i] = q[i]
        OBVIOUS
      <4>1. i \in 1 .. Len(Bytes(s))
        BY <1>1, <1>5, <3>3
      <4> QED BY <3>1, <4>1 DEF OneMore
    <3>5. Bytes(t)[Len(q) + 1] = 1
      <4>1. 1 \in 1 .. size
        BY <1>1
      <4>2. Bytes(s)[Len(q) + 1] = 1
        BY <3>1, <4>1 DEF OneMore
      <4>3. Bytes(t)[Len(q) + 1] = Bytes(s)[Len(q) + 1]
        BY <3>1, <3>3 DEF OneMore
      <4> QED BY <4>2, <4>3
    <3> QED BY <3>2, <3>3, <3>4, <3>5
  <2> QED BY <1>6, <2>1, <2>2, <2>3
<1> HIDE DEF Sent
<1>8. Whole(q, size) => Whole(Bytes(u), size)
  <2> SUFFICES ASSUME Whole(q, size) PROVE Whole(Bytes(s), size) /\ Whole(Bytes(t), size)
    BY <1>4
  <2>1. Whole(Bytes(s), size)
    BY <1>1, <1>2, <1>5, GrownWhole DEF q
  <2> QED BY <1>1, <1>3, <1>5, <2>1, GrownWhole
<1>9. u \in MseRing /\ (u = r \/ \E k \in {1, 2} : Sent(k, u))
  BY <1>2, <1>3, <1>4, <1>6, <1>7
<1> QED BY <1>8, <1>9 DEF u, Sent, SentMore, q, size

-----------------------------------------------------------------------------
(* The SMC's registers *)

LEMMA SmcFields ==
    ASSUME NEW s \in SmcType
    PROVE  /\ s.op \in 0 .. 255 /\ s.arg \in 0 .. 255 /\ s.pos \in 0 .. 2 /\ s.read_op \in 0 .. 255
           /\ s.read_state \in 0 .. 1 /\ s.mse_count \in 0 .. CountSize - 1
           /\ s.long_press \in BOOLEAN /\ s.led \in {0, 255} /\ s.reset \in BOOLEAN
BY DEF SmcType

LEMMA DoneType ==
    ASSUME NEW s \in SmcType
    PROVE  /\ Done(s) \in SmcType /\ Done(s).mse_count = s.mse_count /\ Done(s).pos = 0
           /\ Done(s).op = Done(s).read_op /\ Done(s).reset = s.reset
<1>1. s.read_op \in 0 .. 255 /\ 0 \in 0 .. 2
  BY SmcFields
<1>2. Done(s) = [s EXCEPT !.op = s.read_op, !.pos = 0]
  BY DEF Done
<1>3. [s EXCEPT !.op = s.read_op, !.pos = 0] \in SmcType
  BY <1>1, Zenon DEF SmcType
<1>4. [s EXCEPT !.op = s.read_op, !.pos = 0].mse_count = s.mse_count
      /\ [s EXCEPT !.op = s.read_op, !.pos = 0].pos = 0
      /\ [s EXCEPT !.op = s.read_op, !.pos = 0].op = s.read_op
      /\ [s EXCEPT !.op = s.read_op, !.pos = 0].read_op = s.read_op
      /\ [s EXCEPT !.op = s.read_op, !.pos = 0].reset = s.reset
  BY DEF SmcType
<1> QED BY <1>2, <1>3, <1>4

LEMMA DataType ==
    ASSUME NEW s \in SmcType, NEW v \in 0 .. 255
    PROVE  /\ smc_i2c_data(s, v) \in SmcType
           /\ smc_i2c_data(s, v).mse_count = s.mse_count
           /\ smc_i2c_data(s, v).reset = s.reset
           /\ s.pos = 0 => smc_i2c_data(s, v).op = v /\ smc_i2c_data(s, v).pos = 1
           /\ s.pos = 1 => smc_i2c_data(s, v).op = s.op /\ smc_i2c_data(s, v).arg = v
<1> DEFINE op == IF s.pos = 0 THEN v ELSE s.op
           arg == IF s.pos = 1 THEN v ELSE s.arg
           pos == Least(s.pos + 1, 2)
           d == [s EXCEPT !.op = op, !.arg = arg, !.pos = pos]
<1>1. smc_i2c_data(s, v) = d
  BY DEF smc_i2c_data
<1>2. op \in 0 .. 255 /\ arg \in 0 .. 255 /\ pos \in 0 .. 2
  BY SmcFields DEF Least
<1>3. s.pos = 0 => op = v /\ pos = 1
  BY DEF Least
<1>4. s.pos = 1 => op = s.op /\ arg = v
  OBVIOUS
<1> HIDE DEF op, arg, pos
<1>5. d \in SmcType /\ d.mse_count = s.mse_count /\ d.op = op /\ d.arg = arg /\ d.pos = pos
      /\ d.reset = s.reset
  BY <1>2 DEF SmcType
<1> HIDE DEF d
<1> QED BY <1>1, <1>3, <1>4, <1>5

\* What a write leaves in the registers.
LEMMA WriteType ==
    ASSUME NEW s \in SmcType, smc_write(s)
    PROVE  /\ smc' \in SmcType /\ smc'.mse_count = s.mse_count
           /\ smc'.pos = 0 /\ smc'.op = smc'.read_op
           /\ power' \in BOOLEAN
<1> DEFINE reset == s.reset \/ (s.op = CmdPower /\ s.arg = 1) \/ (s.op = CmdReset /\ s.arg = 0)
           led == IF s.op = CmdLed THEN (IF s.arg >= 128 THEN 255 ELSE 0) ELSE s.led
           read_op == IF s.op = CmdReadOp THEN s.arg ELSE s.read_op
           read_state == IF s.op = CmdReadOp THEN 0 ELSE s.read_state
           w == [s EXCEPT !.reset = reset, !.led = led, !.read_op = read_op,
                          !.read_state = read_state]
<1>1. smc' = Done(w) /\ power' = ~ (s.op = CmdPower /\ s.arg = 0)
  BY DEF smc_write
<1>2. reset \in BOOLEAN
  BY SmcFields, Zenon
<1>3. led \in {0, 255} /\ read_op \in 0 .. 255 /\ read_state \in 0 .. 1
  BY SmcFields
<1>4. power' \in BOOLEAN
  BY <1>1, Zenon
<1> HIDE DEF reset, led, read_op, read_state
<1>5. w \in SmcType /\ w.mse_count = s.mse_count
  <2>1. w \in SmcType
    BY <1>2, <1>3, ZenonT(60) DEF SmcType
  <2> QED BY <2>1 DEF SmcType
<1> HIDE DEF w
<1>6. /\ Done(w) \in SmcType /\ Done(w).mse_count = w.mse_count
      /\ Done(w).pos = 0 /\ Done(w).op = Done(w).read_op
  BY <1>5, DoneType
<1> QED BY <1>1, <1>4, <1>5, <1>6

\* A read ends the operation and asks for no reset.
ReadDone == smc'.pos = 0 /\ smc'.op = smc'.read_op /\ smc'.reset = smc.reset

LEMMA ReadType ==
    ASSUME smc \in SmcType, kbd \in Ring(KbdSize, 0 .. 255), mse \in MseRing,
           mouse.id \in {0, 3}, smc_read
    PROVE  /\ smc' \in SmcType /\ kbd' \in Ring(KbdSize, 0 .. 255) /\ mse' \in MseRing
           /\ ReadDone
<1>0. smc.mse_count \in 0 .. CountSize - 1 /\ CountSize \in Nat /\ CountSize > 4
      /\ smc.read_state \in 0 .. 1
  BY SizeAssumption, SmcFields
<1>1. ASSUME NEW state \in 0 .. 1, smc_read_key(state), UNCHANGED mse
      PROVE  smc' \in SmcType /\ kbd' \in Ring(KbdSize, 0 .. 255) /\ mse' \in MseRing /\ ReadDone
  <2>1. kbd' \in Ring(KbdSize, 0 .. 255)
    <3>1. RingNext(KbdSize, kbd) \in Ring(KbdSize, 0 .. 255)
      BY RingSizes, NextIsQueueNext
    <3> QED BY <1>1, <3>1 DEF smc_read_key
  <2>2. [smc EXCEPT !.read_state = state] \in SmcType
    BY DEF SmcType
  <2>3. [smc EXCEPT !.read_state = state].reset = smc.reset
    BY DEF SmcType
  <2>4. smc' \in SmcType /\ ReadDone
    BY <1>1, <2>2, <2>3, DoneType DEF smc_read_key, ReadDone
  <2> QED BY <1>1, <2>1, <2>4
<1>2. ASSUME smc_read_mouse, UNCHANGED kbd
      PROVE  smc' \in SmcType /\ kbd' \in Ring(KbdSize, 0 .. 255) /\ mse' \in MseRing /\ ReadDone
  <2> DEFINE count == NextCount(PacketSize(mouse.id))
             state == IF smc.mse_count > 0 /\ (smc.mse_count + 1) % CountSize = PacketSize(mouse.id)
                      THEN 0 ELSE smc.read_state
             w == [smc EXCEPT !.mse_count = count, !.read_state = state]
             z == [smc EXCEPT !.mse_count = 0, !.read_state = 0]
  <2>1. count \in 0 .. CountSize - 1
    <3>1. (smc.mse_count + 1) % CountSize \in 0 .. CountSize - 1 /\ 0 \in 0 .. CountSize - 1
      BY <1>0
    <3> QED BY <3>1 DEF NextCount
  <2>2. state \in 0 .. 1
    BY <1>0
  <2>3. (smc' = Done(w) /\ mse' = RingNext(MseSize, mse)) \/ (smc' = Done(z) /\ mse' = mse)
    BY <1>2 DEF smc_read_mouse
  <2> HIDE DEF count, state
  <2>4. w \in SmcType /\ z \in SmcType
    <3>1. 0 \in 0 .. CountSize - 1 /\ 0 \in 0 .. 1
      BY <1>0
    <3> QED BY <2>1, <2>2, <3>1, ZenonT(60) DEF SmcType
  <2>7. w.reset = smc.reset /\ z.reset = smc.reset
    BY DEF SmcType
  <2> HIDE DEF w, z
  <2>5. smc' \in SmcType /\ ReadDone
    BY <2>3, <2>4, <2>7, DoneType DEF ReadDone
  <2>6. mse' \in MseRing
    <3>1. RingNext(MseSize, mse) \in MseRing
      BY RingSizes, NextIsQueueNext DEF MseRing
    <3> QED BY <2>3, <3>1
  <2> QED BY <1>2, <2>5, <2>6
<1>3. ASSUME smc.op \notin OffMouse \cup {OffKeyMouse, OffKeyOnly, OffKey},
             smc' = Done([smc EXCEPT !.long_press = IF smc.op = OffPower THEN FALSE ELSE @]),
             UNCHANGED <<kbd, mse>>
      PROVE  smc' \in SmcType /\ kbd' \in Ring(KbdSize, 0 .. 255) /\ mse' \in MseRing /\ ReadDone
  <2> DEFINE long == IF smc.op = OffPower THEN FALSE ELSE smc.long_press
  <2>1. long \in BOOLEAN
    BY SmcFields, Zenon
  <2>2. smc' = Done([smc EXCEPT !.long_press = long])
    BY <1>3
  <2> HIDE DEF long
  <2>3. [smc EXCEPT !.long_press = long] \in SmcType
        /\ [smc EXCEPT !.long_press = long].reset = smc.reset
    BY <2>1 DEF SmcType
  <2> QED BY <1>3, <2>2, <2>3, DoneType DEF ReadDone
<1> QED BY <1>0, <1>1, <1>2, <1>3 DEF smc_read

-----------------------------------------------------------------------------
(* The inductive invariant: types, the reader in step with the ring, and the  *)
(* SMC's bytes and their position in step with what a polite guest has sent:  *)
(* every operation leaves the position at 0 and the default offset in place,  *)
(* and between operations only an offset can have been sent.                  *)
PositionInStep ==
    polite => /\ IF OffsetSent THEN trans = <<smc.op>> /\ smc.pos = 1
                 ELSE smc.pos = 0 /\ smc.op \in {smc.read_op, 0}
              /\ bus = "write" => trans = <<>>
              /\ bus = "value" => trans # <<>>
              /\ smc.reset => ~ OffsetSent

SmcInv == TypeOK /\ ReaderInStep /\ PositionInStep

\* Which byte of a report the reader expects at the front of the ring.
Front(q, count) == IF count = 0 THEN q # <<>> => q[1] = 1 ELSE q # <<>> /\ q[1] = count + 1

LEMMA InStep ==
    /\ ReaderInStep <=> /\ Whole(Bytes(mse), PacketSize(mouse.id))
                        /\ ~ torn => Front(Bytes(mse), smc.mse_count)
    /\ ReaderInStep' <=> /\ Whole(Bytes(mse'), PacketSize(mouse'.id))
                         /\ ~ torn' => Front(Bytes(mse'), smc'.mse_count)
BY DEF ReaderInStep, WholeReports, Reports, Whole, Front, Bytes

\* The reader takes the byte it expects, and expects the next.
LEMMA ReadInStep ==
    ASSUME NEW q \in Seq(0 .. 4), NEW size \in {3, 4}, NEW count \in 0 .. CountSize - 1,
           Whole(q, size), Front(q, count), count > 0 \/ Len(q) >= size
    PROVE  LET next == (count + 1) % CountSize
           IN  Front(QueueNext(q), IF count > 0 /\ next = size THEN 0 ELSE next)
<1> DEFINE next == (count + 1) % CountSize
           n == Len(q)
<1>0. CountSize \in Nat /\ CountSize > 4 /\ n \in Nat /\ count \in Nat
  BY SizeAssumption
<1>1. q # <<>> /\ q[1] = count + 1 /\ n > 0
  BY <1>0 DEF Front
<1>2. q[1] \in 0 .. 4 /\ next = count + 1
  <2>1. q[1] \in 0 .. 4
    BY <1>0, <1>1
  <2> QED BY <1>0, <1>1, <2>1
<1> HIDE DEF next
<1>3. QueueNext(q) = Tail(q) /\ Len(Tail(q)) = n - 1 /\ Tail(q) \in Seq(0 .. 4)
      /\ \A i \in 1 .. n - 1 : Tail(q)[i] = q[i + 1]
  BY <1>1 DEF QueueNext
<1>4. q[n] = size
  BY <1>1 DEF Whole
<1>5. n > 1 => q[2] = IF q[1] = size THEN 1 ELSE q[1] + 1
  <2> SUFFICES ASSUME n > 1 PROVE q[2] = IF q[1] = size THEN 1 ELSE q[1] + 1
    OBVIOUS
  <2>1. 1 \in 1 .. n - 1 /\ 1 + 1 = 2
    BY <1>0
  <2>2. q[1 + 1] = IF q[1] = size THEN 1 ELSE q[1] + 1
    BY <2>1 DEF Whole, n
  <2> QED BY <2>1, <2>2
<1>6. n > 1 => Tail(q) # <<>> /\ Tail(q)[1] = q[2]
  BY <1>0, <1>3
<1>7. CASE next = size
  <2>1. count > 0
    BY <1>0, <1>2, <1>7
  <2>2. Tail(q) # <<>> => Tail(q)[1] = 1
    <3> SUFFICES ASSUME Tail(q) # <<>> PROVE Tail(q)[1] = 1
      OBVIOUS
    <3>1. n > 1
      BY <1>0, <1>1, <1>3
    <3> QED BY <1>1, <1>2, <1>5, <1>6, <1>7, <3>1
  <2> QED BY <1>3, <1>7, <2>1, <2>2 DEF Front, next
<1>8. CASE next # size
  <2>1. n > 1
    BY <1>0, <1>1, <1>2, <1>4, <1>8
  <2>2. q[2] = q[1] + 1
    BY <1>1, <1>2, <1>5, <1>8, <2>1
  <2>3. Tail(q) # <<>> /\ Tail(q)[1] = next + 1 /\ next # 0
    BY <1>0, <1>1, <1>2, <1>6, <2>1, <2>2
  <2> QED BY <1>3, <1>8, <2>3 DEF Front, next
<1> QED BY <1>7, <1>8

\* Taking the first byte leaves whole reports, and adding some leaves the front.
LEMMA WholeNext ==
    ASSUME NEW q \in Seq(0 .. 4), NEW size \in {3, 4}, Whole(q, size)
    PROVE  Whole(QueueNext(q), size)
<1>1. CASE q = <<>>
  BY <1>1 DEF QueueNext
<1>2. CASE q # <<>>
  <2> DEFINE t == Tail(q)
             n == Len(q)
  <2>1. QueueNext(q) = t /\ Len(t) = n - 1 /\ t \in Seq(0 .. 4) /\ n \in Nat /\ n > 0
        /\ \A i \in 1 .. n - 1 : t[i] = q[i + 1]
    BY <1>2 DEF QueueNext
  <2>2. q[n] = size /\ \A i \in 1 .. n - 1 : q[i + 1] = IF q[i] = size THEN 1 ELSE q[i] + 1
    BY <1>2 DEF Whole
  <2> HIDE DEF t, n
  <2>3. t # <<>> => t[Len(t)] = size
    <3> SUFFICES ASSUME t # <<>> PROVE t[n - 1] = size
      BY <2>1
    <3>1. n - 1 \in 1 .. n - 1
      BY <2>1
    <3> QED BY <2>1, <2>2, <3>1
  <2>4. ASSUME NEW i \in 1 .. Len(t) - 1
        PROVE  t[i + 1] = IF t[i] = size THEN 1 ELSE t[i] + 1
    <3>1. i \in 1 .. n - 1 /\ i + 1 \in 1 .. n - 1
      BY <2>1
    <3> QED BY <2>1, <2>2, <3>1
  <2> QED BY <2>1, <2>3, <2>4 DEF Whole
<1> QED BY <1>1, <1>2

\* The ring's end of a step, put together.
LEMMA RingKept ==
    ASSUME SmcInv, mse' = mse, mouse'.id = mouse.id, smc'.mse_count = smc.mse_count, torn' = torn
    PROVE  ReaderInStep'
<1>1. ReaderInStep
  BY DEF SmcInv
<1> QED BY <1>1, InStep

LEMMA RingFlushed ==
    ASSUME mse \in MseRing, mse' = RingFlush(mse), NEW count \in 0 .. CountSize - 1,
           smc'.mse_count = count, torn' = (count > 0)
    PROVE  mse' \in MseRing /\ ReaderInStep'
<1>1. mse' \in MseRing /\ Bytes(mse') = <<>>
  BY RingSizes, FlushIsEmpty DEF MseRing, Bytes
<1>2. Whole(Bytes(mse'), PacketSize(mouse'.id))
  BY <1>1 DEF Whole
<1>3. ~ torn' => count = 0
  <2>1. CountSize \in Nat
    BY SizeAssumption
  <2>2. ~ (count > 0) => count = 0
    BY <2>1
  <2> QED BY <2>2, Zenon
<1>4. ~ torn' => Front(Bytes(mse'), smc'.mse_count)
  BY <1>1, <1>3 DEF Front
<1> QED BY <1>1, <1>2, <1>4, InStep

-----------------------------------------------------------------------------
(* Every step keeps it. *)

LEMMA SmcInit == Init => SmcInv
<1> SUFFICES ASSUME Init PROVE SmcInv
  OBVIOUS
<1>1. kbd \in Ring(KbdSize, 0 .. 255)
  BY RingSizes, EmptyIsEmpty DEF Init
<1>2. mse \in MseRing /\ Bytes(mse) = <<>>
  BY RingSizes, EmptyIsEmpty DEF Init, MseRing, Bytes
<1>3. mouse \in [id : {0, 3}, dx : 0 .. MaxSends, dy : 0 .. MaxSends]
  BY SendAssumption DEF Init
<1>4. smc \in SmcType /\ smc.mse_count = 0 /\ smc.pos = 0 /\ smc.op = 0 /\ smc.reset = FALSE
  <2>1. PICK long \in BOOLEAN :
             smc = [op |-> 0, arg |-> 0, pos |-> 0, read_op |-> OffKeyOnly,
                    read_state |-> 0, mse_count |-> 0, long_press |-> long,
                    led |-> 0, reset |-> FALSE]
    BY SendAssumption DEF Init
  <2>2. 0 \in 0 .. 255 /\ OffKeyOnly \in 0 .. 255 /\ 0 \in 0 .. 2 /\ 0 \in 0 .. 1
        /\ 0 \in 0 .. CountSize - 1 /\ 0 \in {0, 255} /\ FALSE \in BOOLEAN
    BY SizeAssumption DEF OffKeyOnly
  <2>3. smc \in SmcType
    BY <2>1, <2>2, ZenonT(60) DEF SmcType
  <2> QED BY <2>1, <2>3
<1>5. trans \in Seq(0 .. 255) /\ Len(trans) = 0 /\ bus = "stop"
      /\ power \in BOOLEAN /\ polite \in BOOLEAN /\ torn \in BOOLEAN
  <2>1. trans \in Seq(0 .. 255) /\ Len(trans) = 0 /\ bus = "stop"
    BY DEF Init
  <2>2. power \in BOOLEAN /\ polite \in BOOLEAN /\ torn \in BOOLEAN
    BY Zenon DEF Init
  <2> QED BY <2>1, <2>2
<1>6. ReaderInStep
  BY <1>2, <1>4, InStep DEF Whole, Front
<1>7. TypeOK
  BY <1>1, <1>2, <1>3, <1>4, <1>5 DEF TypeOK, MseRing
<1>8. PositionInStep
  BY <1>4, <1>5 DEF PositionInStep, OffsetSent
<1> QED BY <1>6, <1>7, <1>8 DEF SmcInv

LEMMA HostKeyKeeps ==
    ASSUME SmcInv, UNCHANGED polite, NEW code \in Codes, HostKey(code)
    PROVE  SmcInv'
<1>1. kbd' \in Ring(KbdSize, 0 .. 255)
  <2>1. code \in 0 .. 255 /\ kbd \in Ring(KbdSize, 0 .. 255)
    BY KeyAssumption DEF SmcInv, TypeOK
  <2>2. RingAdd(KbdSize, kbd, code) \in Ring(KbdSize, 0 .. 255)
    BY <2>1, RingSizes, AddIsQueueAdd
  <2> QED BY <2>2 DEF HostKey
<1>2. TypeOK'
  BY <1>1 DEF HostKey, SmcInv, TypeOK
<1>3. ReaderInStep'
  BY RingKept DEF HostKey
<1>4. PositionInStep'
  BY DEF HostKey, SmcInv, PositionInStep, OffsetSent
<1> QED BY <1>2, <1>3, <1>4 DEF SmcInv

LEMMA Fields ==
    ASSUME SmcInv
    PROVE  /\ kbd \in Ring(KbdSize, 0 .. 255) /\ mse \in MseRing
           /\ mouse \in [id : {0, 3}, dx : 0 .. MaxSends, dy : 0 .. MaxSends]
           /\ mouse.id \in {0, 3} /\ mouse.dx \in 0 .. MaxSends /\ mouse.dy \in 0 .. MaxSends
           /\ smc \in SmcType /\ smc.mse_count \in 0 .. CountSize - 1
           /\ bus \in {"stop", "write", "value", "read"}
           /\ power \in BOOLEAN /\ polite \in BOOLEAN /\ torn \in BOOLEAN
           /\ trans \in Seq(0 .. 255)
           /\ Whole(Bytes(mse), PacketSize(mouse.id))
           /\ ~ torn => Front(Bytes(mse), smc.mse_count)
<1>1. /\ kbd \in Ring(KbdSize, 0 .. 255) /\ mse \in MseRing
      /\ mouse \in [id : {0, 3}, dx : 0 .. MaxSends, dy : 0 .. MaxSends]
      /\ smc \in SmcType
      /\ bus \in {"stop", "write", "value", "read"}
      /\ power \in BOOLEAN /\ polite \in BOOLEAN /\ torn \in BOOLEAN
  BY DEF SmcInv, TypeOK, MseRing
<1>2. mouse.id \in {0, 3} /\ mouse.dx \in 0 .. MaxSends /\ mouse.dy \in 0 .. MaxSends
  BY <1>1
<1>3. smc.mse_count \in 0 .. CountSize - 1
  BY <1>1, SmcFields
<1>4. trans \in Seq(0 .. 255)
  BY DEF SmcInv, TypeOK
<1>5. Whole(Bytes(mse), PacketSize(mouse.id)) /\ (~ torn => Front(Bytes(mse), smc.mse_count))
  BY InStep DEF SmcInv
<1> QED BY <1>1, <1>2, <1>3, <1>4, <1>5

\* A batch of the host's mouse events sends once or twice.
LEMMA MouseSends ==
    ASSUME SmcInv, NEW mx \in 0 .. MaxSends, NEW my \in 0 .. MaxSends, HostMouse(mx, my)
    PROVE  /\ \E n \in {1, 2} : mse' = SendMany(mse, mouse.id, n)
           /\ mouse' \in [id : {0, 3}, dx : 0 .. MaxSends, dy : 0 .. MaxSends]
           /\ mouse'.id = mouse.id
<1> DEFINE dx == Least(mouse.dx + mx, MaxSends)
           dy == Least(mouse.dy + my, MaxSends)
           n == AtLeastOne(Least(dx, dy))
           ex == dx - Least(dx, n)
           ey == dy - Least(dy, n)
<1>1. mouse.dx \in 0 .. MaxSends /\ mouse.dy \in 0 .. MaxSends /\ MaxSends \in 0 .. 2
      /\ mouse \in [id : {0, 3}, dx : 0 .. MaxSends, dy : 0 .. MaxSends]
  BY Fields, SendAssumption
<1>2. dx \in 0 .. MaxSends /\ dy \in 0 .. MaxSends
  BY <1>1 DEF Least
<1>3. mse' = SendMany(mse, mouse.id, n) /\ mouse' = [mouse EXCEPT !.dx = ex, !.dy = ey]
  BY DEF HostMouse, mouse_send_state
<1> HIDE DEF dx, dy
<1>4. n \in {1, 2}
  BY <1>1, <1>2 DEF AtLeastOne, Least
<1>5. ex \in 0 .. MaxSends /\ ey \in 0 .. MaxSends
  BY <1>1, <1>2, <1>4 DEF Least
<1> HIDE DEF n, ex, ey
<1>6. mouse' \in [id : {0, 3}, dx : 0 .. MaxSends, dy : 0 .. MaxSends] /\ mouse'.id = mouse.id
  BY <1>1, <1>3, <1>5
<1> QED BY <1>3, <1>4, <1>6

LEMMA HostMouseKeeps ==
    ASSUME SmcInv, UNCHANGED polite, NEW mx \in 0 .. MaxSends, NEW my \in 0 .. MaxSends,
           HostMouse(mx, my)
    PROVE  SmcInv'
<1>1. /\ mouse' \in [id : {0, 3}, dx : 0 .. MaxSends, dy : 0 .. MaxSends]
      /\ mouse'.id = mouse.id
  BY MouseSends
<1>2. PICK n \in {1, 2} : mse' = SendMany(mse, mouse.id, n)
  BY MouseSends
<1>3. UNCHANGED <<kbd, smc, bus, power, trans, torn>>
  BY DEF HostMouse
<1>4. mse \in MseRing /\ mouse.id \in {0, 3} /\ Whole(Bytes(mse), PacketSize(mouse.id))
      /\ (~ torn => Front(Bytes(mse), smc.mse_count))
  BY Fields
<1>5. /\ mse' \in MseRing
      /\ Whole(Bytes(mse'), PacketSize(mouse.id))
      /\ \/ mse' = mse
         \/ /\ \A i \in 1 .. Len(Bytes(mse)) : Bytes(mse')[i] = Bytes(mse)[i]
            /\ Bytes(mse')[Len(Bytes(mse)) + 1] = 1
            /\ Len(Bytes(mse')) > Len(Bytes(mse))
  <2>1. /\ SendMany(mse, mouse.id, n) \in MseRing
        /\ Whole(Bytes(SendMany(mse, mouse.id, n)), PacketSize(mouse.id))
        /\ \/ SendMany(mse, mouse.id, n) = mse
           \/ \E k \in {1, 2} : SentMore(mse, SendMany(mse, mouse.id, n), k, PacketSize(mouse.id))
    BY <1>4, SendsGrow
  <2>2. /\ mse' \in MseRing /\ Whole(Bytes(mse'), PacketSize(mouse.id))
        /\ (mse' = mse \/ \E k \in {1, 2} : SentMore(mse, mse', k, PacketSize(mouse.id)))
    BY <1>2, <2>1
  <2>3. ASSUME NEW k \in {1, 2}, SentMore(mse, mse', k, PacketSize(mouse.id))
        PROVE  /\ \A i \in 1 .. Len(Bytes(mse)) : Bytes(mse')[i] = Bytes(mse)[i]
               /\ Bytes(mse')[Len(Bytes(mse)) + 1] = 1
               /\ Len(Bytes(mse')) > Len(Bytes(mse))
    BY <2>3 DEF SentMore
  <2> QED BY <2>2, <2>3
<1>6. ~ torn => Front(Bytes(mse'), smc.mse_count)
  <2> SUFFICES ASSUME ~ torn, mse' # mse PROVE Front(Bytes(mse'), smc.mse_count)
    BY <1>4
  <2>1. Bytes(mse) \in Seq(0 .. 4) /\ Bytes(mse') \in Seq(0 .. 4)
    BY <1>4, <1>5, BytesType
  <2>2. CASE Bytes(mse) = <<>>
    BY <1>4, <1>5, <2>1, <2>2 DEF Front
  <2>3. CASE Bytes(mse) # <<>>
    <3>1. Len(Bytes(mse)) > 0 /\ Bytes(mse')[1] = Bytes(mse)[1] /\ Bytes(mse') # <<>>
      BY <1>5, <2>1, <2>3
    <3> QED BY <1>4, <2>3, <3>1 DEF Front
  <2> QED BY <2>2, <2>3
<1>7. TypeOK'
  BY <1>1, <1>3, <1>5 DEF SmcInv, TypeOK, MseRing
<1>8. ReaderInStep'
  BY <1>1, <1>3, <1>5, <1>6, InStep
<1>9. PositionInStep'
  BY <1>3 DEF SmcInv, PositionInStep, OffsetSent
<1> QED BY <1>7, <1>8, <1>9 DEF SmcInv

LEMMA MachineResetKeeps ==
    ASSUME SmcInv, UNCHANGED polite, NEW fromHost \in BOOLEAN, MachineReset(fromHost)
    PROVE  SmcInv'
<1>1. kbd' \in Ring(KbdSize, 0 .. 255)
  BY Fields, RingSizes, FlushIsEmpty DEF MachineReset
<1>2. smc' \in SmcType /\ smc'.mse_count = smc.mse_count
  <2>1. smc \in SmcType /\ FALSE \in BOOLEAN /\ smc' = [smc EXCEPT !.reset = FALSE]
    BY Fields DEF MachineReset
  <2>2. smc' \in SmcType
    BY <2>1, ZenonT(60) DEF SmcType
  <2> QED BY <2>1, <2>2 DEF SmcType
<1>3. smc.mse_count \in 0 .. CountSize - 1 /\ mse \in MseRing
  BY Fields
<1>4. mse' = RingFlush(mse) /\ torn' = (smc.mse_count > 0) /\ torn' \in BOOLEAN
  BY DEF MachineReset
<1>5. mse' \in MseRing /\ ReaderInStep'
  BY <1>2, <1>3, <1>4, RingFlushed
<1>6. bus' = "stop" /\ trans' = <<>> /\ UNCHANGED <<mouse, power, polite>>
  BY DEF MachineReset
<1>7. TypeOK'
  BY <1>1, <1>2, <1>4, <1>5, <1>6 DEF SmcInv, TypeOK, MseRing
<1>8. PositionInStep'
  <2> SUFFICES ASSUME polite PROVE smc'.pos = 0 /\ smc'.op \in {smc'.read_op, 0}
    BY <1>6 DEF PositionInStep, OffsetSent
  <2>1. ~ OffsetSent
    BY DEF MachineReset, SmcInv, PositionInStep
  <2>2. smc.pos = 0 /\ smc.op \in {smc.read_op, 0}
    BY <2>1 DEF SmcInv, PositionInStep
  <2>3. smc'.pos = smc.pos /\ smc'.op = smc.op /\ smc'.read_op = smc.read_op
    BY Fields DEF MachineReset, SmcType
  <2> QED BY <2>2, <2>3
<1> QED BY <1>5, <1>7, <1>8 DEF SmcInv

LEMMA GuestAddressKeeps ==
    ASSUME SmcInv, UNCHANGED polite, NEW mode \in {"write", "read"}, GuestAddress(mode)
    PROVE  SmcInv'
<1>1. UNCHANGED <<kbd, mse, mouse, smc, power, torn, polite>> /\ bus' = mode
      /\ trans' = IF mode = "write" THEN <<>> ELSE trans
  BY DEF GuestAddress
<1>5. trans' \in Seq(0 .. 255) /\ Len(trans') <= 2
  BY <1>1 DEF SmcInv, TypeOK
<1>2. TypeOK'
  BY <1>1, <1>5 DEF SmcInv, TypeOK
<1>3. ReaderInStep'
  BY <1>1, RingKept
<1>4. PositionInStep'
  <2>1. CASE mode = "read"
    BY <1>1, <2>1 DEF SmcInv, PositionInStep, OffsetSent
  <2>2. CASE mode = "write"
    <3>1. polite => ~ OffsetSent
      BY <2>2 DEF GuestAddress
    <3> QED BY <1>1, <2>2, <3>1 DEF SmcInv, PositionInStep, OffsetSent
  <2> QED BY <2>1, <2>2
<1> QED BY <1>2, <1>3, <1>4 DEF SmcInv

LEMMA GuestStopKeeps ==
    ASSUME SmcInv, UNCHANGED polite, GuestStop
    PROVE  SmcInv'
<1>1. UNCHANGED <<kbd, mse, mouse, smc, power, torn, polite, trans>> /\ bus' = "stop"
  BY DEF GuestStop
<1>2. TypeOK'
  BY <1>1 DEF SmcInv, TypeOK
<1>3. ReaderInStep'
  BY <1>1, RingKept
<1>4. PositionInStep'
  BY <1>1 DEF SmcInv, PositionInStep, OffsetSent
<1> QED BY <1>2, <1>3, <1>4 DEF SmcInv

\* What a transfer's bytes are after one more.
LEMMA TransNext ==
    ASSUME SmcInv, NEW v \in GuestBytes, GuestByte(v)
    PROVE  trans' \in Seq(0 .. 255) /\ Len(trans') <= 2
<1>1. trans \in Seq(0 .. 255) /\ v \in 0 .. 255
  BY Fields, KeyAssumption
<1>2. CASE polite
  <2>1. Append(trans, v) \in Seq(0 .. 255) /\ Len(Append(trans, v)) = Len(trans) + 1
        /\ Len(trans) \in Nat
    BY <1>1
  <2>2. trans' = Append(trans, v) /\ Len(trans) < 2
    BY <1>2 DEF GuestByte
  <2> QED BY <2>1, <2>2
<1>3. CASE ~ polite
  <2>1. trans' = <<>>
    BY <1>3 DEF GuestByte
  <2> QED BY <2>1
<1> QED BY <1>2, <1>3

LEMMA TwoBytes ==
    ASSUME NEW x \in Int, NEW y \in Int
    PROVE  Append(<<x>>, y) = <<x, y>>
<1> DEFINE s == Append(<<x>>, y)
          t == <<x, y>>
<1>1. <<x>> \in Seq(Int) /\ Len(<<x>>) = 1 
  OBVIOUS
<1>2. s \in Seq(Int) /\ Len(s) = 2 
  BY <1>1
<1>3. s[1] = x /\ s[2] = y
  BY <1>1
<1>4. t \in Seq(Int) /\ Len(t) = 2 /\ t[1] = x /\ t[2] = y
  OBVIOUS
<1> HIDE DEF s, t
<1>5. \A i \in 1 .. 2 : s[i] = t[i]
  BY <1>3, <1>4
<1>6. s \in [1 .. 2 -> Int] /\ t \in [1 .. 2 -> Int]
  BY <1>2, <1>4
<1>7. s = t
  BY <1>5, <1>6
<1> QED BY <1>7 DEF s, t

\* A polite guest's value is the second byte of its transfer.
LEMMA SecondByte ==
    ASSUME SmcInv, NEW v \in GuestBytes, GuestByte(v), polite, bus = "value"
    PROVE  trans = <<smc.op>> /\ smc.pos = 1 /\ trans' = <<smc.op, v>>
<1>1. Len(trans) < 2 /\ trans' = Append(trans, v)
  BY DEF GuestByte
<1>2. OffsetSent
  <2>1. trans # <<>> /\ trans \in Seq(0 .. 255)
    BY Fields DEF SmcInv, PositionInStep
  <2>2. PICK n \in Nat : n = Len(trans) /\ n # 0
    BY <2>1
  <2>3. n < 2
    BY <1>1, <2>2, Zenon
  <2>4. n = 1
    BY <2>2, <2>3
  <2> QED BY <2>2, <2>4, Zenon DEF OffsetSent
<1>3. trans = <<smc.op>> /\ smc.pos = 1
  BY <1>2 DEF SmcInv, PositionInStep
<1>4. smc.op \in Int /\ v \in Int
  <2>1. smc \in SmcType /\ v \in 0 .. 255
    BY Fields, KeyAssumption
  <2>2. smc.op \in 0 .. 255
    BY <2>1, SmcFields
  <2> QED BY <2>1, <2>2
<1>5. Append(<<smc.op>>, v) = <<smc.op, v>>
  BY <1>4, TwoBytes
<1> QED BY <1>1, <1>3, <1>5

LEMMA GuestByteKeeps ==
    ASSUME SmcInv, UNCHANGED polite, NEW v \in GuestBytes, GuestByte(v)
    PROVE  SmcInv'
<1> DEFINE s == smc_i2c_data(smc, v)
<1>1. s \in SmcType /\ s.mse_count = smc.mse_count /\ v \in 0 .. 255
  BY Fields, KeyAssumption, DataType
<1>2. trans' \in Seq(0 .. 255) /\ Len(trans') <= 2
  BY TransNext
<1>3. UNCHANGED <<kbd, polite>> /\ bus' = "value"
  BY DEF GuestByte
<1>4. CASE bus = "write"
  <2>1. smc' = s /\ UNCHANGED <<mse, mouse, power, torn>>
    BY <1>4 DEF GuestByte
  <2>2. TypeOK'
    BY <1>1, <1>2, <1>3, <2>1 DEF SmcInv, TypeOK
  <2>3. ReaderInStep'
    BY <1>1, <2>1, RingKept
  <2>4. PositionInStep'
    <3> SUFFICES ASSUME polite PROVE PositionInStep'
      BY <1>3 DEF PositionInStep
    <3>1. trans = <<>> /\ smc.pos = 0
      BY <1>4 DEF SmcInv, PositionInStep, OffsetSent
    <3>2. trans' = <<v>>
      BY <3>1 DEF GuestByte
    <3>3. s.op = v /\ s.pos = 1 /\ s.reset = smc.reset
      BY <1>1, <3>1, Fields, DataType
    <3>4. smc.reset = FALSE
      <4>1. smc.reset \in BOOLEAN
        BY Fields, SmcFields
      <4> QED BY <4>1 DEF GuestByte, GuestRuns
    <3> HIDE DEF s
    <3>5. smc'.op = v /\ smc'.pos = 1 /\ smc'.reset = FALSE
      BY <2>1, <3>3, <3>4
    <3>6. trans' = <<smc'.op>> /\ Len(trans') = 1 /\ trans' # <<>>
      BY <3>2, <3>5
    <3> QED BY <1>3, <3>5, <3>6 DEF PositionInStep, OffsetSent
  <2> QED BY <2>2, <2>3, <2>4 DEF SmcInv
<1>5. CASE bus # "write"
  <2>1. bus = "value" /\ smc_write(s)
    BY <1>5 DEF GuestByte
  <2> HIDE DEF s
  <2>2. /\ smc' \in SmcType /\ smc'.mse_count = smc.mse_count /\ power' \in BOOLEAN
        /\ smc'.pos = 0 /\ smc'.op = smc'.read_op
    BY <1>1, <2>1, WriteType
  <2>3. mse' \in MseRing /\ ReaderInStep' /\ torn' \in BOOLEAN
        /\ mouse' \in [id : {0, 3}, dx : 0 .. MaxSends, dy : 0 .. MaxSends]
    <3>1. CASE s.op = CmdSetId
      <4>1. mse' = RingFlush(mse) /\ torn' = (smc.mse_count > 0) /\ torn' \in BOOLEAN
            /\ mouse' = [mouse EXCEPT !.id = AcceptedId(s.arg)]
        BY <1>1, <2>1, <3>1 DEF smc_write
      <4>2. AcceptedId(s.arg) \in {0, 3}
        BY DEF AcceptedId
      <4>3. mouse' \in [id : {0, 3}, dx : 0 .. MaxSends, dy : 0 .. MaxSends]
        BY <4>1, <4>2, Fields
      <4>4. mse \in MseRing /\ smc.mse_count \in 0 .. CountSize - 1
        BY Fields
      <4>5. mse' \in MseRing /\ ReaderInStep'
        BY <2>2, <4>1, <4>4, RingFlushed
      <4> QED BY <4>1, <4>3, <4>5
    <3>2. CASE s.op # CmdSetId
      <4>1. UNCHANGED <<mouse, mse, torn>>
        BY <2>1, <3>2 DEF smc_write
      <4>2. ReaderInStep'
        BY <2>2, <4>1, RingKept
      <4> QED BY <4>1, <4>2, Fields
    <3> QED BY <3>1, <3>2
  <2>4. TypeOK'
    BY <1>2, <1>3, <2>2, <2>3 DEF SmcInv, TypeOK, MseRing
  <2>5. PositionInStep'
    <3> SUFFICES ASSUME polite PROVE PositionInStep'
      BY <1>3 DEF PositionInStep
    <3>1. trans' = <<smc.op, v>>
      BY <2>1, SecondByte
    <3>2. trans' # <<>> /\ ~ OffsetSent'
      BY <3>1 DEF OffsetSent
    <3>3. smc'.pos = 0 /\ smc'.op \in {smc'.read_op, 0} /\ bus' = "value"
      BY <1>3, <2>2
    <3> QED BY <3>2, <3>3 DEF PositionInStep
  <2> QED BY <2>3, <2>4, <2>5 DEF SmcInv
<1> QED BY <1>4, <1>5

\* A read of the SMC takes from one ring or from neither.
LEMMA KeyRead ==
    ASSUME smc \in SmcType, NEW state \in 0 .. 1, smc_read_key(state)
    PROVE  kbd' = RingNext(KbdSize, kbd) /\ smc'.mse_count = smc.mse_count
<1>1. [smc EXCEPT !.read_state = state] \in SmcType
      /\ [smc EXCEPT !.read_state = state].mse_count = smc.mse_count
  BY DEF SmcType
<1> QED BY <1>1, DoneType DEF smc_read_key

LEMMA ReadKinds ==
    ASSUME SmcInv, smc_read
    PROVE  \/ smc_read_mouse /\ UNCHANGED kbd
           \/ /\ mse' = mse /\ smc'.mse_count = smc.mse_count
              /\ kbd' = RingNext(KbdSize, kbd) \/ kbd' = kbd
<1>1. smc \in SmcType /\ smc.read_state \in 0 .. 1 /\ 0 \in 0 .. 1 /\ 1 \in 0 .. 1
  BY Fields, SmcFields
<1>2. ASSUME NEW state \in 0 .. 1, smc_read_key(state)
      PROVE  kbd' = RingNext(KbdSize, kbd) /\ smc'.mse_count = smc.mse_count
  BY <1>1, <1>2, KeyRead
<1>3. ASSUME smc' = Done([smc EXCEPT !.long_press = IF smc.op = OffPower THEN FALSE ELSE @])
      PROVE  smc'.mse_count = smc.mse_count
  <2> DEFINE long == IF smc.op = OffPower THEN FALSE ELSE smc.long_press
  <2>1. long \in BOOLEAN
    BY <1>1, SmcFields, Zenon
  <2>2. smc' = Done([smc EXCEPT !.long_press = long])
    BY <1>3
  <2> HIDE DEF long
  <2>3. [smc EXCEPT !.long_press = long] \in SmcType
        /\ [smc EXCEPT !.long_press = long].mse_count = smc.mse_count
    BY <1>1, <2>1 DEF SmcType
  <2> QED BY <2>2, <2>3, DoneType
<1> QED BY <1>1, <1>2, <1>3 DEF smc_read

\* A byte of a report, or the lone zero of an empty ring.
LEMMA MouseReadKinds ==
    ASSUME SmcInv, smc_read_mouse
    PROVE  \/ /\ smc.mse_count > 0 \/ RingCount(MseSize, mse) >= PacketSize(mouse.id)
              /\ mse' = RingNext(MseSize, mse) /\ smc'.mse_count = NextCount(PacketSize(mouse.id))
           \/ smc.mse_count = 0 /\ mse' = mse /\ smc'.mse_count = 0
<1> DEFINE size == PacketSize(mouse.id)
           count == NextCount(size)
           state == IF smc.mse_count > 0 /\ (smc.mse_count + 1) % CountSize = size
                    THEN 0 ELSE smc.read_state
           w == [smc EXCEPT !.mse_count = count, !.read_state = state]
           z == [smc EXCEPT !.mse_count = 0, !.read_state = 0]
<1>0. smc.mse_count \in 0 .. CountSize - 1 /\ CountSize \in Nat /\ CountSize > 4
      /\ smc.read_state \in 0 .. 1 /\ smc \in SmcType
  BY Fields, SizeAssumption, SmcFields
<1>1. count \in 0 .. CountSize - 1
  <2>1. (smc.mse_count + 1) % CountSize \in 0 .. CountSize - 1 /\ 0 \in 0 .. CountSize - 1
    BY <1>0
  <2> QED BY <2>1 DEF NextCount
<1>2. state \in 0 .. 1
  BY <1>0
<1>3. \/ /\ smc.mse_count > 0 \/ RingCount(MseSize, mse) >= size
         /\ smc' = Done(w) /\ mse' = RingNext(MseSize, mse)
      \/ ~ (smc.mse_count > 0) /\ smc' = Done(z) /\ mse' = mse
  BY DEF smc_read_mouse
<1> HIDE DEF count, state
<1>4. w \in SmcType /\ z \in SmcType
  <2>1. 0 \in 0 .. CountSize - 1 /\ 0 \in 0 .. 1
    BY <1>0
  <2> QED BY <1>0, <1>1, <1>2, <2>1, ZenonT(60) DEF SmcType
<1>5. w.mse_count = count /\ z.mse_count = 0
  BY <1>0 DEF SmcType
<1> HIDE DEF w, z
<1>6. Done(w).mse_count = count /\ Done(z).mse_count = 0
  BY <1>4, <1>5, DoneType
<1> QED BY <1>0, <1>3, <1>6 DEF count

LEMMA MouseByteRead ==
    ASSUME SmcInv, smc_read_mouse, UNCHANGED <<mouse, torn>>,
           ~ (mse' = mse /\ smc'.mse_count = smc.mse_count)
    PROVE  ReaderInStep'
<1> DEFINE size == PacketSize(mouse.id)
           q == Bytes(mse)
<1>1. /\ smc.mse_count > 0 \/ Len(q) >= size
      /\ Bytes(mse') = QueueNext(q) /\ smc'.mse_count = NextCount(size)
  <2>1. /\ smc.mse_count > 0 \/ RingCount(MseSize, mse) >= size
        /\ mse' = RingNext(MseSize, mse) /\ smc'.mse_count = NextCount(size)
    BY MouseReadKinds
  <2>2. Bytes(RingNext(MseSize, mse)) = QueueNext(q) /\ Len(q) = RingCount(MseSize, mse)
    BY Fields, RingSizes, NextIsQueueNext, BytesType DEF MseRing, Bytes
  <2> QED BY <2>1, <2>2
<1>2. /\ q \in Seq(0 .. 4) /\ size \in {3, 4} /\ Whole(q, size)
      /\ smc.mse_count \in 0 .. CountSize - 1 /\ (~ torn => Front(q, smc.mse_count))
  BY Fields, BytesType, Sizes
<1> HIDE DEF q, size
<1>3. Whole(QueueNext(q), size)
  BY <1>2, WholeNext
<1>4. ~ torn => Front(QueueNext(q), NextCount(size))
  <2> SUFFICES ASSUME ~ torn PROVE Front(QueueNext(q), NextCount(size))
    OBVIOUS
  <2> DEFINE next == (smc.mse_count + 1) % CountSize
  <2>1. Front(QueueNext(q), IF smc.mse_count > 0 /\ next = size THEN 0 ELSE next)
    BY <1>1, <1>2, ReadInStep
  <2> QED BY <2>1 DEF NextCount
<1>5. mouse' = mouse /\ torn' = torn
  OBVIOUS
<1> QED BY <1>1, <1>3, <1>4, <1>5, InStep DEF size

LEMMA GuestReadKeeps ==
    ASSUME SmcInv, UNCHANGED polite, NEW nack \in BOOLEAN, GuestRead(nack)
    PROVE  SmcInv'
<1>1. smc_read /\ UNCHANGED <<mouse, power, torn, polite>> /\ bus' \in {"stop", "read"}
      /\ trans' = <<>>
  BY DEF GuestRead
<1>2. /\ smc' \in SmcType /\ kbd' \in Ring(KbdSize, 0 .. 255) /\ mse' \in MseRing
      /\ ReadDone
  BY <1>1, Fields, ReadType
<1>3. ReaderInStep'
  <2>1. CASE mse' = mse /\ smc'.mse_count = smc.mse_count
    BY <1>1, <2>1, RingKept
  <2>2. CASE smc_read_mouse /\ ~ (mse' = mse /\ smc'.mse_count = smc.mse_count)
    BY <1>1, <2>2, MouseByteRead
  <2> QED BY <1>1, <2>1, <2>2, ReadKinds
<1>4. TypeOK'
  BY <1>1, <1>2 DEF SmcInv, TypeOK, MseRing
<1>5. PositionInStep'
  BY <1>1, <1>2 DEF PositionInStep, OffsetSent, ReadDone
<1> QED BY <1>3, <1>4, <1>5 DEF SmcInv

LEMMA SmcStep == SmcInv /\ [Next /\ UNCHANGED polite]_vars => SmcInv'
<1> SUFFICES ASSUME SmcInv, [Next /\ UNCHANGED polite]_vars PROVE SmcInv'
  OBVIOUS
<1>1. CASE UNCHANGED vars
  <2>1. TypeOK'
    BY <1>1 DEF vars, SmcInv, TypeOK
  <2>2. ReaderInStep'
    BY <1>1, RingKept DEF vars
  <2>3. PositionInStep'
    BY <1>1 DEF vars, SmcInv, PositionInStep, OffsetSent
  <2> QED BY <2>1, <2>2, <2>3 DEF SmcInv
<1>2. ASSUME Next, UNCHANGED polite PROVE SmcInv'
  BY <1>2, HostKeyKeeps, HostMouseKeeps, MachineResetKeeps, GuestAddressKeeps, GuestByteKeeps,
     GuestReadKeeps, GuestStopKeeps DEF Next
<1> QED BY <1>1, <1>2

LEMMA SmcAlways == Spec => []SmcInv
BY SmcInit, SmcStep, PTL DEF Spec

-----------------------------------------------------------------------------
(* The theorems *)

\* The mouse ring holds whole reports and the SMC's counter says which byte
\* comes out next (smc_read, mouse_send), for rings and counters of any size.
THEOREM InputCorrect == Spec => []ReportsInStep
<1>1. SmcInv => ReportsInStep
  BY DEF SmcInv, ReportsInStep
<1> QED BY <1>1, SmcAlways, PTL

\* What the SMC does for a guest that keeps to the two transfer forms is about the
\* bytes that guest sent for it, whatever operations, resets and host events came
\* before (smc_i2c_data, smc_write, smc_read; i2c_data_pos is reset at the end of
\* every operation, never by a STOP or a machine reset).
THEOREM OperationsCorrect == Spec => ActsOnOwnBytes
<1> DEFINE Own ==
      polite =>
         /\ \A v \in GuestBytes : GuestByte(v) /\ OffsetSent =>
                LET s == smc_i2c_data(smc, v) IN <<s.op, s.arg>> = Append(trans, v)
         /\ \A nack \in BOOLEAN : GuestRead(nack) =>
                smc.op \in IF OffsetSent THEN {trans[1]} ELSE {smc.read_op, 0}
<1>1. SmcInv => Own
  <2> SUFFICES ASSUME SmcInv, polite PROVE Own
    OBVIOUS
  <2>1. smc \in SmcType /\ smc.op \in 0 .. 255
    BY Fields, SmcFields
  <2>2. ASSUME NEW v \in GuestBytes, OffsetSent
        PROVE  <<smc_i2c_data(smc, v).op, smc_i2c_data(smc, v).arg>> = Append(trans, v)
    <3>1. trans = <<smc.op>> /\ smc.pos = 1
      BY <2>2 DEF SmcInv, PositionInStep
    <3>2. v \in 0 .. 255
      BY KeyAssumption
    <3>3. smc_i2c_data(smc, v).op = smc.op /\ smc_i2c_data(smc, v).arg = v
      BY <2>1, <3>1, <3>2, DataType
    <3>4. Append(<<smc.op>>, v) = <<smc.op, v>>
      BY <2>1, <3>2, TwoBytes
    <3> QED BY <3>1, <3>3, <3>4
  <2>3. smc.op \in IF OffsetSent THEN {trans[1]} ELSE {smc.read_op, 0}
    <3>1. CASE OffsetSent
      <4>1. trans = <<smc.op>>
        BY <3>1 DEF SmcInv, PositionInStep
      <4> QED BY <3>1, <4>1
    <3>2. CASE ~ OffsetSent
      BY <3>2 DEF SmcInv, PositionInStep
    <3> QED BY <3>1, <3>2
  <2> QED BY <2>2, <2>3
<1>2. SmcInv /\ [Next /\ UNCHANGED polite]_vars => [Own]_vars
  BY <1>1
<1> QED BY <1>2, SmcAlways, PTL DEF Spec, ActsOnOwnBytes

\* The two rings, the report queueing of mouse_send and the byte reads of smc_read
\* implement the two bounded queues of InputQueues, for rings of any size: every
\* step of the code is a step of the queues or leaves them alone.
KbdBytes == Contents(KbdSize, kbd)
ReportSize == PacketSize(mouse.id)

QueueStep == IQ!Next \/ UNCHANGED <<KbdBytes, Bytes(mse), ReportSize>>

LEMMA HostKeyQueues ==
    ASSUME SmcInv, NEW code \in Codes, HostKey(code)
    PROVE  QueueStep
<1>1. KbdBytes' = QueueAdd(KbdSize, KbdBytes, code) /\ UNCHANGED <<Bytes(mse), ReportSize>>
  <2>1. code \in 0 .. 255 /\ kbd \in Ring(KbdSize, 0 .. 255)
    BY Fields, KeyAssumption
  <2>2. Contents(KbdSize, RingAdd(KbdSize, kbd, code)) = QueueAdd(KbdSize, Contents(KbdSize, kbd), code)
    BY <2>1, RingSizes, AddIsQueueAdd
  <2>3. kbd' = RingAdd(KbdSize, kbd, code) /\ mse' = mse /\ mouse' = mouse
    BY DEF HostKey
  <2> QED BY <2>2, <2>3 DEF KbdBytes, Bytes, ReportSize
<1>2. CASE Len(KbdBytes) < KbdSize - 1
  <2>1. IQ!KeyIn(code)
    BY <1>1, <1>2 DEF IQ!KeyIn, QueueAdd, KbdBytes, Bytes, Reports, ReportSize
  <2> QED BY <2>1 DEF QueueStep, IQ!Next
<1>3. CASE ~ (Len(KbdBytes) < KbdSize - 1)
  BY <1>1, <1>3 DEF QueueAdd, QueueStep
<1> QED BY <1>2, <1>3

LEMMA HostMouseQueues ==
    ASSUME SmcInv, NEW mx \in 0 .. MaxSends, NEW my \in 0 .. MaxSends, HostMouse(mx, my)
    PROVE  QueueStep
<1>1. mouse'.id = mouse.id /\ kbd' = kbd
  BY MouseSends DEF HostMouse
<1>2. PICK n \in {1, 2} : mse' = SendMany(mse, mouse.id, n)
  BY MouseSends
<1>3. mse \in MseRing /\ mouse.id \in {0, 3} /\ ReportSize \in {3, 4}
  BY Fields, Sizes DEF ReportSize
<1>4. mse' = mse \/ \E k \in {1, 2} : SentMore(mse, mse', k, ReportSize)
  <2>1. \/ SendMany(mse, mouse.id, n) = mse
        \/ \E k \in {1, 2} : SentMore(mse, SendMany(mse, mouse.id, n), k, ReportSize)
    BY <1>3, SendsGrow DEF ReportSize
  <2> QED BY <1>2, <2>1
<1>5. UNCHANGED <<KbdBytes, ReportSize>>
  BY <1>1 DEF KbdBytes, ReportSize
<1>6. CASE mse' = mse
  BY <1>5, <1>6 DEF QueueStep, Bytes
<1>7. ASSUME NEW k \in {1, 2}, SentMore(mse, mse', k, ReportSize)
      PROVE  QueueStep
  <2>1. Len(Bytes(mse)) + k * ReportSize <= MseSize - 1
        /\ Bytes(mse') = Bytes(mse) \o [i \in 1 .. k * ReportSize |-> ((i - 1) % ReportSize) + 1]
    BY <1>7 DEF SentMore
  <2>2. IQ!ReportsIn(k)
    BY <1>5, <2>1 DEF IQ!ReportsIn, IQ!Reports, KbdBytes, Bytes, Reports, ReportSize
  <2>3. k \in 1 .. MseSize - 1
    BY SizeAssumption
  <2> QED BY <2>2, <2>3 DEF QueueStep, IQ!Next
<1> QED BY <1>4, <1>6, <1>7

LEMMA MachineResetQueues ==
    ASSUME SmcInv, NEW fromHost \in BOOLEAN, MachineReset(fromHost)
    PROVE  QueueStep
<1>1. Contents(KbdSize, RingFlush(kbd)) = <<>> /\ Contents(MseSize, RingFlush(mse)) = <<>>
  BY Fields, RingSizes, FlushIsEmpty DEF MseRing
<1>2. kbd' = RingFlush(kbd) /\ mse' = RingFlush(mse) /\ mouse' = mouse
  BY DEF MachineReset
<1>3. IQ!Reset
  BY <1>1, <1>2 DEF IQ!Reset, Reports
<1> QED BY <1>3 DEF QueueStep, IQ!Next

LEMMA GuestByteQueues ==
    ASSUME SmcInv, NEW v \in GuestBytes, GuestByte(v)
    PROVE  QueueStep
<1> DEFINE s == smc_i2c_data(smc, v)
<1>1. kbd' = kbd
  BY DEF GuestByte
<1>2. CASE UNCHANGED <<mse, mouse>>
  BY <1>1, <1>2 DEF QueueStep, KbdBytes, Bytes, ReportSize
<1>3. CASE ~ UNCHANGED <<mse, mouse>>
  <2>1. mouse' = [mouse EXCEPT !.id = AcceptedId(s.arg)] /\ mse' = RingFlush(mse)
    BY <1>3 DEF GuestByte, smc_write
  <2>2. mouse'.id \in {0, 3}
    BY <2>1, Fields DEF AcceptedId
  <2>3. ReportSize' \in {3, 4}
    BY <2>2 DEF ReportSize, PacketSize
  <2>4. Contents(MseSize, RingFlush(mse)) = <<>>
    BY Fields, RingSizes, FlushIsEmpty DEF MseRing
  <2>5. IQ!NewDevice(ReportSize')
    BY <1>1, <2>1, <2>4 DEF IQ!NewDevice, ReportSize, Reports
  <2> QED BY <2>3, <2>5 DEF QueueStep, IQ!Next
<1> QED BY <1>2, <1>3

LEMMA GuestReadQueues ==
    ASSUME SmcInv, NEW nack \in BOOLEAN, GuestRead(nack)
    PROVE  QueueStep
<1>1. smc_read /\ mouse' = mouse
  BY DEF GuestRead
<1>2. KbdBytes' = QueueNext(KbdBytes) \/ KbdBytes' = KbdBytes
  <2>1. kbd' = RingNext(KbdSize, kbd) \/ kbd' = kbd
    BY <1>1, ReadKinds
  <2>2. Contents(KbdSize, RingNext(KbdSize, kbd)) = QueueNext(Contents(KbdSize, kbd))
    BY Fields, RingSizes, NextIsQueueNext
  <2> QED BY <2>1, <2>2 DEF KbdBytes
<1>3. Bytes(mse)' = QueueNext(Bytes(mse)) \/ Bytes(mse)' = Bytes(mse)
  <2>1. mse' = RingNext(MseSize, mse) \/ mse' = mse
    BY <1>1, ReadKinds, MouseReadKinds
  <2>2. Contents(MseSize, RingNext(MseSize, mse)) = QueueNext(Contents(MseSize, mse))
    BY Fields, RingSizes, NextIsQueueNext DEF MseRing
  <2> QED BY <2>1, <2>2 DEF Bytes
<1>4. KbdBytes' = KbdBytes \/ Bytes(mse)' = Bytes(mse)
  BY <1>1, ReadKinds DEF KbdBytes, Bytes
<1>5. ReportSize' = ReportSize
  BY <1>1 DEF ReportSize
<1>6. CASE KbdBytes' = KbdBytes /\ Bytes(mse)' = Bytes(mse)
  BY <1>5, <1>6 DEF QueueStep
<1>7. CASE KbdBytes' # KbdBytes
  <2>1. KbdBytes # <<>> /\ KbdBytes' = Tail(KbdBytes)
    BY <1>2, <1>7 DEF QueueNext
  <2>2. IQ!KeyOut
    BY <1>4, <1>5, <1>7, <2>1 DEF IQ!KeyOut, KbdBytes, Bytes, Reports, ReportSize
  <2> QED BY <2>2 DEF QueueStep, IQ!Next
<1>8. CASE Bytes(mse)' # Bytes(mse)
  <2>1. Bytes(mse) # <<>> /\ Bytes(mse)' = Tail(Bytes(mse))
    BY <1>3, <1>8 DEF QueueNext
  <2>2. IQ!ByteOut
    BY <1>4, <1>5, <1>8, <2>1 DEF IQ!ByteOut, KbdBytes, Bytes, Reports, ReportSize
  <2> QED BY <2>2 DEF QueueStep, IQ!Next
<1> QED BY <1>6, <1>7, <1>8

LEMMA QueueSteps == SmcInv /\ [Next /\ UNCHANGED polite]_vars => QueueStep
<1> SUFFICES ASSUME SmcInv, [Next /\ UNCHANGED polite]_vars PROVE QueueStep
  OBVIOUS
<1>1. CASE UNCHANGED <<kbd, mse, mouse>>
  BY <1>1 DEF QueueStep, KbdBytes, Bytes, ReportSize
<1>2. CASE ~ UNCHANGED <<kbd, mse, mouse>>
  <2>1. Next
    BY <1>2 DEF vars
  <2>2. ASSUME NEW mode \in {"write", "read"} PROVE ~ GuestAddress(mode)
    BY <1>2 DEF GuestAddress
  <2>3. ~ GuestStop
    BY <1>2 DEF GuestStop
  <2> QED BY <2>1, <2>2, <2>3, HostKeyQueues, HostMouseQueues, MachineResetQueues, GuestByteQueues,
             GuestReadQueues DEF Next
<1> QED BY <1>1, <1>2

THEOREM InputImplementsQueues == Spec => QueuesImplemented
<1>1. Init => IQ!Init
  <2> SUFFICES ASSUME Init PROVE IQ!Init
    OBVIOUS
  <2>1. Contents(KbdSize, kbd) = <<>> /\ Contents(MseSize, mse) = <<>>
    BY RingSizes, EmptyIsEmpty DEF Init
  <2>2. PacketSize(mouse.id) = 4
    BY DEF Init, PacketSize
  <2> QED BY <2>1, <2>2 DEF IQ!Init, Reports
<1>2. ASSUME SmcInv, [Next /\ UNCHANGED polite]_vars
      PROVE  [IQ!Next]_(<<Contents(KbdSize, kbd), Reports, PacketSize(mouse.id)>>)
  <2>1. QueueStep
    BY <1>2, QueueSteps
  <2> QED BY <2>1 DEF QueueStep, KbdBytes, Bytes, ReportSize, Reports
<1> QED BY <1>1, <1>2, SmcAlways, PTL DEF Spec, IQ!Spec, QueuesImplemented

-----------------------------------------------------------------------------
(* The game controllers: the inductive invariant *)

\* What a scan reads as bit k of a port where h was held.
Expected(h, k) ==
    IF h = NoController THEN 1
    ELSE IF k <= Buttons /\ k \in h THEN 0
    ELSE IF k <= Bits THEN 1 ELSE 0

\* The register after n shifts of a scan.
ShiftedOut(h, n, mask) ==
    /\ Len(mask) = IF n < Bits THEN Bits - n ELSE 0
    /\ \A k \in 1 .. Len(mask) : mask[k] = Expected(h, n + k)

TableType == [instance_id : {None} \cup 1 .. last_id, button_mask : SUBSET (1 .. Buttons),
           shift_mask : Seq({0, 1})]

HostTypes ==
    /\ last_id \in 0 .. MaxId
    /\ connected \subseteq 1 .. last_id /\ announced \subseteq connected
    /\ controllers \in [1 .. Table -> TableType]
    /\ enabled \subseteq Slots
    /\ Joystick_slots \in [Slots -> {None} \cup connected]
    /\ changed \in [Slots -> 0 .. 2]

\* A controller has one port and an entry of the table, or two; before its event
\* at most one.
Plugged ==
    /\ \A s \in Slots : Joystick_slots[s] # None =>
           s \in enabled /\ Known(Joystick_slots[s]) # {}
    /\ \A s, z \in Slots : Joystick_slots[s] = Joystick_slots[z] /\ s # z => Joystick_slots[s] = None
    /\ \A id \in 1 .. last_id : \A i, j, k \in Known(id) : i = j \/ j = k \/ i = k
    /\ \A id \in announced : \A i, j \in Known(id) : i = j

ScanTypes ==
    /\ Joystick_data \in [Slots -> {0, 1}]
    /\ Joystick_latch \in BOOLEAN /\ clock \in BOOLEAN
    /\ scan \in -1 .. ScanLen /\ scans \in 0 .. MaxScans
    /\ held \in [Slots -> (SUBSET (1 .. Buttons)) \cup {NoController}]
    /\ seen \in [Slots -> Seq({0, 1})]
    /\ \A i \in 1 .. Table : Len(controllers[i].shift_mask) <= Bits
    /\ Joystick_latch => scan = 0
    /\ clock => scan >= 1
    /\ scan = ScanLen => clock

\* Between scans a port with a controller shows the zero past its register's end.
AtRest ==
    scan = -1 => \A s \in Slots : changed[s] # 0 /\ Shifts(s) # 0 => Joystick_data[s] = 0

\* In a scan every port that has been latched shows the next bit and has the
\* others in its register; what has been read of it is right.
InScan ==
    scan # -1 => \A s \in Slots : changed[s] # 0 =>
        /\ held[s] = NoController <=> Shifts(s) = 0
        /\ Shifts(s) # 0 => ShiftedOut(held[s], scan + 1, controllers[Shifts(s)].shift_mask)
        /\ scan # 0 \/ changed[s] = 2 => Joystick_data[s] = Expected(held[s], scan + 1)
        /\ Len(seen[s]) = scan
        /\ changed[s] = 2 => \A k \in 1 .. scan : seen[s][k] = Expected(held[s], k)

JoyInv == HostTypes /\ Plugged /\ ScanTypes /\ AtRest /\ InScan

\* The first of a set of numbers.
LEMMA FirstIn ==
    ASSUME NEW S \in SUBSET Nat, S # {}
    PROVE  First(S) \in S
<1>1. PICK m \in S : \A n \in S : ~ (n < m)
  BY LeastElement
<1>2. \A n \in S : m <= n
  BY <1>1
<1> QED BY <1>1, <1>2 DEF First

LEMMA BitsType ==
    ASSUME JoyAssumption
    PROVE  Bits \in Nat /\ Bits >= Buttons /\ Bits >= 1 /\ ScanLen = Bits + 1 /\ Buttons \in Nat
BY DEF JoyAssumption, Bits, ScanLen

\* A shift brings out the next bit and leaves the rest.
LEMMA NextBit ==
    ASSUME JoyAssumption, NEW h, h # NoController, NEW n \in Nat, NEW mask \in Seq({0, 1}),
           ShiftedOut(h, n, mask)
    PROVE  /\ Bit(mask) = Expected(h, n + 1)
           /\ ShiftedOut(h, n + 1, Rest(mask))
<1>0. Bits \in Nat /\ Bits >= Buttons /\ Buttons \in Nat
  BY BitsType
<1>1. CASE n < Bits
  <2>1. Len(mask) = Bits - n /\ Len(mask) >= 1 /\ mask # <<>>
    BY <1>0, <1>1 DEF ShiftedOut
  <2>2. Bit(mask) = mask[1] /\ Rest(mask) = Tail(mask)
    BY <2>1 DEF Bit, Rest
  <2>3. mask[1] = Expected(h, n + 1)
    BY <1>0, <2>1 DEF ShiftedOut
  <2>4. Len(Tail(mask)) = Bits - n - 1
    BY <1>0, <2>1
  <2>5. Len(Tail(mask)) = IF n + 1 < Bits THEN Bits - (n + 1) ELSE 0
    BY <1>0, <1>1, <2>4
  <2>6. ASSUME NEW k \in 1 .. Len(Tail(mask)) PROVE Tail(mask)[k] = Expected(h, (n + 1) + k)
    <3>1. k + 1 \in 1 .. Len(mask) /\ Tail(mask)[k] = mask[k + 1]
      BY <1>0, <2>1, <2>4
    <3>2. n + (k + 1) = (n + 1) + k
      BY <1>0, <2>4
    <3> QED BY <3>1, <3>2 DEF ShiftedOut
  <2> QED BY <2>2, <2>3, <2>5, <2>6 DEF ShiftedOut
<1>2. CASE ~ (n < Bits)
  <2>1. Len(mask) = 0
    BY <1>2 DEF ShiftedOut
  <2>2. mask = <<>>
    BY <2>1
  <2>3. Bit(mask) = 0 /\ Rest(mask) = mask
    BY <2>2 DEF Bit, Rest
  <2>4. Expected(h, n + 1) = 0
    BY <1>0, <1>2 DEF Expected
  <2>5. ShiftedOut(h, n + 1, mask)
    BY <1>0, <1>2, <2>1 DEF ShiftedOut
  <2> QED BY <2>3, <2>4, <2>5
<1> QED BY <1>1, <1>2

\* The rest of a register is one, and no longer.
LEMMA RestType ==
    ASSUME NEW mask \in Seq({0, 1})
    PROVE  Rest(mask) \in Seq({0, 1}) /\ Len(Rest(mask)) <= Len(mask) /\ Bit(mask) \in {0, 1}
<1>1. CASE mask = <<>>
  BY <1>1 DEF Rest, Bit
<1>2. CASE mask # <<>>
  <2>1. Rest(mask) = Tail(mask) /\ Bit(mask) = Head(mask)
    BY <1>2 DEF Rest, Bit
  <2>2. Tail(mask) \in Seq({0, 1}) /\ Len(Tail(mask)) = Len(mask) - 1 /\ Head(mask) \in {0, 1}
    BY <1>2
  <2> QED BY <2>1, <2>2
<1> QED BY <1>1, <1>2

\* The register as the latch fills it.
Register(m) == [b \in 1 .. Bits |-> IF b > Buttons \/ b \in m THEN 1 ELSE 0]

LEMMA FullRegister ==
    ASSUME JoyAssumption, NEW m \in SUBSET (1 .. Buttons)
    PROVE  /\ Register(m) \in Seq({0, 1}) /\ Len(Register(m)) = Bits
           /\ (1 .. Buttons) \ m # NoController
           /\ ShiftedOut((1 .. Buttons) \ m, 0, Register(m))
<1> DEFINE h == (1 .. Buttons) \ m
<1>0. Bits \in Nat /\ Bits >= Buttons /\ Bits >= 1 /\ Buttons \in Nat
  BY BitsType
<1>1. Register(m) \in [1 .. Bits -> {0, 1}]
  BY DEF Register
<1>2. Register(m) \in Seq({0, 1}) /\ Len(Register(m)) = Bits
  BY <1>0, <1>1
<1>3. h # NoController
  <2>1. 0 \notin h
    OBVIOUS
  <2> QED BY <2>1 DEF NoController
<1>4. ASSUME NEW k \in 1 .. Bits PROVE Register(m)[k] = Expected(h, 0 + k)
  <2>1. 0 + k = k /\ k <= Bits /\ k >= 1 /\ k \in Int
    BY <1>0
  <2>2. Register(m)[k] = IF k > Buttons \/ k \in m THEN 1 ELSE 0
    BY DEF Register
  <2>3. Expected(h, k) = IF k <= Buttons /\ k \in h THEN 0 ELSE 1
    BY <1>3, <2>1 DEF Expected
  <2>4. CASE k > Buttons
    BY <1>0, <2>1, <2>2, <2>3, <2>4
  <2>5. CASE k <= Buttons
    <3>1. k \in h <=> k \notin m
      BY <1>0, <2>1, <2>5
    <3>2. ~ (k > Buttons)
      BY <1>0, <2>1, <2>5
    <3> HIDE DEF h
    <3> QED BY <2>1, <2>2, <2>3, <2>5, <3>1, <3>2
  <2> QED BY <1>0, <2>1, <2>4, <2>5
<1>5. ShiftedOut(h, 0, Register(m))
  <2>1. Len(Register(m)) = IF 0 < Bits THEN Bits - 0 ELSE 0
    BY <1>0, <1>2
  <2> HIDE DEF h
  <2> QED BY <1>2, <1>4, <2>1 DEF ShiftedOut
<1> QED BY <1>2, <1>3, <1>5

\* The entry a port shifts from is its controller's, and no other port's.
LEMMA ShiftsValue ==
    ASSUME JoyAssumption, HostTypes, Plugged, NEW s \in Slots
    PROVE  /\ Shifts(s) \in 0 .. Table
           /\ Joystick_slots[s] = None => Shifts(s) = 0
           /\ Joystick_slots[s] # None =>
                 /\ Shifts(s) \in 1 .. Table
                 /\ Shifts(s) = First(Known(Joystick_slots[s]))
                 /\ controllers[Shifts(s)].instance_id = Joystick_slots[s]
<1>1. CASE Joystick_slots[s] = None
  <2>1. Shifts(s) = 0
    BY <1>1 DEF Shifts
  <2>2. 0 \in 0 .. Table
    BY DEF JoyAssumption
  <2> QED BY <1>1, <2>1, <2>2
<1>2. CASE Joystick_slots[s] # None
  <2> DEFINE K == Known(Joystick_slots[s])
  <2>1. K # {} /\ K \in SUBSET Nat
    BY <1>2 DEF Plugged, Known
  <2>2. First(K) \in K
    <3> HIDE DEF K
    <3> QED BY <2>1, FirstIn
  <2>3. Shifts(s) = First(K)
    BY <1>2, <2>1 DEF Shifts
  <2>4. First(K) \in 1 .. Table /\ controllers[First(K)].instance_id = Joystick_slots[s]
    BY <2>2 DEF Known
  <2>5. First(K) \in 0 .. Table
    BY <2>4
  <2> QED BY <1>2, <2>3, <2>4, <2>5
<1> QED BY <1>1, <1>2

\* No two ports shift from one entry.
LEMMA ShiftsApart ==
    ASSUME JoyAssumption, HostTypes, Plugged, NEW s \in Slots, NEW z \in Slots, Shifts(s) # 0, Shifts(s) = Shifts(z)
    PROVE  s = z
<1>1. Joystick_slots[s] # None /\ Joystick_slots[z] # None
  BY ShiftsValue
<1>2. Joystick_slots[s] = Joystick_slots[z]
  BY <1>1, ShiftsValue
<1> QED BY <1>1, <1>2 DEF Plugged

\* The table has room for a controller whose event is still to come: no
\* controller has more than two entries, and this one has one at most.
LEMMA Room ==
    ASSUME JoyAssumption, HostTypes, Plugged, NEW id \in announced
    PROVE  Known(None) # {} /\ First(Known(None)) \in Known(None)
<1>0. MaxId \in Nat /\ Table \in Nat /\ Table >= 2 * MaxId /\ last_id \in Nat /\ last_id <= MaxId
      /\ id \in 1 .. last_id
  BY DEF JoyAssumption, HostTypes
<1>1. Known(None) # {}
  <2> SUFFICES ASSUME Known(None) = {} PROVE FALSE
    OBVIOUS
  <2> DEFINE of(i) == controllers[i].instance_id
             T == (1 .. 2 * MaxId) \ {MaxId + id}
             f == [i \in 1 .. Table |-> IF i = First(Known(of(i))) THEN of(i) ELSE MaxId + of(i)]
  <2>1. ASSUME NEW i \in 1 .. Table
        PROVE  /\ of(i) \in 1 .. last_id /\ of(i) \in 1 .. MaxId /\ i \in Known(of(i))
               /\ First(Known(of(i))) \in Known(of(i))
    <3>1. controllers[i] \in TableType
      BY DEF HostTypes
    <3>2. of(i) \in {None} \cup 1 .. last_id
      BY <3>1 DEF TableType
    <3>3. of(i) # None
      BY DEF Known
    <3>4. of(i) \in 1 .. last_id
      BY <3>2, <3>3
    <3>5. of(i) \in 1 .. MaxId
      BY <1>0, <3>4
    <3>6. i \in Known(of(i))
      BY DEF Known
    <3>7. Known(of(i)) \in SUBSET Nat
      BY DEF Known
    <3>8. First(Known(of(i))) \in Known(of(i))
      <4> HIDE DEF of
      <4> QED BY <3>6, <3>7, FirstIn
    <3> QED BY <3>4, <3>5, <3>6, <3>8
  <2> HIDE DEF of
  <2>2. ASSUME NEW i \in 1 .. Table PROVE f[i] \in T
    <3>1. CASE i = First(Known(of(i)))
      <4>1. f[i] = of(i)
        BY <3>1
      <4>2. of(i) \in 1 .. 2 * MaxId /\ of(i) # MaxId + id
        BY <1>0, <2>1
      <4> HIDE DEF f
      <4> QED BY <4>1, <4>2
    <3>2. CASE i # First(Known(of(i)))
      <4>1. f[i] = MaxId + of(i)
        BY <3>2
      <4>2. of(i) # id
        <5> SUFFICES ASSUME of(i) = id PROVE FALSE
          OBVIOUS
        <5>1. i \in Known(id) /\ First(Known(id)) \in Known(id)
          BY <2>1
        <5>2. i = First(Known(id))
          BY <5>1 DEF Plugged
        <5> QED BY <3>2, <5>2
      <4>3. MaxId + of(i) \in 1 .. 2 * MaxId /\ MaxId + of(i) # MaxId + id
        BY <1>0, <2>1, <4>2
      <4> HIDE DEF f
      <4> QED BY <4>1, <4>3
    <3> QED BY <3>1, <3>2
  <2>3. f \in [1 .. Table -> T]
    <3> HIDE DEF T
    <3> QED BY <2>2
  <2>4. IsFiniteSet(1 .. Table) /\ Cardinality(1 .. Table) = Table
    <3>1. Table \in Int /\ 1 \in Int /\ Table >= 1
      BY <1>0
    <3>2. Table - 1 + 1 = Table /\ ~ (1 > Table)
      BY <3>1
    <3> QED BY <3>1, <3>2, FS_Interval
  <2>5. IsFiniteSet(T) /\ Cardinality(T) = 2 * MaxId - 1
    <3> DEFINE W == 1 .. 2 * MaxId
    <3>1. 2 * MaxId \in Int /\ 1 \in Int /\ ~ (1 > 2 * MaxId) /\ 2 * MaxId - 1 + 1 = 2 * MaxId
      BY <1>0
    <3>2. IsFiniteSet(W) /\ Cardinality(W) = 2 * MaxId
      BY <3>1, FS_Interval
    <3>3. MaxId + id \in W
      BY <1>0
    <3> HIDE DEF W
    <3>4. IsFiniteSet(W \ {MaxId + id}) /\ Cardinality(W \ {MaxId + id}) = Cardinality(W) - 1
      BY <3>2, <3>3, FS_RemoveElement
    <3> QED BY <3>2, <3>4 DEF W
  <2>6. Cardinality(T) < Cardinality(1 .. Table)
    <3> HIDE DEF T
    <3> QED BY <1>0, <2>4, <2>5
  <2>7. PICK i, j \in 1 .. Table : i # j /\ f[i] = f[j]
    <3> DEFINE S == 1 .. Table
    <3> HIDE DEF T, f, S
    <3>1. f \in [S -> T] /\ IsFiniteSet(S) /\ IsFiniteSet(T) /\ Cardinality(T) < Cardinality(S)
      BY <2>3, <2>4, <2>5, <2>6 DEF S
    <3>2. \E i, j \in S : i # j /\ f[i] = f[j]
      BY <3>1, FS_PigeonHole
    <3> QED BY <3>2 DEF S
  <2>8. of(i) \in 1 .. MaxId /\ of(j) \in 1 .. MaxId
    BY <2>1
  <2> DEFINE one(n) == n = First(Known(of(n)))
  <2>9. \A n \in 1 .. Table : f[n] = IF one(n) THEN of(n) ELSE MaxId + of(n)
    OBVIOUS
  <2> HIDE DEF f, one
  <2>10. of(i) = of(j) /\ (one(i) <=> one(j))
    <3>1. PICK a \in 1 .. MaxId, b \in 1 .. MaxId : a = of(i) /\ b = of(j)
      BY <2>8
    <3>2. CASE one(i) /\ one(j)
      BY <2>7, <2>9, <3>2
    <3>3. CASE ~ one(i) /\ ~ one(j)
      <4>1. MaxId + a = MaxId + b
        BY <2>7, <2>9, <3>1, <3>3
      <4> QED BY <1>0, <3>1, <3>3, <4>1
    <3>4. CASE one(i) /\ ~ one(j)
      <4>1. a = MaxId + b
        BY <2>7, <2>9, <3>1, <3>4
      <4> QED BY <1>0, <3>1, <4>1
    <3>5. CASE ~ one(i) /\ one(j)
      <4>1. MaxId + a = b
        BY <2>7, <2>9, <3>1, <3>5
      <4> QED BY <1>0, <3>1, <4>1
    <3> QED BY <3>2, <3>3, <3>4, <3>5
  <2>11. i \in Known(of(i)) /\ j \in Known(of(i)) /\ First(Known(of(i))) \in Known(of(i))
    BY <2>1, <2>10
  <2>12. i = First(Known(of(i))) <=> j = First(Known(of(i)))
    BY <2>10 DEF one
  <2>13. of(i) \in 1 .. last_id
    BY <2>1
  <2> QED BY <2>7, <2>11, <2>12, <2>13 DEF Plugged
<1>2. Known(None) \in SUBSET Nat
  BY DEF Known
<1> QED BY <1>1, <1>2, FirstIn

\* What a step of the host leaves to the guest at a port: where nothing was
\* plugged in or out, the register.
Kept(s) ==
    changed'[s] # 0 =>
        /\ changed'[s] = changed[s]
        /\ Shifts(s)' = Shifts(s)
        /\ Shifts(s) # 0 => controllers'[Shifts(s)].shift_mask = controllers[Shifts(s)].shift_mask

\* A port whose controller and the controller's entries stay shifts as before.
LEMMA SameEntry ==
    ASSUME NEW s, Joystick_slots'[s] = Joystick_slots[s],
           Joystick_slots[s] # None => Known(Joystick_slots[s])' = Known(Joystick_slots[s])
    PROVE  Shifts(s)' = Shifts(s)
BY DEF Shifts

LEMMA HostAdds ==
    ASSUME JoyAssumption, HostTypes, Plugged, ScanTypes, NEW id \in 1 .. MaxId, joystick_add(id)
    PROVE  HostTypes' /\ Plugged' /\ (\A i \in 1 .. Table : Len(controllers'[i].shift_mask) <= Bits)
           /\ \A s \in Slots : Kept(s)
<1>0. /\ id \in announced /\ id \in connected /\ id \in 1 .. last_id /\ id # None
      /\ announced' = announced \ {id} /\ Added(id)
      /\ enabled' = enabled /\ connected' = connected /\ last_id' = last_id
      /\ connected \subseteq 1 .. last_id /\ announced \subseteq connected /\ last_id \in 0 .. MaxId
      /\ enabled \subseteq Slots
  BY DEF HostTypes, joystick_add, None
<1> DEFINE exists == \E s \in enabled : Joystick_slots[s] = id
           free == {s \in enabled : Joystick_slots[s] = None}
           r == First(Known(None))
<1>1. CASE exists
  <2>1. controllers' = controllers /\ Joystick_slots' = Joystick_slots /\ changed' = changed
    BY <1>0, <1>1 DEF Added
  <2>2. HostTypes'
    BY <1>0, <2>1 DEF HostTypes, TableType
  <2>3. Plugged'
    <3>1. \A x : Known(x)' = Known(x)
      BY <2>1 DEF Known
    <3>2. \A s \in Slots : Joystick_slots[s] # None => Known(Joystick_slots[s])' = Known(Joystick_slots[s])
      BY <2>1 DEF Known
    <3>3. \A x \in 1 .. last_id : \A i, j, k \in Known(x)' : i = j \/ j = k \/ i = k
      BY <3>1 DEF Plugged
    <3>4. \A x \in announced' : \A i, j \in Known(x)' : i = j
      BY <1>0, <3>1 DEF Plugged
    <3>5. \A s \in Slots : Joystick_slots'[s] # None => s \in enabled' /\ Known(Joystick_slots[s])' # {}
      BY <1>0, <2>1, <3>2 DEF Plugged
    <3>6. \A s, z \in Slots : Joystick_slots'[s] = Joystick_slots'[z] /\ s # z => Joystick_slots'[s] = None
      BY <2>1 DEF Plugged
    <3> QED BY <1>0, <3>3, <3>4, <3>5, <3>6 DEF Plugged, Known
  <2>4. ASSUME NEW s \in Slots PROVE Kept(s)
    BY <2>1 DEF Kept, Shifts, Known
  <2> QED BY <2>1, <2>2, <2>3, <2>4 DEF ScanTypes
<1>2. CASE ~ exists
  <2>1. r \in Known(None)
    BY <1>0, Room
  <2>2. r \in 1 .. Table /\ controllers[r].instance_id = None
    BY <2>1 DEF Known
  <2> DEFINE new == [Free EXCEPT !.instance_id = id]
  <2>3. controllers' = [controllers EXCEPT ![r] = new]
    BY <1>0, <1>2 DEF Added
  <2>4. new = [instance_id |-> id, button_mask |-> 1 .. Buttons, shift_mask |-> <<>>]
    BY DEF Free
  <2>5. new \in TableType /\ new.instance_id = id /\ Len(new.shift_mask) = 0
    <3>1. new.instance_id = id /\ new.button_mask = 1 .. Buttons /\ new.shift_mask = <<>>
      BY <2>4
    <3>2. new \in [instance_id : {None} \cup 1 .. last_id, button_mask : SUBSET (1 .. Buttons),
                   shift_mask : Seq({0, 1})]
      <4>1. <<>> \in Seq({0, 1}) /\ 1 .. Buttons \in SUBSET (1 .. Buttons)
        OBVIOUS
      <4> QED BY <1>0, <2>4, <4>1
    <3> QED BY <3>1, <3>2 DEF TableType
  <2> HIDE DEF r, new
  <2>6. controllers \in [1 .. Table -> TableType]
    BY DEF HostTypes
  <2>7. controllers' \in [1 .. Table -> TableType]
    BY <2>2, <2>3, <2>5, <2>6
  <2>8. \A i \in 1 .. Table : controllers'[i] = IF i = r THEN new ELSE controllers[i]
    BY <2>2, <2>3, <2>6
  <2>9. \A i \in 1 .. Table : Len(controllers'[i].shift_mask) <= Bits
    <3>1. Bits \in Nat
      BY BitsType
    <3> QED BY <2>5, <2>8, <3>1 DEF ScanTypes
  <2>10. ASSUME NEW x, x # id, x # None PROVE {i \in 1 .. Table : controllers'[i].instance_id = x} = Known(x)
    BY <2>2, <2>5, <2>8, <2>10 DEF Known
  <2>11. {i \in 1 .. Table : controllers'[i].instance_id = id} = Known(id) \cup {r}
    BY <1>0, <2>2, <2>5, <2>8 DEF Known
  <2>12. \A s \in Slots : Joystick_slots[s] # id
    <3> SUFFICES ASSUME NEW s \in Slots, Joystick_slots[s] = id PROVE FALSE
      OBVIOUS
    <3>1. s \in enabled
      BY <1>0 DEF Plugged
    <3> QED BY <1>2, <3>1
  <2>13. \A s \in Slots : Joystick_slots[s] # None =>
            {i \in 1 .. Table : controllers'[i].instance_id = Joystick_slots[s]} = Known(Joystick_slots[s])
    BY <2>10, <2>12
  <2>14. /\ \A x \in 1 .. last_id : \A i, j, k \in {n \in 1 .. Table : controllers'[n].instance_id = x} :
                i = j \/ j = k \/ i = k
         /\ \A x \in announced' : \A i, j \in {n \in 1 .. Table : controllers'[n].instance_id = x} : i = j
    <3>1. ASSUME NEW x \in 1 .. last_id,
                 NEW i \in {n \in 1 .. Table : controllers'[n].instance_id = x},
                 NEW j \in {n \in 1 .. Table : controllers'[n].instance_id = x},
                 NEW k \in {n \in 1 .. Table : controllers'[n].instance_id = x}
          PROVE  i = j \/ j = k \/ i = k
      <4>1. CASE x = id
        <5>1. {i, j, k} \subseteq Known(id) \cup {r}
          BY <2>11, <3>1, <4>1
        <5>2. \A a, b \in Known(id) : a = b
          BY <1>0 DEF Plugged
        <5> QED BY <5>1, <5>2
      <4>2. CASE x # id
        <5>1. x # None
          BY DEF None
        <5>2. {i, j, k} \subseteq Known(x)
          BY <2>10, <3>1, <4>2, <5>1
        <5> QED BY <5>2 DEF Plugged
      <4> QED BY <4>1, <4>2
    <3>2. ASSUME NEW x \in announced',
                 NEW i \in {n \in 1 .. Table : controllers'[n].instance_id = x},
                 NEW j \in {n \in 1 .. Table : controllers'[n].instance_id = x}
          PROVE  i = j
      <4>1. x # id /\ x \in announced /\ x # None
        BY <1>0 DEF None
      <4>2. {i, j} \subseteq Known(x)
        BY <2>10, <3>2, <4>1
      <4> QED BY <4>1, <4>2 DEF Plugged
    <3> QED BY <3>1, <3>2
  <2>15. CASE free = {}
    <3>1. Joystick_slots' = Joystick_slots /\ changed' = changed
      BY <1>0, <1>2, <2>15 DEF Added
    <3>2. HostTypes'
      BY <1>0, <2>7, <3>1 DEF HostTypes, TableType
    <3>3. Plugged'
      BY <1>0, <2>13, <2>14, <3>1 DEF Plugged, Known
    <3>4. ASSUME NEW s \in Slots PROVE Kept(s)
      <4>1. Joystick_slots[s] # None => Known(Joystick_slots[s])' = Known(Joystick_slots[s])
        BY <2>13, <3>1 DEF Known
      <4>2. Shifts(s)' = Shifts(s)
        BY <3>1, <4>1, SameEntry
      <4>3. Shifts(s) # 0 => Shifts(s) \in 1 .. Table /\ Shifts(s) # r
        BY <2>2, ShiftsValue
      <4> QED BY <2>8, <3>1, <4>2, <4>3 DEF Kept
    <3> QED BY <2>9, <3>2, <3>3, <3>4
  <2>16. CASE free # {}
    <3> DEFINE f == First(free)
    <3>1. free \in SUBSET Nat
      BY <1>0 DEF JoyAssumption
    <3>2. f \in free
      <4> HIDE DEF free
      <4> QED BY <2>16, <3>1, FirstIn
    <3>3. f \in Slots /\ f \in enabled /\ Joystick_slots[f] = None
      BY <1>0, <3>2
    <3>4. Joystick_slots' = [Joystick_slots EXCEPT ![f] = id] /\ changed' = [changed EXCEPT ![f] = 0]
      BY <1>0, <1>2, <2>16 DEF Added
    <3> HIDE DEF f
    <3>5. Joystick_slots \in [Slots -> {None} \cup connected] /\ changed \in [Slots -> 0 .. 2]
      BY DEF HostTypes
    <3>6. \A s \in Slots : Joystick_slots'[s] = IF s = f THEN id ELSE Joystick_slots[s]
      BY <3>3, <3>4, <3>5
    <3>7. \A s \in Slots : changed'[s] = IF s = f THEN 0 ELSE changed[s]
      BY <3>3, <3>4, <3>5
    <3>8. Joystick_slots' \in [Slots -> {None} \cup connected] /\ changed' \in [Slots -> 0 .. 2]
      BY <1>0, <3>3, <3>4, <3>5
    <3>9. HostTypes'
      BY <1>0, <2>7, <3>8 DEF HostTypes, TableType
    <3>10. \A s \in Slots : Joystick_slots'[s] # None =>
              s \in enabled' /\ {i \in 1 .. Table : controllers'[i].instance_id = Joystick_slots'[s]} # {}
      <4> SUFFICES ASSUME NEW s \in Slots, Joystick_slots'[s] # None
                   PROVE  s \in enabled' /\ {i \in 1 .. Table : controllers'[i].instance_id = Joystick_slots'[s]} # {}
        OBVIOUS
      <4>1. CASE s = f
        BY <1>0, <2>11, <3>3, <3>6, <4>1
      <4>2. CASE s # f
        BY <1>0, <2>13, <3>6, <4>2 DEF Plugged
      <4> QED BY <4>1, <4>2
    <3>11. \A s, z \in Slots : Joystick_slots'[s] = Joystick_slots'[z] /\ s # z => Joystick_slots'[s] = None
      BY <2>12, <3>6 DEF Plugged
    <3>12. Plugged'
      BY <1>0, <2>14, <3>10, <3>11 DEF Plugged, Known
    <3>13. ASSUME NEW s \in Slots PROVE Kept(s)
      <4>1. CASE s = f
        BY <3>7, <4>1 DEF Kept
      <4>2. CASE s # f
        <5>0. Joystick_slots'[s] = Joystick_slots[s] /\ changed'[s] = changed[s]
          BY <3>6, <3>7, <4>2
        <5>1. Joystick_slots[s] # None => Known(Joystick_slots[s])' = Known(Joystick_slots[s])
          BY <2>13, <5>0 DEF Known
        <5>2. Shifts(s)' = Shifts(s)
          BY <5>0, <5>1, SameEntry
        <5>3. Shifts(s) # 0 => Shifts(s) \in 1 .. Table /\ Shifts(s) # r
          BY <2>2, ShiftsValue
        <5> QED BY <2>8, <5>0, <5>2, <5>3 DEF Kept
      <4> QED BY <4>1, <4>2
    <3> QED BY <2>9, <3>9, <3>12, <3>13
  <2> QED BY <2>15, <2>16
<1> QED BY <1>1, <1>2

LEMMA HostRemoves ==
    ASSUME JoyAssumption, HostTypes, Plugged, ScanTypes, NEW id \in 1 .. MaxId, joystick_remove(id)
    PROVE  HostTypes' /\ Plugged' /\ (\A i \in 1 .. Table : Len(controllers'[i].shift_mask) <= Bits)
           /\ \A s \in Slots : Kept(s)
<1>0. /\ id \in connected /\ id \notin announced /\ id \in 1 .. last_id /\ id # None
      /\ announced' = announced /\ connected' = connected \ {id}
      /\ enabled' = enabled /\ last_id' = last_id
      /\ connected \subseteq 1 .. last_id /\ announced \subseteq connected /\ last_id \in 0 .. MaxId
      /\ enabled \subseteq Slots
  BY DEF HostTypes, joystick_remove, None
<1>1. \A s \in Slots : /\ changed'[s] = IF Joystick_slots[s] = id THEN 0 ELSE changed[s]
                       /\ Joystick_slots'[s] = IF Joystick_slots[s] = id THEN None ELSE Joystick_slots[s]
  BY DEF joystick_remove, SlotsWithout
<1>2. changed' \in [Slots -> 0 .. 2] /\ Joystick_slots' \in [Slots -> {None} \cup connected']
  <2>1. changed \in [Slots -> 0 .. 2] /\ Joystick_slots \in [Slots -> {None} \cup connected]
    BY DEF HostTypes
  <2> QED BY <1>0, <2>1 DEF joystick_remove, SlotsWithout
<1>3. controllers \in [1 .. Table -> TableType]
  BY DEF HostTypes
<1>4. /\ controllers' \in [1 .. Table -> TableType]
      /\ \A i \in 1 .. Table : controllers'[i].shift_mask = controllers[i].shift_mask
      /\ \A i \in 1 .. Table : controllers'[i].instance_id # controllers[i].instance_id =>
            controllers[i].instance_id = id /\ controllers'[i].instance_id = None
  <2>1. CASE Known(id) = {}
    <3>1. controllers' = controllers
      BY <2>1 DEF joystick_remove
    <3> QED BY <1>3, <3>1
  <2>2. CASE Known(id) # {}
    <3> DEFINE r == First(Known(id))
               e == [controllers[r] EXCEPT !.instance_id = None]
    <3>1. r \in Known(id)
      <4>1. Known(id) \in SUBSET Nat
        BY DEF Known
      <4> QED BY <2>2, <4>1, FirstIn
    <3>2. r \in 1 .. Table /\ controllers[r].instance_id = id /\ controllers[r] \in TableType
      BY <1>3, <3>1 DEF Known
    <3>3. controllers' = [controllers EXCEPT ![r] = e]
      BY <2>2 DEF joystick_remove
    <3>4. e \in TableType /\ e.instance_id = None /\ e.shift_mask = controllers[r].shift_mask
      BY <3>2 DEF TableType
    <3> HIDE DEF r, e
    <3>5. controllers' \in [1 .. Table -> TableType]
      BY <1>3, <3>2, <3>3, <3>4
    <3>6. \A i \in 1 .. Table : controllers'[i] = IF i = r THEN e ELSE controllers[i]
      BY <1>3, <3>2, <3>3
    <3> QED BY <3>2, <3>4, <3>5, <3>6
  <2> QED BY <2>1, <2>2
<1>5. ASSUME NEW x, x # id, x # None PROVE {i \in 1 .. Table : controllers'[i].instance_id = x} = Known(x)
  BY <1>4, <1>5 DEF Known
<1>6. {i \in 1 .. Table : controllers'[i].instance_id = id} \subseteq Known(id)
  BY <1>0, <1>4 DEF Known
<1>7. HostTypes'
  <2>1. connected' \subseteq 1 .. last_id' /\ announced' \subseteq connected'
    BY <1>0
  <2>2. TableType' = TableType
    BY <1>0 DEF TableType
  <2> QED BY <1>0, <1>2, <1>4, <2>1, <2>2 DEF HostTypes
<1>8. Plugged'
  <2>1. \A s \in Slots : Joystick_slots'[s] # None =>
            s \in enabled' /\ {i \in 1 .. Table : controllers'[i].instance_id = Joystick_slots'[s]} # {}
    BY <1>0, <1>1, <1>5 DEF Plugged
  <2>2. \A s, z \in Slots : Joystick_slots'[s] = Joystick_slots'[z] /\ s # z => Joystick_slots'[s] = None
    BY <1>1 DEF Plugged
  <2>3. ASSUME NEW x \in 1 .. last_id
        PROVE  {i \in 1 .. Table : controllers'[i].instance_id = x} \subseteq Known(x)
    <3>1. x # None
      BY DEF None
    <3> QED BY <1>5, <1>6, <3>1
  <2>4. ASSUME NEW x \in 1 .. last_id,
                 NEW i \in {n \in 1 .. Table : controllers'[n].instance_id = x},
                 NEW j \in {n \in 1 .. Table : controllers'[n].instance_id = x},
                 NEW k \in {n \in 1 .. Table : controllers'[n].instance_id = x}
          PROVE  i = j \/ j = k \/ i = k
    <3>1. i \in Known(x) /\ j \in Known(x) /\ k \in Known(x)
      BY <2>3
    <3> QED BY <3>1 DEF Plugged
  <2>5. ASSUME NEW x \in announced,
                 NEW i \in {n \in 1 .. Table : controllers'[n].instance_id = x},
                 NEW j \in {n \in 1 .. Table : controllers'[n].instance_id = x}
          PROVE  i = j
    <3>1. x \in 1 .. last_id
      BY <1>0
    <3>2. i \in Known(x) /\ j \in Known(x)
      BY <2>3, <3>1
    <3> QED BY <3>2 DEF Plugged
  <2> QED BY <1>0, <2>1, <2>2, <2>4, <2>5 DEF Plugged, Known
<1>9. ASSUME NEW s \in Slots PROVE Kept(s)
  <2>1. CASE Joystick_slots[s] = id
    BY <1>1, <2>1 DEF Kept
  <2>2. CASE Joystick_slots[s] # id
    <3>1. Joystick_slots'[s] = Joystick_slots[s] /\ changed'[s] = changed[s]
      BY <1>1, <2>2
    <3>2. Joystick_slots[s] # None => Known(Joystick_slots[s])' = Known(Joystick_slots[s])
      BY <1>5, <2>2, <3>1 DEF Known
    <3>3. Shifts(s)' = Shifts(s)
      BY <3>1, <3>2, SameEntry
    <3>4. Shifts(s) # 0 => Shifts(s) \in 1 .. Table
      BY ShiftsValue
    <3> QED BY <1>4, <3>1, <3>3, <3>4 DEF Kept
  <2> QED BY <2>1, <2>2
<1>10. \A i \in 1 .. Table : Len(controllers'[i].shift_mask) <= Bits
  BY <1>4 DEF ScanTypes
<1> QED BY <1>7, <1>8, <1>9, <1>10

\* Where only the buttons and the registers of entries change.
SameIds ==
    /\ controllers' \in [1 .. Table -> TableType]
    /\ \A i \in 1 .. Table : controllers'[i].instance_id = controllers[i].instance_id
    /\ UNCHANGED <<enabled, Joystick_slots, connected, announced, last_id>>

LEMMA SameKnown ==
    ASSUME HostTypes, Plugged, SameIds, changed' \in [Slots -> 0 .. 2]
    PROVE  HostTypes' /\ Plugged' /\ \A s \in Slots : Shifts(s)' = Shifts(s)
<1>1. \A x : {i \in 1 .. Table : controllers'[i].instance_id = x} = Known(x)
  BY DEF SameIds, Known
<1>2. HostTypes'
  <2>1. TableType' = TableType
    BY DEF SameIds, TableType
  <2> QED BY <2>1 DEF SameIds, HostTypes
<1>3. Plugged'
  <2>1. \A x : {i \in 1 .. Table : controllers'[i].instance_id = x} = {i \in 1 .. Table : controllers[i].instance_id = x}
    BY <1>1 DEF Known
  <2> QED BY <2>1 DEF SameIds, Plugged, Known
<1>4. ASSUME NEW s \in Slots PROVE Shifts(s)' = Shifts(s)
  <2>1. Known(Joystick_slots[s])' = Known(Joystick_slots[s])
    BY <1>1 DEF Known, SameIds
  <2> QED BY <2>1, SameEntry DEF SameIds
<1> QED BY <1>2, <1>3, <1>4

LEMMA HostConnects ==
    ASSUME JoyAssumption, HostTypes, Plugged, ScanTypes, Connect
    PROVE  HostTypes' /\ Plugged' /\ (\A i \in 1 .. Table : Len(controllers'[i].shift_mask) <= Bits)
           /\ \A s \in Slots : Kept(s)
<1> DEFINE n == last_id + 1
<1>0. /\ n \in 1 .. MaxId /\ last_id' = n /\ n \notin 1 .. last_id /\ last_id \in Nat
      /\ connected' = connected \cup {n} /\ announced' = announced \cup {n}
      /\ connected \subseteq 1 .. last_id /\ announced \subseteq connected
      /\ UNCHANGED <<controllers, enabled, Joystick_slots, changed>>
      /\ 1 .. last_id' = 1 .. last_id \cup {n}
  BY DEF Connect, HostTypes, JoyAssumption
<1> HIDE DEF n
<1>1. controllers' \in [1 .. Table -> TableType']
  <2>1. controllers \in [1 .. Table -> TableType]
    BY DEF HostTypes
  <2>2. ASSUME NEW e \in TableType PROVE e \in TableType'
    BY <1>0, <2>2 DEF TableType
  <2> QED BY <1>0, <2>1, <2>2
<1>2. Known(n) = {}
  <2>1. n # None /\ \A i \in 1 .. Table : controllers[i].instance_id \in {None} \cup 1 .. last_id
    BY <1>0 DEF HostTypes, TableType, None
  <2> QED BY <1>0, <2>1 DEF Known
<1>3. HostTypes'
  <2>1. Joystick_slots' \in [Slots -> {None} \cup connected'] /\ changed' \in [Slots -> 0 .. 2]
    BY <1>0 DEF HostTypes
  <2>2. connected' \subseteq 1 .. last_id' /\ announced' \subseteq connected' /\ last_id' \in 0 .. MaxId
        /\ enabled' \subseteq Slots
    BY <1>0 DEF HostTypes
  <2> QED BY <1>1, <2>1, <2>2 DEF HostTypes
<1>4. Plugged'
  <2>1. \A x : Known(x)' = Known(x)
    BY <1>0 DEF Known
  <2>2. ASSUME NEW x \in 1 .. last_id', NEW i \in Known(x), NEW j \in Known(x), NEW k \in Known(x)
        PROVE  i = j \/ j = k \/ i = k
    BY <1>0, <1>2 DEF Plugged
  <2>3. ASSUME NEW x \in announced', NEW i \in Known(x), NEW j \in Known(x)
        PROVE  i = j
    BY <1>0, <1>2 DEF Plugged
  <2>4. ASSUME NEW s \in Slots, Joystick_slots'[s] # None
        PROVE  s \in enabled' /\ Known(Joystick_slots[s])' # {}
    BY <1>0, <2>1, <2>4 DEF Plugged
  <2>5. \A s, z \in Slots : Joystick_slots'[s] = Joystick_slots'[z] /\ s # z => Joystick_slots'[s] = None
    BY <1>0 DEF Plugged
  <2> QED BY <1>0, <2>2, <2>3, <2>4, <2>5 DEF Plugged, Known
<1>5. \A s \in Slots : Kept(s)
  BY <1>0 DEF Kept, Shifts, Known
<1> QED BY <1>0, <1>3, <1>4, <1>5 DEF ScanTypes

LEMMA HostPresses ==
    ASSUME JoyAssumption, HostTypes, Plugged, ScanTypes, NEW id \in 1 .. MaxId, NEW b \in 1 .. Buttons, Press(id, b)
    PROVE  HostTypes' /\ Plugged' /\ (\A i \in 1 .. Table : Len(controllers'[i].shift_mask) <= Bits)
           /\ \A s \in Slots : Kept(s)
<1> DEFINE r == First(Known(id))
           m == controllers[r].button_mask
           w == IF b \in m THEN m \ {b} ELSE m \cup {b}
           e == [controllers[r] EXCEPT !.button_mask = w]
<1>1. r \in Known(id)
  <2>1. Known(id) \in SUBSET Nat /\ Known(id) # {}
    BY DEF Known, Press
  <2> QED BY <2>1, FirstIn
<1>2. controllers \in [1 .. Table -> TableType]
  BY DEF HostTypes
<1>3. r \in 1 .. Table /\ controllers[r] \in TableType /\ m \in SUBSET (1 .. Buttons)
  BY <1>1, <1>2 DEF Known, TableType
<1>4. w \in SUBSET (1 .. Buttons)
  BY <1>3
<1>5. controllers' = [controllers EXCEPT ![r] = e]
  BY DEF Press
<1> HIDE DEF w
<1>6. e \in TableType /\ e.instance_id = controllers[r].instance_id /\ e.shift_mask = controllers[r].shift_mask
  BY <1>3, <1>4 DEF TableType
<1> HIDE DEF r, e
<1>7. controllers' \in [1 .. Table -> TableType]
  BY <1>2, <1>3, <1>5, <1>6
<1>8. \A i \in 1 .. Table : controllers'[i] = IF i = r THEN e ELSE controllers[i]
  BY <1>2, <1>3, <1>5
<1>9. \A i \in 1 .. Table : controllers'[i].instance_id = controllers[i].instance_id
                            /\ controllers'[i].shift_mask = controllers[i].shift_mask
  BY <1>6, <1>8
<1>10. SameIds /\ changed' = changed
  BY <1>7, <1>9 DEF SameIds, Press
<1>11. changed' \in [Slots -> 0 .. 2]
  BY <1>10 DEF HostTypes
<1>12. HostTypes' /\ Plugged' /\ \A s \in Slots : Shifts(s)' = Shifts(s)
  BY <1>10, <1>11, SameKnown
<1>13. ASSUME NEW s \in Slots PROVE Kept(s)
  <2>1. Shifts(s) # 0 => Shifts(s) \in 1 .. Table
    BY ShiftsValue
  <2> QED BY <1>9, <1>10, <1>12, <2>1 DEF Kept
<1> QED BY <1>9, <1>12, <1>13 DEF ScanTypes

\* Every step of the host keeps the invariant.
LEMMA HostStep ==
    ASSUME JoyAssumption, JoyInv, Host
    PROVE  JoyInv'
<1>1. HostTypes /\ Plugged /\ ScanTypes /\ AtRest /\ InScan
  BY DEF JoyInv
<1>2. HostTypes' /\ Plugged' /\ (\A i \in 1 .. Table : Len(controllers'[i].shift_mask) <= Bits)
      /\ \A s \in Slots : Kept(s)
  <2>1. CASE Connect
    BY <1>1, <2>1, HostConnects
  <2>2. ASSUME NEW id \in 1 .. MaxId, joystick_add(id) \/ joystick_remove(id)
        PROVE  HostTypes' /\ Plugged' /\ (\A i \in 1 .. Table : Len(controllers'[i].shift_mask) <= Bits)
               /\ \A s \in Slots : Kept(s)
    BY <1>1, <2>2, HostAdds, HostRemoves
  <2>3. ASSUME NEW id \in 1 .. MaxId, NEW b \in 1 .. Buttons, Press(id, b)
        PROVE  HostTypes' /\ Plugged' /\ (\A i \in 1 .. Table : Len(controllers'[i].shift_mask) <= Bits)
               /\ \A s \in Slots : Kept(s)
    BY <1>1, <2>3, HostPresses
  <2> QED BY <2>1, <2>2, <2>3 DEF Host
<1>3. UNCHANGED <<Joystick_latch, Joystick_data, scan, scans, held, seen, clock>>
  BY DEF Host, reading
<1>4. ScanTypes'
  BY <1>1, <1>2, <1>3 DEF ScanTypes
<1>5. AtRest'
  <2> SUFFICES ASSUME scan = -1, NEW s \in Slots, changed'[s] # 0, Shifts(s)' # 0
               PROVE  Joystick_data[s] = 0
    BY <1>3 DEF AtRest
  <2>1. changed[s] # 0 /\ Shifts(s) # 0
    BY <1>2 DEF Kept
  <2> QED BY <1>1, <2>1 DEF AtRest
<1>6. InScan'
  <2> SUFFICES ASSUME scan # -1, NEW s \in Slots, changed'[s] # 0
               PROVE  /\ held[s] = NoController <=> Shifts(s)' = 0
                      /\ Shifts(s)' # 0 => ShiftedOut(held[s], scan + 1, (controllers[Shifts(s)].shift_mask)')
                      /\ scan # 0 \/ changed'[s] = 2 => Joystick_data[s] = Expected(held[s], scan + 1)
                      /\ Len(seen[s]) = scan
                      /\ changed'[s] = 2 => \A k \in 1 .. scan : seen[s][k] = Expected(held[s], k)
    BY <1>3 DEF InScan
  <2>1. /\ changed'[s] = changed[s] /\ Shifts(s)' = Shifts(s)
        /\ Shifts(s) # 0 => (controllers[Shifts(s)].shift_mask)' = controllers[Shifts(s)].shift_mask
    BY <1>2 DEF Kept
  <2>2. /\ held[s] = NoController <=> Shifts(s) = 0
        /\ Shifts(s) # 0 => ShiftedOut(held[s], scan + 1, controllers[Shifts(s)].shift_mask)
        /\ scan # 0 \/ changed[s] = 2 => Joystick_data[s] = Expected(held[s], scan + 1)
        /\ Len(seen[s]) = scan
        /\ changed[s] = 2 => \A k \in 1 .. scan : seen[s][k] = Expected(held[s], k)
    BY <1>1, <2>1 DEF InScan
  <2> QED BY <2>1, <2>2
<1> QED BY <1>2, <1>4, <1>5, <1>6 DEF JoyInv

\* do_shift on a table with the same controllers.
LEMMA Shifting ==
    ASSUME JoyAssumption, HostTypes, Plugged, NEW T \in [1 .. Table -> TableType],
           \A i \in 1 .. Table : T[i].instance_id = controllers[i].instance_id /\ Len(T[i].shift_mask) <= Bits,
           NEW D \in [Slots -> {0, 1}]
    PROVE  /\ AfterShift(T) \in [1 .. Table -> TableType]
           /\ \A i \in 1 .. Table : /\ AfterShift(T)[i].instance_id = controllers[i].instance_id
                                    /\ Len(AfterShift(T)[i].shift_mask) <= Bits
           /\ Shifted(T, D) \in [Slots -> {0, 1}]
           /\ \A s \in Slots : Shifts(s) = 0 => Shifted(T, D)[s] = 1
           /\ \A s \in Slots : Shifts(s) # 0 =>
                 /\ Shifts(s) \in 1 .. Table
                 /\ D[s] = 0 => Shifted(T, D)[s] = Bit(T[Shifts(s)].shift_mask)
                 /\ AfterShift(T)[Shifts(s)].shift_mask = Rest(T[Shifts(s)].shift_mask)
<1>0. \A s \in Slots : Shifts(s) # 0 => Shifts(s) \in 1 .. Table
  BY ShiftsValue
<1>1. ASSUME NEW i \in 1 .. Table
      PROVE  LET e == [T[i] EXCEPT !.shift_mask = Rest(@)]
             IN  /\ e \in TableType /\ e.instance_id = controllers[i].instance_id
                 /\ e.shift_mask = Rest(T[i].shift_mask) /\ Len(e.shift_mask) <= Bits
  <2> DEFINE e == [T[i] EXCEPT !.shift_mask = Rest(@)]
             mask == T[i].shift_mask
  <2>1. T[i] \in TableType /\ mask \in Seq({0, 1}) /\ T[i].instance_id = controllers[i].instance_id
        /\ Len(mask) <= Bits
    BY DEF TableType
  <2>2. Rest(mask) \in Seq({0, 1}) /\ Len(Rest(mask)) <= Len(mask)
    BY <2>1, RestType
  <2>3. e \in TableType /\ e.instance_id = T[i].instance_id /\ e.shift_mask = Rest(mask)
    BY <2>1, <2>2 DEF TableType
  <2>4. Len(Rest(mask)) <= Bits
    <3>1. PICK a \in Nat, b \in Nat : a = Len(mask) /\ b = Len(Rest(mask))
      BY <2>1, <2>2
    <3>2. Bits \in Nat
      BY BitsType
    <3> QED BY <2>1, <2>2, <3>1, <3>2
  <2> HIDE DEF e, mask
  <2>5. e \in TableType /\ e.instance_id = controllers[i].instance_id
        /\ e.shift_mask = Rest(mask) /\ Len(e.shift_mask) <= Bits
    BY <2>1, <2>3, <2>4
  <2> QED BY <2>5 DEF e, mask
<1>2. ASSUME NEW i \in 1 .. Table
      PROVE  /\ AfterShift(T)[i] \in TableType
             /\ AfterShift(T)[i].instance_id = controllers[i].instance_id
             /\ Len(AfterShift(T)[i].shift_mask) <= Bits
             /\ (\E s \in Slots : Shifts(s) = i) => AfterShift(T)[i].shift_mask = Rest(T[i].shift_mask)
  <2> DEFINE e == [T[i] EXCEPT !.shift_mask = Rest(@)]
  <2>1. AfterShift(T)[i] = IF \E s \in Slots : Shifts(s) = i THEN e ELSE T[i]
    BY DEF AfterShift
  <2>2. /\ e \in TableType /\ e.instance_id = controllers[i].instance_id
        /\ e.shift_mask = Rest(T[i].shift_mask) /\ Len(e.shift_mask) <= Bits
    BY <1>1
  <2> HIDE DEF e
  <2> QED BY <2>1, <2>2
<1>3. AfterShift(T) \in [1 .. Table -> TableType]
  <2>1. AfterShift(T) = [i \in 1 .. Table |-> AfterShift(T)[i]]
    BY DEF AfterShift
  <2> QED BY <1>2, <2>1
<1>4. ASSUME NEW s \in Slots
      PROVE  /\ Shifted(T, D)[s] = IF D[s] = 1 \/ Shifts(s) = 0 THEN 1 ELSE Bit(T[Shifts(s)].shift_mask)
             /\ Shifted(T, D)[s] \in {0, 1}
  <2>1. Shifted(T, D)[s] = IF D[s] = 1 \/ Shifts(s) = 0 THEN 1 ELSE Bit(T[Shifts(s)].shift_mask)
    BY DEF Shifted
  <2>2. Shifts(s) # 0 => Bit(T[Shifts(s)].shift_mask) \in {0, 1}
    <3> SUFFICES ASSUME Shifts(s) # 0 PROVE Bit(T[Shifts(s)].shift_mask) \in {0, 1}
      OBVIOUS
    <3>1. T[Shifts(s)].shift_mask \in Seq({0, 1})
      BY <1>0 DEF TableType
    <3> QED BY <3>1, RestType
  <2> QED BY <2>1, <2>2
<1>5. Shifted(T, D) \in [Slots -> {0, 1}]
  <2>1. Shifted(T, D) = [s \in Slots |-> Shifted(T, D)[s]]
    BY DEF Shifted
  <2> QED BY <1>4, <2>1
<1>6. ASSUME NEW s \in Slots, Shifts(s) # 0
      PROVE  /\ Shifts(s) \in 1 .. Table
             /\ D[s] = 0 => Shifted(T, D)[s] = Bit(T[Shifts(s)].shift_mask)
             /\ AfterShift(T)[Shifts(s)].shift_mask = Rest(T[Shifts(s)].shift_mask)
  BY <1>0, <1>2, <1>4, <1>6
<1> QED BY <1>2, <1>3, <1>4, <1>5, <1>6

\* The latch fills the register of every controller.
LEMMA LatchedValue ==
    ASSUME JoyAssumption, HostTypes, ScanTypes
    PROVE  /\ Latched \in [1 .. Table -> TableType]
           /\ \A i \in 1 .. Table : Latched[i].instance_id = controllers[i].instance_id
                                    /\ Len(Latched[i].shift_mask) <= Bits
           /\ \A i \in 1 .. Table : controllers[i].instance_id # None =>
                 Latched[i].shift_mask = Register(controllers[i].button_mask)
<1>0. Bits \in Nat
  BY BitsType
<1>1. ASSUME NEW i \in 1 .. Table
      PROVE  /\ Latched[i] \in TableType
             /\ Latched[i].instance_id = controllers[i].instance_id
             /\ Len(Latched[i].shift_mask) <= Bits
             /\ controllers[i].instance_id # None => Latched[i].shift_mask = Register(controllers[i].button_mask)
  <2> DEFINE m == controllers[i].button_mask
             e == [controllers[i] EXCEPT !.shift_mask = Register(m)]
  <2>1. Latched[i] = IF controllers[i].instance_id = None THEN controllers[i] ELSE e
    BY DEF Latched, Register
  <2>2. controllers[i] \in TableType /\ m \in SUBSET (1 .. Buttons)
    BY DEF HostTypes, TableType
  <2>3. Register(m) \in Seq({0, 1}) /\ Len(Register(m)) = Bits
    <3> HIDE DEF m
    <3> QED BY <2>2, FullRegister
  <2>4. e \in TableType /\ e.instance_id = controllers[i].instance_id /\ e.shift_mask = Register(m)
    BY <2>2, <2>3 DEF TableType
  <2>5. Len(controllers[i].shift_mask) <= Bits
    BY DEF ScanTypes
  <2>6. Len(Register(m)) <= Bits
    BY <1>0, <2>3
  <2> HIDE DEF e
  <2> QED BY <2>1, <2>2, <2>4, <2>5, <2>6
<1>2. Latched = [i \in 1 .. Table |-> Latched[i]]
  BY DEF Latched
<1> QED BY <1>1, <1>2

LEMMA LatchStep ==
    ASSUME JoyAssumption, JoyInv, Latch
    PROVE  JoyInv'
<1>1. HostTypes /\ Plugged /\ ScanTypes /\ AtRest /\ InScan
  BY DEF JoyInv
<1> DEFINE D == Joystick_data
           T == Latched
<1>2. /\ Joystick_latch' = TRUE
      /\ Joystick_data' = Shifted(T, D) /\ controllers' = AfterShift(T)
      /\ UNCHANGED <<enabled, Joystick_slots, connected, announced, last_id>>
      /\ scan = -1 /\ scan' = 0 /\ scans' = scans + 1 /\ scans < MaxScans /\ clock' = clock
      /\ seen' = [s \in Slots |-> <<>>]
  BY DEF Latch, WritePortA
<1>3. D \in [Slots -> {0, 1}]
  BY <1>1 DEF ScanTypes
<1>4. /\ T \in [1 .. Table -> TableType]
      /\ \A i \in 1 .. Table : T[i].instance_id = controllers[i].instance_id
                               /\ Len(T[i].shift_mask) <= Bits
      /\ \A i \in 1 .. Table : controllers[i].instance_id # None =>
            T[i].shift_mask = Register(controllers[i].button_mask)
  BY <1>1, LatchedValue
<1> HIDE DEF D, T
<1>5. /\ AfterShift(T) \in [1 .. Table -> TableType]
      /\ \A i \in 1 .. Table : /\ AfterShift(T)[i].instance_id = controllers[i].instance_id
                               /\ Len(AfterShift(T)[i].shift_mask) <= Bits
      /\ Shifted(T, D) \in [Slots -> {0, 1}]
      /\ \A s \in Slots : Shifts(s) = 0 => Shifted(T, D)[s] = 1
      /\ \A s \in Slots : Shifts(s) # 0 =>
            /\ Shifts(s) \in 1 .. Table
            /\ D[s] = 0 => Shifted(T, D)[s] = Bit(T[Shifts(s)].shift_mask)
            /\ AfterShift(T)[Shifts(s)].shift_mask = Rest(T[Shifts(s)].shift_mask)
  BY <1>1, <1>3, <1>4, Shifting
<1>6. SameIds
  BY <1>2, <1>5 DEF SameIds
<1>7. \A s \in Slots : changed'[s] \in 1 .. 2 /\ (changed'[s] = 2 => changed[s] # 0)
  <2>1. changed \in [Slots -> 0 .. 2]
    BY <1>1 DEF HostTypes
  <2>2. changed' = [s \in Slots |-> IF changed[s] = 2 THEN 2 ELSE changed[s] + 1]
    BY DEF Latch
  <2> QED BY <2>1, <2>2
<1>8. changed' \in [Slots -> 0 .. 2]
  <2>1. changed' = [s \in Slots |-> changed'[s]]
    BY DEF Latch
  <2>2. \A s \in Slots : changed'[s] \in 0 .. 2
    BY <1>7
  <2> QED BY <2>1, <2>2
<1>9. HostTypes' /\ Plugged' /\ \A s \in Slots : Shifts(s)' = Shifts(s)
  BY <1>1, <1>6, <1>8, SameKnown
<1>10. ASSUME NEW s \in Slots
       PROVE  /\ held'[s] = IF Shifts(s) = 0 THEN NoController
                            ELSE (1 .. Buttons) \ controllers[Shifts(s)].button_mask
              /\ Shifts(s) # 0 => controllers[Shifts(s)].button_mask \in SUBSET (1 .. Buttons)
                                  /\ controllers[Shifts(s)].instance_id # None
  <2>1. held'[s] = IF Shifts(s) = 0 THEN NoController
                   ELSE (1 .. Buttons) \ controllers[Shifts(s)].button_mask
    BY DEF Latch
  <2>2. Shifts(s) # 0 => controllers[Shifts(s)].button_mask \in SUBSET (1 .. Buttons)
    BY <1>1, <1>5 DEF HostTypes, TableType
  <2>3. Shifts(s) # 0 => controllers[Shifts(s)].instance_id # None
    BY <1>1, ShiftsValue
  <2> QED BY <2>1, <2>2, <2>3
<1>11. held' \in [Slots -> (SUBSET (1 .. Buttons)) \cup {NoController}]
  <2>1. held' = [s \in Slots |-> held'[s]]
    BY DEF Latch
  <2>2. \A s \in Slots : held'[s] \in (SUBSET (1 .. Buttons)) \cup {NoController}
    BY <1>10
  <2> QED BY <2>1, <2>2
<1>12. ScanTypes'
  <2>1. seen' \in [Slots -> Seq({0, 1})]
    <3>1. <<>> \in Seq({0, 1})
      OBVIOUS
    <3> QED BY <1>2, <3>1
  <2>2. scans' \in 0 .. MaxScans
    BY <1>1, <1>2 DEF ScanTypes, JoyAssumption
  <2>3. Bits \in Nat /\ Bits >= 1 /\ ScanLen = Bits + 1
    BY BitsType
  <2>4. scan' \in -1 .. ScanLen /\ scan' # ScanLen
    BY <1>2, <2>3
  <2>5. clock' = FALSE
    BY <1>1, <1>2 DEF ScanTypes
  <2> QED BY <1>2, <1>5, <1>11, <2>1, <2>2, <2>4, <2>5 DEF ScanTypes
<1>13. ASSUME NEW s \in Slots
       PROVE  /\ held'[s] = NoController <=> Shifts(s) = 0
              /\ Shifts(s) # 0 => ShiftedOut(held'[s], 1, AfterShift(T)[Shifts(s)].shift_mask)
              /\ changed'[s] = 2 => Shifted(T, D)[s] = Expected(held'[s], 1)
  <2>1. CASE Shifts(s) = 0
    <3>1. held'[s] = NoController /\ Shifted(T, D)[s] = 1
      BY <1>5, <1>10, <2>1
    <3>2. Expected(held'[s], 1) = 1
      BY <3>1 DEF Expected
    <3> QED BY <2>1, <3>1, <3>2
  <2>2. CASE Shifts(s) # 0
    <3> DEFINE m == controllers[Shifts(s)].button_mask
               h == (1 .. Buttons) \ m
    <3>1. m \in SUBSET (1 .. Buttons) /\ held'[s] = h /\ T[Shifts(s)].shift_mask = Register(m)
      BY <1>4, <1>5, <1>10, <2>2
    <3> HIDE DEF m
    <3>2. /\ Register(m) \in Seq({0, 1}) /\ h # NoController
          /\ ShiftedOut(h, 0, Register(m))
      BY <3>1, FullRegister
    <3> HIDE DEF h
    <3>3. Bit(Register(m)) = Expected(h, 0 + 1) /\ ShiftedOut(h, 0 + 1, Rest(Register(m)))
      <4>1. 0 \in Nat
        OBVIOUS
      <4> QED BY <3>2, <4>1, NextBit
    <3>4. 0 + 1 = 1
      OBVIOUS
    <3>5. changed'[s] = 2 => D[s] = 0
      BY <1>1, <1>2, <1>7, <2>2 DEF AtRest, D
    <3>6. D[s] = 0 => Shifted(T, D)[s] = Bit(T[Shifts(s)].shift_mask)
      BY <1>5, <2>2
    <3>7. AfterShift(T)[Shifts(s)].shift_mask = Rest(T[Shifts(s)].shift_mask)
      BY <1>5, <2>2
    <3> QED BY <2>2, <3>1, <3>2, <3>3, <3>4, <3>5, <3>6, <3>7
  <2> QED BY <2>1, <2>2
<1>14. InScan'
  <2> SUFFICES ASSUME NEW s \in Slots
               PROVE  /\ held'[s] = NoController <=> Shifts(s)' = 0
                      /\ Shifts(s)' # 0 => ShiftedOut(held'[s], 0 + 1, (controllers[Shifts(s)].shift_mask)')
                      /\ changed'[s] = 2 => Joystick_data'[s] = Expected(held'[s], 0 + 1)
                      /\ Len(seen'[s]) = 0
                      /\ \A k \in 1 .. 0 : seen'[s][k] = Expected(held'[s], k)
    BY <1>2 DEF InScan
  <2>1. 0 + 1 = 1 /\ Len(seen'[s]) = 0 /\ 1 .. 0 = {}
    BY <1>2
  <2>2. Shifts(s)' = Shifts(s)
    BY <1>9
  <2> QED BY <1>2, <1>13, <2>1, <2>2
<1>15. AtRest'
  BY <1>2 DEF AtRest
<1> QED BY <1>9, <1>12, <1>14, <1>15 DEF JoyInv

LEMMA UnlatchStep ==
    ASSUME JoyAssumption, JoyInv, Unlatch
    PROVE  JoyInv'
<1>1. /\ Joystick_latch' = FALSE
      /\ UNCHANGED <<Joystick_data, controllers, enabled, Joystick_slots, connected, announced, last_id,
                     scan, scans, held, seen, clock, changed>>
  BY DEF Unlatch, WritePortA, ClockShifts, reading
<1>2. HostTypes' /\ Plugged'
  BY <1>1 DEF JoyInv, HostTypes, TableType, Plugged, Known
<1>3. ScanTypes'
  BY <1>1 DEF JoyInv, ScanTypes
<1>4. AtRest' /\ InScan'
  BY <1>1 DEF JoyInv, AtRest, InScan, Shifts, Known
<1> QED BY <1>2, <1>3, <1>4 DEF JoyInv

LEMMA ClockLowStep ==
    ASSUME JoyAssumption, JoyInv, ClockLow
    PROVE  JoyInv'
<1>1. /\ Joystick_latch' = FALSE /\ clock /\ clock' = FALSE
      /\ scan' = IF scan = ScanLen THEN -1 ELSE scan
      /\ UNCHANGED <<Joystick_data, controllers, enabled, Joystick_slots, connected, announced, last_id,
                     scans, held, seen, changed>>
  BY DEF ClockLow, WritePortA, ClockShifts
<1>2. HostTypes' /\ Plugged'
  BY <1>1 DEF JoyInv, HostTypes, TableType, Plugged, Known
<1>3. Bits \in Nat /\ ScanLen = Bits + 1 /\ scan \in -1 .. ScanLen /\ scan >= 1 /\ Buttons \in Nat /\ Bits >= Buttons
  BY <1>1, BitsType DEF JoyInv, ScanTypes
<1>4. ScanTypes'
  <2>1. scan' \in -1 .. ScanLen /\ scan' # ScanLen
    BY <1>1, <1>3
  <2> QED BY <1>1, <2>1 DEF JoyInv, ScanTypes
<1>5. \A s \in Slots : Shifts(s)' = Shifts(s)
  BY <1>1 DEF Shifts, Known
<1>6. CASE scan = ScanLen
  <2>1. AtRest'
    <3> SUFFICES ASSUME NEW s \in Slots, changed[s] # 0, Shifts(s) # 0
                 PROVE  Joystick_data[s] = 0
      BY <1>1, <1>5 DEF AtRest
    <3>1. held[s] # NoController /\ Joystick_data[s] = Expected(held[s], scan + 1)
      BY <1>3 DEF JoyInv, InScan
    <3>2. ~ (scan + 1 <= Bits) /\ ~ (scan + 1 <= Buttons)
      BY <1>3, <1>6
    <3> QED BY <3>1, <3>2 DEF Expected
  <2>2. InScan'
    BY <1>1, <1>6 DEF InScan
  <2> QED BY <1>2, <1>4, <2>1, <2>2 DEF JoyInv
<1>7. CASE scan # ScanLen
  <2>1. scan' = scan
    BY <1>1, <1>7
  <2>2. AtRest' /\ InScan'
    BY <1>1, <2>1 DEF JoyInv, AtRest, InScan, Shifts, Known
  <2> QED BY <1>2, <1>4, <2>2 DEF JoyInv
<1> QED BY <1>6, <1>7

LEMMA ReadStep ==
    ASSUME JoyAssumption, JoyInv, Read
    PROVE  JoyInv'
<1>1. HostTypes /\ Plugged /\ ScanTypes /\ AtRest /\ InScan
  BY DEF JoyInv
<1>2. /\ Joystick_latch' = FALSE /\ clock' = TRUE
      /\ Joystick_data' = Shifted(controllers, Zeros) /\ controllers' = AfterShift(controllers)
      /\ UNCHANGED <<enabled, Joystick_slots, connected, announced, last_id, scans, held, changed>>
      /\ scan \in 0 .. ScanLen - 1 /\ scan' = scan + 1
      /\ seen' = [s \in Slots |-> Append(seen[s], Joystick_data[s])]
  BY DEF Read, WritePortA, ClockShifts
<1>3. Bits \in Nat /\ ScanLen = Bits + 1
  BY BitsType
<1>4. scan \in Nat /\ scan' \in -1 .. ScanLen /\ scan' >= 1 /\ scan # -1 /\ scan' # -1 /\ scan' # 0
  BY <1>2, <1>3
<1>5. /\ controllers \in [1 .. Table -> TableType]
      /\ \A i \in 1 .. Table : Len(controllers[i].shift_mask) <= Bits
      /\ Zeros \in [Slots -> {0, 1}] /\ \A s \in Slots : Zeros[s] = 0
  BY <1>1 DEF HostTypes, ScanTypes, Zeros
<1> DEFINE A == AfterShift(controllers)
           N == Shifted(controllers, Zeros)
<1>6. /\ A \in [1 .. Table -> TableType]
      /\ \A i \in 1 .. Table : /\ A[i].instance_id = controllers[i].instance_id
                               /\ Len(A[i].shift_mask) <= Bits
      /\ N \in [Slots -> {0, 1}]
      /\ \A s \in Slots : Shifts(s) = 0 => N[s] = 1
      /\ \A s \in Slots : Shifts(s) # 0 =>
            /\ Shifts(s) \in 1 .. Table
            /\ N[s] = Bit(controllers[Shifts(s)].shift_mask)
            /\ A[Shifts(s)].shift_mask = Rest(controllers[Shifts(s)].shift_mask)
  BY <1>1, <1>5, Shifting
<1>7. controllers' = A /\ Joystick_data' = N
  BY <1>2
<1> HIDE DEF A, N
<1>8. SameIds
  BY <1>2, <1>6, <1>7 DEF SameIds
<1>9. HostTypes' /\ Plugged' /\ \A s \in Slots : Shifts(s)' = Shifts(s)
  <2>1. changed' \in [Slots -> 0 .. 2]
    BY <1>1, <1>2 DEF HostTypes
  <2> QED BY <1>1, <1>8, <2>1, SameKnown
<1>10. ScanTypes'
  <2>1. seen' \in [Slots -> Seq({0, 1})]
    <3>1. \A s \in Slots : Append(seen[s], Joystick_data[s]) \in Seq({0, 1})
      BY <1>1 DEF ScanTypes
    <3> QED BY <1>2, <3>1
  <2> QED BY <1>1, <1>2, <1>4, <1>6, <1>7, <2>1 DEF ScanTypes
<1>11. AtRest'
  BY <1>4 DEF AtRest
<1>12. InScan'
  <2> SUFFICES ASSUME NEW s \in Slots, changed[s] # 0
               PROVE  /\ held[s] = NoController <=> Shifts(s) = 0
                      /\ Shifts(s) # 0 => ShiftedOut(held[s], scan' + 1, A[Shifts(s)].shift_mask)
                      /\ N[s] = Expected(held[s], scan' + 1)
                      /\ Len(seen'[s]) = scan'
                      /\ changed[s] = 2 => \A k \in 1 .. scan' : seen'[s][k] = Expected(held[s], k)
    BY <1>2, <1>7, <1>9 DEF InScan
  <2>1. /\ held[s] = NoController <=> Shifts(s) = 0
        /\ Shifts(s) # 0 => ShiftedOut(held[s], scan + 1, controllers[Shifts(s)].shift_mask)
        /\ changed[s] = 2 => Joystick_data[s] = Expected(held[s], scan + 1)
        /\ Len(seen[s]) = scan
        /\ changed[s] = 2 => \A k \in 1 .. scan : seen[s][k] = Expected(held[s], k)
    BY <1>1, <1>4 DEF InScan
  <2>2. scan + 1 \in Nat /\ scan' = scan + 1
    BY <1>2, <1>4
  <2>3. N[s] = Expected(held[s], scan' + 1)
        /\ (Shifts(s) # 0 => ShiftedOut(held[s], scan' + 1, A[Shifts(s)].shift_mask))
    <3>1. CASE Shifts(s) = 0
      <4>1. N[s] = 1 /\ held[s] = NoController
        BY <1>6, <2>1, <3>1
      <4> QED BY <3>1, <4>1 DEF Expected
    <3>2. CASE Shifts(s) # 0
      <4> DEFINE mask == controllers[Shifts(s)].shift_mask
      <4>1. mask \in Seq({0, 1})
        BY <1>5, <1>6, <3>2 DEF TableType
      <4>2. held[s] # NoController /\ ShiftedOut(held[s], scan + 1, mask)
        BY <2>1, <3>2
      <4>3. N[s] = Bit(mask) /\ A[Shifts(s)].shift_mask = Rest(mask)
        BY <1>6, <3>2
      <4> HIDE DEF mask
      <4>4. PICK n \in Nat : n = scan + 1
        BY <2>2
      <4>5. Bit(mask) = Expected(held[s], n + 1) /\ ShiftedOut(held[s], n + 1, Rest(mask))
        BY <4>1, <4>2, <4>4, NextBit
      <4>6. scan' = n
        BY <2>2, <4>4
      <4> QED BY <4>3, <4>5, <4>6
    <3> QED BY <3>1, <3>2
  <2>4. seen[s] \in Seq({0, 1}) /\ Joystick_data[s] \in {0, 1}
    BY <1>1 DEF ScanTypes
  <2>5. seen'[s] = Append(seen[s], Joystick_data[s])
    BY <1>2
  <2>6. Len(seen'[s]) = scan'
    BY <2>1, <2>2, <2>4, <2>5
  <2>7. ASSUME changed[s] = 2, NEW k \in 1 .. scan' PROVE seen'[s][k] = Expected(held[s], k)
    <3>1. CASE k = scan + 1
      <4>1. seen'[s][k] = Joystick_data[s]
        BY <2>1, <2>4, <2>5, <3>1
      <4> QED BY <2>1, <2>7, <3>1, <4>1
    <3>2. CASE k # scan + 1
      <4>1. k \in 1 .. scan
        BY <1>4, <2>2, <3>2
      <4>2. seen'[s][k] = seen[s][k]
        BY <2>1, <2>4, <2>5, <4>1
      <4> QED BY <2>1, <2>7, <4>1, <4>2
    <3> QED BY <3>1, <3>2
  <2> QED BY <2>1, <2>3, <2>6, <2>7
<1> QED BY <1>9, <1>10, <1>11, <1>12 DEF JoyInv

\* A later port has a greater number among those that are enabled.
LEMMA Numbered ==
    ASSUME JoyAssumption, NEW E \in SUBSET Slots, NEW s \in E, NEW z \in E, s < z
    PROVE  Cardinality({p \in E : p <= s}) # Cardinality({p \in E : p <= z})
<1> DEFINE A == {p \in E : p <= s}
           B == {p \in E : p <= z}
<1>1. s \in Nat /\ z \in Nat /\ B \in SUBSET Nat /\ \A p \in B : p <= z
  BY DEF JoyAssumption
<1>2. IsFiniteSet(B)
  BY <1>1, FS_BoundedSetOfNaturals
<1>3. A \in SUBSET B /\ A # B
  <2>1. z \in B /\ z \notin A
    BY <1>1
  <2>2. ASSUME NEW p \in A PROVE p \in B
    <3>1. p \in Nat /\ p <= s /\ p \in E
      BY DEF JoyAssumption
    <3> QED BY <1>1, <3>1
  <2> QED BY <2>1, <2>2
<1> HIDE DEF A, B
<1>4. Cardinality(B) # Cardinality(A)
  BY <1>2, <1>3, FS_Subset
<1> QED BY <1>4 DEF A, B

LEMMA JoyStart == JoyAssumption /\ JoyInit => JoyInv
<1> SUFFICES ASSUME JoyAssumption, JoyInit PROVE JoyInv
  OBVIOUS
<1>0. /\ MaxId \in Nat /\ Table \in Nat /\ Table >= 2 * MaxId /\ Slots \subseteq Nat /\ MaxScans \in Nat
      /\ Bits \in Nat /\ Bits >= 1 /\ ScanLen = Bits + 1
  BY BitsType DEF JoyAssumption
<1>1. PICK n \in 0 .. MaxId : connected = 1 .. n
  <2>1. CASE connected = {}
    <3>1. connected = 1 .. 0 /\ 0 \in 0 .. MaxId
      BY <1>0, <2>1
    <3> QED BY <3>1
  <2>2. CASE connected # {}
    <3>1. PICK n \in 1 .. MaxId : connected = 1 .. n
      BY <2>2 DEF JoyInit
    <3>2. n \in 0 .. MaxId
      BY <1>0
    <3> QED BY <3>1, <3>2
  <2> QED BY <2>1, <2>2
<1>2. last_id = n
  <2>1. n \in Int /\ 1 \in Int /\ n \in Nat
    BY <1>0
  <2>2. Cardinality(1 .. n) = IF 1 > n THEN 0 ELSE n - 1 + 1
    BY <2>1, FS_Interval
  <2>3. Cardinality(1 .. n) = n
    BY <2>1, <2>2
  <2> QED BY <1>1, <2>3 DEF JoyInit
<1> DEFINE nth(s) == Cardinality({z \in enabled : z <= s})
<1>3. /\ enabled \subseteq Slots
      /\ \A s \in Slots : Joystick_slots[s] = IF s \in enabled /\ nth(s) \in connected THEN nth(s) ELSE None
      /\ Joystick_slots = [s \in Slots |-> Joystick_slots[s]]
  BY DEF JoyInit
<1> HIDE DEF nth
<1>4. HostTypes
  <2>1. \A i \in 1 .. Table : /\ controllers[i] \in TableType
                              /\ controllers[i] = [Free EXCEPT !.instance_id = IF i \in connected THEN i ELSE None]
    <3> SUFFICES ASSUME NEW i \in 1 .. Table
                 PROVE  /\ controllers[i] \in TableType
                        /\ controllers[i] = [Free EXCEPT !.instance_id = IF i \in connected THEN i ELSE None]
      OBVIOUS
    <3>1. controllers[i] = [Free EXCEPT !.instance_id = IF i \in connected THEN i ELSE None]
      BY DEF JoyInit
    <3>2. PICK id : id = IF i \in connected THEN i ELSE None
      OBVIOUS
    <3>3. id \in {None} \cup 1 .. last_id
      BY <1>1, <1>2, <3>2
    <3>4. controllers[i] = [instance_id |-> id, button_mask |-> 1 .. Buttons, shift_mask |-> <<>>]
      BY <3>1, <3>2 DEF Free
    <3>5. <<>> \in Seq({0, 1}) /\ 1 .. Buttons \in SUBSET (1 .. Buttons)
      OBVIOUS
    <3>6. controllers[i] \in TableType
      BY <3>3, <3>4, <3>5 DEF TableType
    <3> QED BY <3>1, <3>6
  <2>2. controllers = [i \in 1 .. Table |-> controllers[i]]
    BY DEF JoyInit
  <2>3. controllers \in [1 .. Table -> TableType]
    BY <2>1, <2>2
  <2>4. Joystick_slots \in [Slots -> {None} \cup connected]
    BY <1>3
  <2>5. announced = connected /\ changed = [s \in Slots |-> 2]
    BY DEF JoyInit
  <2> QED BY <1>0, <1>1, <1>2, <1>3, <2>3, <2>4, <2>5 DEF HostTypes
<1>5. ASSUME NEW id \in 1 .. n PROVE Known(id) = {id}
  <2>1. id # None /\ id \in 1 .. Table
    BY <1>0, <1>1 DEF None
  <2>2. \A i \in 1 .. Table : controllers[i].instance_id = IF i \in connected THEN i ELSE None
    BY DEF JoyInit, Free
  <2> QED BY <1>1, <2>1, <2>2 DEF Known
<1>6. Plugged
  <2>1. ASSUME NEW s \in Slots, Joystick_slots[s] # None
        PROVE  s \in enabled /\ Joystick_slots[s] = nth(s) /\ Joystick_slots[s] \in 1 .. n
    BY <1>1, <1>3, <2>1
  <2>2. ASSUME NEW s \in Slots, NEW z \in Slots, Joystick_slots[s] = Joystick_slots[z], s # z,
               Joystick_slots[s] # None
        PROVE  FALSE
    <3>1. s \in enabled /\ z \in enabled /\ nth(s) = nth(z) /\ s \in Nat /\ z \in Nat
      BY <1>0, <2>1, <2>2
    <3>2. CASE s < z
      BY <1>3, <3>1, <3>2, Numbered DEF nth
    <3>3. CASE z < s
      BY <1>3, <3>1, <3>3, Numbered DEF nth
    <3> QED BY <2>2, <3>1, <3>2, <3>3
  <2>3. announced = 1 .. n
    BY <1>1 DEF JoyInit
  <2>4. \A s \in Slots : Joystick_slots[s] # None => s \in enabled /\ Known(Joystick_slots[s]) # {}
    BY <1>5, <2>1
  <2>5. \A id \in 1 .. n : \A i, j \in Known(id) : i = j
    BY <1>5
  <2> QED BY <1>2, <2>2, <2>3, <2>4, <2>5 DEF Plugged
<1>7. ScanTypes
  <2>1. /\ Joystick_latch = FALSE /\ Joystick_data = [s \in Slots |-> 0] /\ clock = FALSE /\ scan = -1 /\ scans = 0
        /\ held = [s \in Slots |-> NoController] /\ seen = [s \in Slots |-> <<>>]
    BY DEF JoyInit, Zeros
  <2>2. held \in [Slots -> (SUBSET (1 .. Buttons)) \cup {NoController}]
    BY <2>1
  <2>3. seen \in [Slots -> Seq({0, 1})]
    BY <2>1
  <2>4. \A i \in 1 .. Table : controllers[i].shift_mask = <<>>
    BY DEF JoyInit, Free
  <2>5. \A i \in 1 .. Table : Len(controllers[i].shift_mask) <= Bits
    BY <1>0, <2>4
  <2>6. scan \in -1 .. ScanLen /\ scan # ScanLen /\ scans \in 0 .. MaxScans
    BY <1>0, <2>1
  <2> QED BY <2>1, <2>2, <2>3, <2>5, <2>6 DEF ScanTypes
<1>8. AtRest /\ InScan
  BY DEF JoyInit, AtRest, InScan, Zeros
<1> QED BY <1>4, <1>6, <1>7, <1>8 DEF JoyInv

LEMMA JoyStep == JoyAssumption /\ JoyInv /\ [JoyNext]_joyVars => JoyInv'
<1> SUFFICES ASSUME JoyAssumption, JoyInv, [JoyNext]_joyVars PROVE JoyInv'
  OBVIOUS
<1>1. CASE UNCHANGED joyVars
  <2>1. HostTypes'
    BY <1>1 DEF joyVars, JoyInv, HostTypes, TableType
  <2>2. Plugged'
    BY <1>1 DEF joyVars, JoyInv, Plugged, Known
  <2>3. ScanTypes'
    BY <1>1 DEF joyVars, JoyInv, ScanTypes
  <2>4. \A s : Shifts(s)' = Shifts(s)
    BY <1>1 DEF joyVars, Shifts, Known
  <2>5. AtRest' /\ InScan'
    BY <1>1, <2>4 DEF joyVars, JoyInv, AtRest, InScan
  <2> QED BY <2>1, <2>2, <2>3, <2>5 DEF JoyInv
<1>2. CASE JoyDone
  BY <1>1, <1>2 DEF JoyDone
<1> QED BY <1>1, <1>2, HostStep, LatchStep, UnlatchStep, ReadStep, ClockLowStep DEF JoyNext

\* What the invariant says of a scan that has read its last bit.
LEMMA ScanIsRead == JoyAssumption /\ JoyInv => ScanReadsButtons
<1> SUFFICES ASSUME JoyAssumption, JoyInv PROVE ScanReadsButtons
  OBVIOUS
<1>1. HostTypes /\ Plugged /\ ScanTypes /\ InScan
  BY DEF JoyInv
<1>2. JoyTypeOK
  BY <1>1 DEF HostTypes, Plugged, ScanTypes, JoyTypeOK, TableType
<1>3. ASSUME scan = ScanLen, NEW s \in Slots, changed[s] = 2
      PROVE  seen[s] = [b \in 1 .. ScanLen |-> Expected(held[s], b)]
  <2>1. ScanLen \in Nat /\ ScanLen # -1 /\ ScanLen >= 1
    BY BitsType
  <2>2. Len(seen[s]) = ScanLen /\ seen[s] \in Seq({0, 1})
        /\ \A k \in 1 .. ScanLen : seen[s][k] = Expected(held[s], k)
    BY <1>1, <1>3, <2>1 DEF InScan, ScanTypes
  <2>3. seen[s] = [b \in 1 .. ScanLen |-> seen[s][b]]
    BY <2>2
  <2> QED BY <2>2, <2>3
<1>4. ASSUME scan = ScanLen, NEW s \in Slots, changed[s] = 2
      PROVE  seen[s] = [b \in 1 .. ScanLen |->
                           IF held[s] = NoController THEN 1
                           ELSE IF b <= Buttons /\ b \in held[s] THEN 0
                           ELSE IF b <= Bits THEN 1 ELSE 0]
  BY <1>3, <1>4 DEF Expected
<1> QED BY <1>2, <1>4 DEF ScanReadsButtons

\* Whatever is plugged in and out and pressed meanwhile, and however many ports
\* and controllers there are, a scan of the ports reads the buttons held at its
\* latch (joystick.c).
THEOREM ControllersCorrect ==
    ASSUME JoyAssumption
    PROVE  JoySpec => []ScanReadsButtons
<1>1. JoyInit => JoyInv
  BY JoyStart
<1>2. JoyInv /\ [JoyNext]_joyVars => JoyInv'
  BY JoyStep
<1>3. JoyInv => ScanReadsButtons
  BY ScanIsRead
<1> QED BY <1>1, <1>2, <1>3, PTL DEF JoySpec

-----------------------------------------------------------------------------
(* Automatic typing.  What the guest makes of the bytes that are still to come *)
(* is told by its states: one for each of them, each what the one before makes *)
(* of the next byte.                                                           *)

KeyByte == 0 .. 255

\* Shift, the keys held and the text after a byte.
ShiftAfter(b, h) == IF b = LShift THEN TRUE ELSE IF b = Up(LShift) THEN FALSE ELSE h
DownAfter(b, d) == IF b < 128 THEN d \cup {b} ELSE d \ {b - 128}
Symbol(b, h) ==
    IF b = 31 THEN IF h THEN <<"A">> ELSE <<"a">>
    ELSE IF h \/ b \notin Keys THEN <<>>
    ELSE IF b = 29 THEN <<"\\">> ELSE IF b = 51 THEN <<"n">> ELSE <<"enter">>
After(g, b) == <<ShiftAfter(b, g[1]), DownAfter(b, g[2]), g[3] \o Symbol(b, g[1])>>

Listener == BOOLEAN \X (SUBSET Int) \X Seq(Letters)

\* t is how m begins.
Opens(t, m) == Len(t) <= Len(m) /\ t = SubSeq(m, 1, Len(t))

\* A guest in state g0 that reads s ends in g1, and its text is at any time how
\* m begins.
HearsBy(g, g0, s, g1, m) ==
    /\ g[0] = g0 /\ g[Len(s)] = g1
    /\ \A i \in 1 .. Len(s) : g[i] = After(g[i - 1], s[i])
    /\ \A i \in 0 .. Len(s) : Opens(g[i][3], m)
Hears(g0, s, g1, m) == \E g \in [Nat -> Listener] : HearsBy(g, g0, s, g1, m)

LEMMA SymbolType ==
    ASSUME NEW b, NEW h
    PROVE  Symbol(b, h) \in Seq(Letters)
<1>1. \A x \in Letters : <<x>> \in Seq(Letters)
  OBVIOUS
<1>2. "A" \in Letters /\ "a" \in Letters /\ "\\" \in Letters /\ "n" \in Letters /\ "enter" \in Letters
  BY AutoAssumption
<1>3. /\ <<"A">> \in Seq(Letters) /\ <<"a">> \in Seq(Letters) /\ <<"\\">> \in Seq(Letters)
      /\ <<"n">> \in Seq(Letters) /\ <<"enter">> \in Seq(Letters)
  BY <1>1, <1>2, Zenon
<1>4. <<>> \in Seq(Letters)
  OBVIOUS
<1> QED BY <1>3, <1>4, Zenon DEF Symbol

LEMMA AfterType ==
    ASSUME NEW g \in Listener, NEW b \in KeyByte
    PROVE  After(g, b) \in Listener
<1>1. g[1] \in BOOLEAN /\ g[2] \in SUBSET Int /\ g[3] \in Seq(Letters)
  BY DEF Listener
<1>2. ShiftAfter(b, g[1]) \in BOOLEAN
  BY <1>1 DEF ShiftAfter
<1>3. DownAfter(b, g[2]) \in SUBSET Int
  BY <1>1 DEF DownAfter, KeyByte
<1>4. Symbol(b, g[1]) \in Seq(Letters)
  BY SymbolType
<1>5. g[3] \o Symbol(b, g[1]) \in Seq(Letters)
  BY <1>1, <1>4, ConcatProperties
<1> QED BY <1>2, <1>3, <1>5 DEF After, Listener

LEMMA OpensWhole ==
    ASSUME NEW t \in Seq(Letters), NEW x \in Seq(Letters)
    PROVE  Opens(t, t \o x)
<1>1. /\ t \o x \in Seq(Letters) /\ Len(t \o x) = Len(t) + Len(x)
      /\ \A i \in 1 .. Len(t) + Len(x) : (t \o x)[i] = IF i <= Len(t) THEN t[i] ELSE x[i - Len(t)]
  BY ConcatProperties
<1>2. Len(t) \in Nat /\ Len(x) \in Nat
  OBVIOUS
<1>3. /\ SubSeq(t \o x, 1, Len(t)) \in Seq(Letters)
      /\ Len(SubSeq(t \o x, 1, Len(t))) = Len(t)
      /\ \A i \in 1 .. Len(t) : SubSeq(t \o x, 1, Len(t))[i] = (t \o x)[i]
  <2> DEFINE m == t \o x
  <2>1. m \in Seq(Letters) /\ Len(t) <= Len(m)
    BY <1>1, <1>2
  <2> HIDE DEF m
  <2> QED BY <1>2, <2>1
<1>4. \A i \in 1 .. Len(t) : SubSeq(t \o x, 1, Len(t))[i] = t[i]
  BY <1>1, <1>2, <1>3
<1>5. t = SubSeq(t \o x, 1, Len(t))
  BY <1>3, <1>4, SeqEqual
<1> QED BY <1>1, <1>2, <1>5 DEF Opens

\* One more byte.
LEMMA HearsOneMore ==
    ASSUME NEW s \in Seq(KeyByte), NEW b \in KeyByte, NEW g0, NEW g1 \in Listener, NEW m,
           Hears(g0, s, g1, m), Opens(After(g1, b)[3], m)
    PROVE  Hears(g0, Append(s, b), After(g1, b), m)
<1>1. PICK g \in [Nat -> Listener] : HearsBy(g, g0, s, g1, m)
  BY DEF Hears
<1>2. PICK n \in Nat : n = Len(s)
  OBVIOUS
<1> DEFINE h == [g EXCEPT ![n + 1] = After(g1, b)]
           u == Append(s, b)
<1>3. h \in [Nat -> Listener]
  BY AfterType
<1>4. /\ Len(u) = n + 1 /\ u[n + 1] = b
      /\ \A i \in 1 .. n : u[i] = s[i]
  BY <1>2
<1>5. h[n + 1] = After(g1, b) /\ \A i \in 0 .. n : h[i] = g[i]
  BY <1>1
<1> HIDE DEF h, u
<1>6. g[0] = g0 /\ g[n] = g1
  BY <1>1, <1>2 DEF HearsBy
<1>7. ASSUME NEW i \in 1 .. n + 1 PROVE h[i] = After(h[i - 1], u[i])
  <2>1. CASE i = n + 1
    <3>1. i - 1 = n /\ n \in 0 .. n
      BY <2>1
    <3> QED BY <1>4, <1>5, <1>6, <2>1, <3>1
  <2>2. CASE i # n + 1
    <3>1. i \in 1 .. n /\ i \in 0 .. n /\ i - 1 \in 0 .. n
      BY <2>2
    <3>2. g[i] = After(g[i - 1], s[i])
      BY <1>1, <1>2, <3>1 DEF HearsBy
    <3>3. h[i] = g[i] /\ h[i - 1] = g[i - 1] /\ u[i] = s[i]
      BY <1>4, <1>5, <3>1, Zenon
    <3> QED BY <3>2, <3>3, Zenon
  <2> QED BY <2>1, <2>2
<1>8. ASSUME NEW i \in 0 .. n + 1 PROVE Opens(h[i][3], m)
  <2>1. CASE i = n + 1
    BY <1>5, <2>1, Zenon
  <2>2. CASE i # n + 1
    <3>1. i \in 0 .. n
      BY <2>2
    <3>2. Opens(g[i][3], m)
      BY <1>1, <1>2, <3>1, Zenon DEF HearsBy
    <3> QED BY <1>5, <3>1, <3>2, Zenon
  <2> QED BY <2>1, <2>2
<1>9. h[0] = g0
  <2>1. 0 \in 0 .. n
    OBVIOUS
  <2> QED BY <1>5, <1>6, <2>1, Zenon
<1>10. HearsBy(h, g0, u, After(g1, b), m)
  BY <1>4, <1>5, <1>7, <1>8, <1>9, Zenon DEF HearsBy
<1> QED BY <1>3, <1>10, Zenon DEF Hears, u

\* The first byte is read.
LEMMA HearsRest ==
    ASSUME NEW s \in Seq(KeyByte), s # <<>>, NEW g0, NEW g1, NEW m, Hears(g0, s, g1, m)
    PROVE  Hears(After(g0, Head(s)), Tail(s), g1, m)
<1>1. PICK g \in [Nat -> Listener] : HearsBy(g, g0, s, g1, m)
  BY DEF Hears
<1>2. PICK n \in Nat : Len(s) = n + 1
  <2>1. Len(s) \in Nat /\ Len(s) # 0
    OBVIOUS
  <2>2. Len(s) - 1 \in Nat /\ Len(s) = (Len(s) - 1) + 1
    BY <2>1
  <2> QED BY <2>2, Zenon
<1> DEFINE h == [i \in Nat |-> g[i + 1]]
           u == Tail(s)
<1>3. h \in [Nat -> Listener] /\ \A i \in Nat : h[i] = g[i + 1]
  OBVIOUS
<1>4. Len(u) = n /\ \A i \in 1 .. n : u[i] = s[i + 1]
  BY <1>2
<1>5. Head(s) = s[1]
  OBVIOUS
<1> HIDE DEF h, u
<1>6. /\ g[0] = g0 /\ g[n + 1] = g1
      /\ \A i \in 1 .. n + 1 : g[i] = After(g[i - 1], s[i])
      /\ \A i \in 0 .. n + 1 : Opens(g[i][3], m)
  BY <1>1, <1>2, Zenon DEF HearsBy
<1>7. h[0] = After(g0, Head(s))
  <2>1. 1 \in 1 .. n + 1 /\ 1 - 1 = 0 /\ 0 + 1 = 1
    OBVIOUS
  <2>2. g[1] = After(g[1 - 1], s[1])
    BY <1>6, <2>1, Zenon
  <2> QED BY <1>3, <1>5, <1>6, <2>1, <2>2
<1>8. h[n] = g1
  BY <1>3, <1>6
<1>9. ASSUME NEW i \in 1 .. n PROVE h[i] = After(h[i - 1], u[i])
  <2>1. i + 1 \in 1 .. n + 1 /\ (i + 1) - 1 = i /\ i \in Nat /\ i - 1 \in Nat /\ (i - 1) + 1 = i
    OBVIOUS
  <2>2. g[i + 1] = After(g[(i + 1) - 1], s[i + 1])
    BY <1>6, <2>1, Zenon
  <2>3. h[i] = g[i + 1] /\ h[i - 1] = g[(i - 1) + 1] /\ u[i] = s[i + 1]
    BY <1>3, <1>4, <2>1, Zenon
  <2> QED BY <2>1, <2>2, <2>3
<1>10. ASSUME NEW i \in 0 .. n PROVE Opens(h[i][3], m)
  <2>1. i \in Nat /\ i + 1 \in 0 .. n + 1
    OBVIOUS
  <2> QED BY <1>3, <1>6, <2>1, Zenon
<1>11. HearsBy(h, After(g0, Head(s)), u, g1, m)
  BY <1>4, <1>7, <1>8, <1>9, <1>10, Zenon DEF HearsBy
<1> QED BY <1>3, <1>11, Zenon DEF Hears, u

\* Nothing more is to come.
LEMMA HearsNothing ==
    ASSUME NEW g0 \in Listener, NEW m, Opens(g0[3], m)
    PROVE  Hears(g0, <<>>, g0, m)
<1> DEFINE g == [i \in Nat |-> g0]
<1>1. g \in [Nat -> Listener] /\ g[0] = g0
  OBVIOUS
<1> HIDE DEF g
<1>2. Len(<<>>) = 0 /\ 0 .. 0 = {0} /\ 1 .. 0 = {}
  OBVIOUS
<1>3. HearsBy(g, g0, <<>>, g0, m)
  BY <1>1, <1>2 DEF HearsBy
<1> QED BY <1>1, <1>3 DEF Hears

LEMMA HeardNothing ==
    ASSUME NEW g0, NEW g1, NEW m, Hears(g0, <<>>, g1, m)
    PROVE  g0 = g1
<1>1. PICK g \in [Nat -> Listener] : HearsBy(g, g0, <<>>, g1, m)
  BY DEF Hears
<1>2. Len(<<>>) = 0
  OBVIOUS
<1> QED BY <1>1, <1>2, Zenon DEF HearsBy

\* What is heard at first is how the text begins.
LEMMA HearsBegin ==
    ASSUME NEW g0, NEW s \in Seq(KeyByte), NEW g1, NEW m, Hears(g0, s, g1, m)
    PROVE  Opens(g0[3], m)
<1>1. PICK g \in [Nat -> Listener] : HearsBy(g, g0, s, g1, m)
  BY DEF Hears
<1>2. 0 \in 0 .. Len(s)
  OBVIOUS
<1> QED BY <1>1, <1>2, Zenon DEF HearsBy

\* Where a character has its key, what is typed for it.
LEMMA PlainKeys ==
    ASSUME NEW c \in DOMAIN autokey_ascii, NEW t \in Seq(Letters)
    PROVE  LET k == autokey_ascii[c]
               pressed == <<FALSE, {k}, t \o <<c>>>>
           IN  /\ k \in Keys /\ c \in Letters /\ c \notin DOMAIN autokey_shift
               /\ pressed \in Listener /\ After(<<FALSE, {}, t>>, k) = pressed
               /\ After(pressed, Up(k)) = <<FALSE, {}, t \o <<c>>>>
<1>1. DOMAIN autokey_ascii = {"a", "\\", "n", "enter"} /\ DOMAIN autokey_shift = {"A"}
  BY DEF autokey_ascii, autokey_shift
<1>2. c \in Letters /\ c \notin DOMAIN autokey_shift
  BY <1>1, AutoAssumption
<1>3. /\ autokey_ascii["a"] = 31 /\ autokey_ascii["\\"] = 29 /\ autokey_ascii["n"] = 51
      /\ autokey_ascii["enter"] = 43
  BY DEF autokey_ascii
<1>4. PICK k \in Keys : autokey_ascii[c] = k /\ Symbol(k, FALSE) = <<c>>
  <2>1. /\ Symbol(31, FALSE) = <<"a">> /\ Symbol(29, FALSE) = <<"\\">>
        /\ Symbol(51, FALSE) = <<"n">> /\ Symbol(43, FALSE) = <<"enter">>
    BY DEF Symbol, Keys
  <2>2. 31 \in Keys /\ 29 \in Keys /\ 51 \in Keys /\ 43 \in Keys
    BY DEF Keys
  <2> QED BY <1>1, <1>3, <2>1, <2>2, Zenon
<1>5. /\ ShiftAfter(k, FALSE) = FALSE /\ ShiftAfter(Up(k), FALSE) = FALSE
      /\ DownAfter(k, {}) = {k} /\ DownAfter(Up(k), {k}) = {}
      /\ Symbol(Up(k), FALSE) = <<>> /\ k \in Int
  BY DEF Keys, ShiftAfter, DownAfter, Symbol, Up, LShift
<1>6. t \o <<c>> \in Seq(Letters) /\ (t \o <<c>>) \o <<>> = t \o <<c>>
  <2>1. <<c>> \in Seq(Letters)
    BY <1>2
  <2>2. t \o <<c>> \in Seq(Letters)
    BY <2>1, ConcatProperties
  <2> QED BY <2>2, ConcatEmptySeq
<1>7. <<FALSE, {k}, t \o <<c>>>> \in Listener
  <2>1. {k} \in SUBSET Int
    BY <1>5
  <2> QED BY <1>6, <2>1 DEF Listener
<1>8. After(<<FALSE, {}, t>>, k) = <<FALSE, {k}, t \o <<c>>>>
  BY <1>4, <1>5 DEF After
<1>9. After(<<FALSE, {k}, t \o <<c>>>>, Up(k)) = <<FALSE, {}, t \o <<c>>>>
  BY <1>5, <1>6 DEF After
<1> QED BY <1>2, <1>4, <1>7, <1>8, <1>9, Zenon

\* The same between Shift's two edges.
LEMMA ShiftedKeys ==
    ASSUME NEW c \in DOMAIN autokey_shift, NEW t \in Seq(Letters)
    PROVE  LET k == autokey_shift[c]
               first == <<TRUE, {LShift}, t>>
               pressed == <<TRUE, {LShift, k}, t \o <<c>>>>
               last == <<TRUE, {LShift}, t \o <<c>>>>
           IN  /\ k \in Keys /\ c \in Letters /\ c \notin DOMAIN autokey_ascii
               /\ first \in Listener /\ pressed \in Listener /\ last \in Listener
               /\ After(<<FALSE, {}, t>>, LShift) = first
               /\ After(first, k) = pressed
               /\ After(pressed, Up(k)) = last
               /\ After(last, Up(LShift)) = <<FALSE, {}, t \o <<c>>>>
<1>1. c = "A" /\ autokey_shift[c] = 31 /\ c \notin DOMAIN autokey_ascii
  BY DEF autokey_ascii, autokey_shift
<1>2. 31 \in Keys /\ "A" \in Letters
  BY AutoAssumption DEF Keys
<1>3. /\ ShiftAfter(44, FALSE) = TRUE /\ ShiftAfter(31, TRUE) = TRUE
      /\ ShiftAfter(159, TRUE) = TRUE /\ ShiftAfter(172, TRUE) = FALSE
  BY DEF ShiftAfter, LShift, Up
<1>4. /\ DownAfter(44, {}) = {44} /\ DownAfter(31, {44}) = {44, 31}
      /\ DownAfter(159, {44, 31}) = {44} /\ DownAfter(172, {44}) = {}
  <2>1. 159 - 128 = 31 /\ 172 - 128 = 44 /\ ~ (159 < 128) /\ ~ (172 < 128) /\ 44 < 128 /\ 31 < 128
    OBVIOUS
  <2> QED BY <2>1 DEF DownAfter
<1>5. /\ Symbol(44, FALSE) = <<>> /\ Symbol(31, TRUE) = <<"A">>
      /\ Symbol(159, TRUE) = <<>> /\ Symbol(172, TRUE) = <<>>
  BY DEF Symbol, Keys
<1>6. t \o <<"A">> \in Seq(Letters) /\ (t \o <<"A">>) \o <<>> = t \o <<"A">> /\ t \o <<>> = t
  <2>1. <<"A">> \in Seq(Letters)
    BY <1>2
  <2>2. t \o <<"A">> \in Seq(Letters)
    BY <2>1, ConcatProperties
  <2> QED BY <2>2, ConcatEmptySeq
<1>7. /\ <<TRUE, {44}, t>> \in Listener /\ <<TRUE, {44, 31}, t \o <<"A">>>> \in Listener
      /\ <<TRUE, {44}, t \o <<"A">>>> \in Listener
  <2>1. {44} \in SUBSET Int /\ {44, 31} \in SUBSET Int /\ TRUE \in BOOLEAN
    OBVIOUS
  <2> QED BY <1>6, <2>1 DEF Listener
<1>8. /\ After(<<FALSE, {}, t>>, 44) = <<TRUE, {44}, t>>
      /\ After(<<TRUE, {44}, t>>, 31) = <<TRUE, {44, 31}, t \o <<"A">>>>
      /\ After(<<TRUE, {44, 31}, t \o <<"A">>>>, 159) = <<TRUE, {44}, t \o <<"A">>>>
      /\ After(<<TRUE, {44}, t \o <<"A">>>>, 172) = <<FALSE, {}, t \o <<"A">>>>
  <2>1. After(<<FALSE, {}, t>>, 44) = <<TRUE, {44}, t>>
    BY <1>3, <1>4, <1>5, <1>6 DEF After
  <2>2. After(<<TRUE, {44}, t>>, 31) = <<TRUE, {44, 31}, t \o <<"A">>>>
    BY <1>3, <1>4, <1>5 DEF After
  <2>3. ASSUME NEW u \in Seq(Letters), u \o <<>> = u
        PROVE  /\ After(<<TRUE, {44, 31}, u>>, 159) = <<TRUE, {44}, u>>
               /\ After(<<TRUE, {44}, u>>, 172) = <<FALSE, {}, u>>
    <3>1. After(<<TRUE, {44, 31}, u>>, 159) = <<ShiftAfter(159, TRUE), DownAfter(159, {44, 31}), u \o Symbol(159, TRUE)>>
      BY DEF After
    <3>2. After(<<TRUE, {44}, u>>, 172) = <<ShiftAfter(172, TRUE), DownAfter(172, {44}), u \o Symbol(172, TRUE)>>
      BY DEF After
    <3>3. u \o Symbol(159, TRUE) = u /\ u \o Symbol(172, TRUE) = u
      BY <1>5, <2>3, Zenon
    <3>4. <<ShiftAfter(159, TRUE), DownAfter(159, {44, 31}), u \o Symbol(159, TRUE)>> = <<TRUE, {44}, u>>
      BY <1>3, <1>4, <3>3
    <3>5. <<ShiftAfter(172, TRUE), DownAfter(172, {44}), u \o Symbol(172, TRUE)>> = <<FALSE, {}, u>>
      BY <1>3, <1>4, <3>3
    <3>6. After(<<TRUE, {44, 31}, u>>, 159) = <<TRUE, {44}, u>>
      BY <3>1, <3>4
    <3>7. After(<<TRUE, {44}, u>>, 172) = <<FALSE, {}, u>>
      BY <3>2, <3>5
    <3> QED BY <3>6, <3>7
  <2>4. /\ After(<<TRUE, {44, 31}, t \o <<"A">>>>, 159) = <<TRUE, {44}, t \o <<"A">>>>
        /\ After(<<TRUE, {44}, t \o <<"A">>>>, 172) = <<FALSE, {}, t \o <<"A">>>>
    BY <1>6, <2>3, Zenon
  <2> QED BY <2>1, <2>2, <2>3, <2>4, Zenon
<1>9. LShift = 44 /\ Up(LShift) = 172 /\ Up(31) = 159
  BY DEF LShift, Up
<1> QED BY <1>1, <1>2, <1>7, <1>8, <1>9, Zenon

-----------------------------------------------------------------------------
(* What a text means. *)

\* What is typed for the first character of s.
Sounds(s) ==
    IF Next1(s) \in DOMAIN autokey_ascii \cup DOMAIN autokey_shift THEN <<Next1(s)>> ELSE <<>>

From(i) == SubSeq(whole_text, i, Len(whole_text))
Ends == Len(whole_text) + 1

\* f says of every place of the text what is typed from there on.
Means(f, k) ==
    /\ f \in [k .. Ends -> Seq(Letters)]
    /\ \A i \in k .. Ends :
          f[i] = IF i > Len(whole_text) THEN <<>> ELSE Sounds(From(i)) \o f[i + Width(From(i))]

LEMMA FromType ==
    ASSUME whole_text \in Seq(Letters), NEW i \in 1 .. Ends
    PROVE  /\ From(i) \in Seq(Letters) /\ Len(From(i)) = Ends - i
           /\ \A j \in 1 .. Ends - i : From(i)[j] = whole_text[(i + j) - 1]
<1>1. PICK n \in Nat : n = Len(whole_text)
  OBVIOUS
<1>2. \A j \in i .. n : j \in 1 .. n
  BY <1>1 DEF Ends
<1>3. From(i) \in Seq(Letters)
  BY <1>1 DEF From, Ends
<1>4. Len(From(i)) = (n + 1) - i
  BY <1>1 DEF From, Ends
<1>5. \A j \in 1 .. (n + 1) - i : From(i)[j] = whole_text[(i + j) - 1]
  BY <1>1 DEF From, Ends
<1> QED BY <1>1, <1>3, <1>4, <1>5 DEF Ends

LEMMA NextFits ==
    ASSUME whole_text \in Seq(Letters), NEW i \in 1 .. Len(whole_text)
    PROVE  /\ From(i) # <<>> /\ Width(From(i)) \in {1, 2} /\ i + Width(From(i)) \in 1 .. Ends
           /\ Next1(From(i)) \in Letters /\ Sounds(From(i)) \in Seq(Letters)
<1>1. PICK n \in Nat : n = Len(whole_text)
  OBVIOUS
<1>2. i \in 1 .. Ends /\ i \in 1 .. n /\ Ends = n + 1
  BY <1>1 DEF Ends
<1>3. From(i) \in Seq(Letters) /\ Len(From(i)) = (n + 1) - i
  BY <1>2, FromType
<1>4. From(i) # <<>> /\ From(i)[1] \in Letters
  BY <1>2, <1>3
<1>5. Escaped(From(i)) => Len(From(i)) >= 2
  BY DEF Escaped
<1>6. Width(From(i)) = IF Escaped(From(i)) THEN 2 ELSE 1
  BY DEF Width
<1>7. Width(From(i)) \in {1, 2} /\ i + Width(From(i)) \in 1 .. Ends
  BY <1>2, <1>3, <1>5, <1>6
<1>8. Next1(From(i)) \in Letters
  BY <1>4, AutoAssumption DEF Next1
<1>9. Sounds(From(i)) \in Seq(Letters)
  <2>1. \A x \in Letters : <<x>> \in Seq(Letters)
    OBVIOUS
  <2>2. <<>> \in Seq(Letters)
    OBVIOUS
  <2> QED BY <1>8, <2>1, <2>2, Zenon DEF Sounds
<1> QED BY <1>4, <1>7, <1>8, <1>9

LEMMA MeansExists ==
    ASSUME whole_text \in Seq(Letters)
    PROVE  \E f : Means(f, 1)
<1>1. PICK n \in Nat : n = Len(whole_text)
  OBVIOUS
<1>2. Ends = n + 1
  BY <1>1 DEF Ends
<1> DEFINE T == {k \in Nat : k <= n => \E f : Means(f, (n + 1) - k)}
<1>3. 0 \in T
  <2> DEFINE f == [i \in n + 1 .. n + 1 |-> <<>>]
  <2>1. f \in [n + 1 .. n + 1 -> Seq(Letters)] /\ \A i \in n + 1 .. n + 1 : f[i] = <<>> /\ i > n
    OBVIOUS
  <2> HIDE DEF f
  <2>2. Means(f, n + 1)
    BY <1>1, <1>2, <2>1, Zenon DEF Means
  <2>3. (n + 1) - 0 = n + 1
    OBVIOUS
  <2> QED BY <2>2, <2>3
<1>4. ASSUME NEW k \in T PROVE k + 1 \in T
  <2> SUFFICES ASSUME k + 1 <= n PROVE \E f : Means(f, (n + 1) - (k + 1))
    OBVIOUS
  <2>1. PICK g : Means(g, (n + 1) - k)
    OBVIOUS
  <2>2. PICK i \in 1 .. n : i = n - k /\ (n + 1) - k = i + 1 /\ (n + 1) - (k + 1) = i
    OBVIOUS
  <2>3. /\ g \in [i + 1 .. n + 1 -> Seq(Letters)]
        /\ \A j \in i + 1 .. n + 1 :
              g[j] = IF j > n THEN <<>> ELSE Sounds(From(j)) \o g[j + Width(From(j))]
    BY <1>1, <1>2, <2>1, <2>2 DEF Means
  <2>4. Width(From(i)) \in {1, 2} /\ i + Width(From(i)) \in i + 1 .. n + 1 /\ Sounds(From(i)) \in Seq(Letters)
    BY <1>1, <1>2, NextFits
  <2> DEFINE v == Sounds(From(i)) \o g[i + Width(From(i))]
             f == [j \in i .. n + 1 |-> IF j = i THEN v ELSE g[j]]
  <2>5. v \in Seq(Letters)
    BY <2>3, <2>4, ConcatProperties
  <2>6. f \in [i .. n + 1 -> Seq(Letters)]
    BY <2>3, <2>5
  <2>7. f[i] = v /\ \A j \in i + 1 .. n + 1 : f[j] = g[j]
    OBVIOUS
  <2> HIDE DEF f
  <2>8. ASSUME NEW j \in i .. n + 1
        PROVE  f[j] = IF j > n THEN <<>> ELSE Sounds(From(j)) \o f[j + Width(From(j))]
    <3>1. CASE j = i
      <4>1. f[i + Width(From(i))] = g[i + Width(From(i))] /\ ~ (i > n)
        BY <2>4, <2>7
      <4> QED BY <2>7, <3>1, <4>1, Zenon
    <3>2. CASE j # i
      <4>1. j \in i + 1 .. n + 1
        BY <3>2
      <4>2. CASE j > n
        BY <2>3, <2>7, <4>1, <4>2, Zenon
      <4>3. CASE ~ (j > n)
        <5>1. j \in 1 .. n
          BY <4>1, <4>3
        <5>2. Width(From(j)) \in {1, 2} /\ j + Width(From(j)) \in 1 .. n + 1
          BY <1>1, <1>2, <5>1, NextFits
        <5>3. j + Width(From(j)) \in i + 1 .. n + 1
          BY <4>1, <5>2
        <5> QED BY <2>3, <2>7, <4>1, <4>3, <5>3, Zenon
      <4> QED BY <4>2, <4>3
    <3> QED BY <3>1, <3>2
  <2>9. Means(f, i)
    BY <1>1, <1>2, <2>6, <2>8, Zenon DEF Means
  <2> QED BY <2>2, <2>9, Zenon
<1>5. T = Nat
  <2> HIDE DEF T
  <2>1. T \in SUBSET Nat
    BY DEF T
  <2> QED BY <1>3, <1>4, <2>1, Induction
<1>6. n \in T /\ (n + 1) - n = 1
  <2> HIDE DEF T
  <2> QED BY <1>5
<1> QED BY <1>6

LEMMA MeantMeans ==
    ASSUME whole_text \in Seq(Letters)
    PROVE  \E f : Means(f, 1) /\ f[1] = Meant
<1> DEFINE B(g, i) == IF i > Len(whole_text) THEN <<>>
                      ELSE Sounds(From(i)) \o g[i + Width(From(i))]
           f == CHOOSE g : g = [i \in 1 .. Len(whole_text) + 1 |-> B(g, i)]
<1>1. PICK g : Means(g, 1)
  BY MeansExists
<1>2. g = [i \in 1 .. Len(whole_text) + 1 |-> B(g, i)]
  BY <1>1 DEF Means, Ends
<1>3. f = [i \in 1 .. Len(whole_text) + 1 |-> B(f, i)]
  BY <1>2
<1>4. Meant = f[1]
  BY DEF Meant, Sounds, From
<1> HIDE DEF f
<1>5. PICK n \in Nat : n = Len(whole_text)
  OBVIOUS
<1>6. Ends = n + 1
  BY <1>5 DEF Ends
<1> DEFINE T == {k \in Nat : k <= n => \A i \in (n + 1) - k .. n + 1 : f[i] = g[i]}
<1>7. \A i \in 1 .. n + 1 : f[i] = B(f, i) /\ g[i] = B(g, i)
  BY <1>2, <1>3, <1>5
<1>8. 0 \in T
  <2>1. \A i \in n + 1 .. n + 1 : i = n + 1 /\ i > n /\ i \in 1 .. n + 1
    OBVIOUS
  <2>2. \A i \in n + 1 .. n + 1 : f[i] = g[i]
    BY <1>5, <1>7, <2>1, Zenon
  <2>3. (n + 1) - 0 = n + 1
    OBVIOUS
  <2> QED BY <2>2, <2>3
<1>9. ASSUME NEW k \in T PROVE k + 1 \in T
  <2> SUFFICES ASSUME k + 1 <= n, NEW i \in (n + 1) - (k + 1) .. n + 1 PROVE f[i] = g[i]
    OBVIOUS
  <2>1. \A j \in (n + 1) - k .. n + 1 : f[j] = g[j]
    OBVIOUS
  <2>2. CASE i \in (n + 1) - k .. n + 1
    BY <2>1, <2>2
  <2>3. CASE i \notin (n + 1) - k .. n + 1
    <3>1. i = n - k /\ i \in 1 .. n /\ i \in 1 .. n + 1
      BY <2>3
    <3>2. i + Width(From(i)) \in (n + 1) - k .. n + 1
      <4>1. Width(From(i)) \in {1, 2} /\ i + Width(From(i)) \in 1 .. n + 1
        BY <1>5, <1>6, <3>1, NextFits
      <4> QED BY <3>1, <4>1
    <3>3. f[i + Width(From(i))] = g[i + Width(From(i))]
      BY <2>1, <3>2, Zenon
    <3> QED BY <1>7, <3>1, <3>3, Zenon
  <2> QED BY <2>2, <2>3
<1>10. T = Nat
  <2> HIDE DEF T
  <2>1. T \in SUBSET Nat
    BY DEF T
  <2> QED BY <1>8, <1>9, <2>1, Induction
<1>11. \A i \in 1 .. n + 1 : f[i] = g[i]
  <2>1. n \in T
    <3> HIDE DEF T
    <3> QED BY <1>10
  <2>2. (n + 1) - n = 1
    OBVIOUS
  <2> QED BY <2>1, <2>2
<1>12. 1 \in 1 .. n + 1
  OBVIOUS
<1>13. g[1] = Meant
  BY <1>4, <1>11, <1>12
<1> QED BY <1>1, <1>13

-----------------------------------------------------------------------------
(* The invariant: the guest, once it has read what is in the ring and what is  *)
(* to come of the character under way, has no key held, and what it has read   *)
(* with what is left to type is the text.                                      *)

Waiting == Contents(KeySize, kbd_ring)
Coming ==
    IF autokeys_phase = 0 THEN <<>>
    ELSE IF autokeys_phase = 1 THEN <<autokeys_pending, Up(autokeys_pending), Up(LShift)>>
    ELSE IF autokeys_phase = 3 THEN <<Up(LShift)>>
    ELSE IF autokeys_shifted THEN <<Up(autokeys_pending), Up(LShift)>>
    ELSE <<Up(autokeys_pending)>>
KeyStream == Waiting \o Coming

AutoTypes ==
    /\ whole_text \in Seq(Letters) /\ autokeys_text \in Seq(Letters)
    /\ autokeys_phase \in 0 .. 3 /\ autokeys_shifted \in BOOLEAN /\ missed \in BOOLEAN
    /\ autokeys_phase # 0 => autokeys_pending \in Keys
    /\ autokeys_phase \in {1, 3} => autokeys_shifted
    /\ kbd_ring \in Ring(KeySize, KeyByte)
    /\ reader \in Listener

Continues(f, p, t) ==
    /\ Means(f, 1) /\ f[1] = Meant
    /\ autokeys_text = From(p)
    /\ t \o f[p] = Meant
    /\ Hears(reader, KeyStream, <<FALSE, {}, t>>, Meant)

InTune == \E f : \E p \in 1 .. Ends, t \in Seq(Letters) : Continues(f, p, t)

AutoInv == AutoTypes /\ (~ missed => InTune)

LEMMA KeyRingFits == RingAssumption(KeySize, KeyByte)
BY AutoAssumption DEF RingAssumption, KeyByte

LEMMA KeysAreBytes ==
    \A k \in Keys : k \in KeyByte /\ Up(k) \in KeyByte /\ LShift \in KeyByte /\ Up(LShift) \in KeyByte
BY DEF Keys, KeyByte, Up, LShift

LEMMA SameText ==
    ASSUME UNCHANGED whole_text
    PROVE  /\ Meant' = Meant /\ Ends' = Ends
           /\ \A i : From(i)' = From(i)
           /\ \A f : Means(f, 1)' <=> Means(f, 1)
<1>1. Meant' = Meant
  BY DEF Meant
<1>2. Ends' = Ends
  BY DEF Ends
<1>3. \A i : From(i)' = From(i)
  BY DEF From
<1>4. ASSUME NEW f PROVE Means(f, 1)' <=> Means(f, 1)
  BY DEF Means, Ends, From
<1> QED BY <1>1, <1>2, <1>3, <1>4

LEMMA ComingType ==
    ASSUME AutoTypes
    PROVE  Coming \in Seq(KeyByte) /\ Waiting \in Seq(KeyByte) /\ KeyStream \in Seq(KeyByte)
<1>1. /\ \A x \in KeyByte : <<x>> \in Seq(KeyByte)
      /\ \A x, y \in KeyByte : <<x, y>> \in Seq(KeyByte)
      /\ \A x, y, z \in KeyByte : <<x, y, z>> \in Seq(KeyByte)
      /\ <<>> \in Seq(KeyByte)
  OBVIOUS
<1>2. autokeys_phase # 0 => /\ autokeys_pending \in KeyByte /\ Up(autokeys_pending) \in KeyByte
                            /\ Up(LShift) \in KeyByte
  BY KeysAreBytes DEF AutoTypes
<1>3. Coming \in Seq(KeyByte)
  BY <1>1, <1>2, Zenon DEF Coming
<1>4. Waiting \in Seq(KeyByte)
  BY KeyRingFits, ContentsType DEF Waiting, AutoTypes
<1> QED BY <1>3, <1>4, ConcatProperties DEF KeyStream

\* A byte that has room comes last.
LEMMA KeyAdds ==
    ASSUME kbd_ring \in Ring(KeySize, KeyByte), NEW b \in KeyByte, Add(b)
    PROVE  /\ kbd_ring' \in Ring(KeySize, KeyByte)
           /\ ~ missed' => ~ missed /\ Waiting' = Append(Waiting, b)
<1>1. RingAssumption(KeySize, KeyByte)
  BY KeyRingFits
<1>2. /\ RingAdd(KeySize, kbd_ring, b) \in Ring(KeySize, KeyByte)
      /\ Contents(KeySize, RingAdd(KeySize, kbd_ring, b)) = QueueAdd(KeySize, Waiting, b)
  BY <1>1, AddIsQueueAdd DEF Waiting
<1>3. kbd_ring' = RingAdd(KeySize, kbd_ring, b)
  BY DEF Add
<1>4. ASSUME ~ missed' PROVE ~ missed /\ Waiting' = Append(Waiting, b)
  <2>1. ~ missed /\ NextSlot(KeySize, kbd_ring.head) # kbd_ring.tail
    BY <1>4 DEF Add
  <2>2. Len(Waiting) < KeySize - 1
    <3>1. Len(Waiting) = RingCount(KeySize, kbd_ring)
      BY <1>1, ContentsType DEF Waiting
    <3>2. kbd_ring.head \in 0 .. KeySize - 1 /\ kbd_ring.tail \in 0 .. KeySize - 1
      BY DEF Ring
    <3>3. NextSlot(KeySize, kbd_ring.head) = IF kbd_ring.head = KeySize - 1 THEN 0 ELSE kbd_ring.head + 1
      BY <1>1, <3>2, NextSlotValue
    <3>4. RingCount(KeySize, kbd_ring) = IF kbd_ring.head >= kbd_ring.tail THEN kbd_ring.head - kbd_ring.tail
                                         ELSE KeySize + kbd_ring.head - kbd_ring.tail
      BY <1>1, RingCountValue
    <3> QED BY <2>1, <3>1, <3>2, <3>3, <3>4, AutoAssumption
  <2>3. Waiting' = Contents(KeySize, RingAdd(KeySize, kbd_ring, b))
    BY <1>3 DEF Waiting
  <2> QED BY <1>2, <2>1, <2>2, <2>3, Zenon DEF QueueAdd
<1> QED BY <1>2, <1>3, <1>4, Zenon

LEMMA AutoStart == AutoInit => AutoInv
<1> SUFFICES ASSUME AutoInit PROVE AutoInv
  OBVIOUS
<1>1. AutoTypes
  <2>1. whole_text \in Seq(Letters)
    BY AutoAssumption DEF AutoInit
  <2>2. kbd_ring \in Ring(KeySize, KeyByte)
    BY KeyRingFits, EmptyIsEmpty DEF AutoInit
  <2>3. reader = <<FALSE, {}, <<>>>>
    BY DEF AutoInit, reader
  <2>4. reader \in Listener
    <3>1. <<>> \in Seq(Letters) /\ {} \in SUBSET Int
      OBVIOUS
    <3> QED BY <2>3, <3>1 DEF Listener
  <2>5. autokeys_phase = 0 /\ autokeys_text = whole_text
    BY DEF AutoInit
  <2>6. autokeys_shifted \in BOOLEAN /\ missed \in BOOLEAN
    BY DEF AutoInit
  <2> QED BY <2>1, <2>2, <2>4, <2>5, <2>6 DEF AutoTypes
<1>2. whole_text \in Seq(Letters)
  BY <1>1 DEF AutoTypes
<1>3. PICK f : Means(f, 1) /\ f[1] = Meant
  BY <1>2, MeantMeans
<1>4. 1 \in 1 .. Ends
  BY <1>2 DEF Ends
<1>5. autokeys_text = From(1)
  <2>1. SubSeq(whole_text, 1, Len(whole_text)) = whole_text
    BY <1>2
  <2> QED BY <2>1 DEF From, AutoInit
<1>6. Meant \in Seq(Letters)
  BY <1>3, <1>4, Zenon DEF Means
<1>7. <<>> \in Seq(Letters) /\ <<>> \o f[1] = Meant
  <2>1. <<>> \o Meant = Meant
    BY <1>6, ConcatEmptySeq
  <2> QED BY <1>3, <2>1
<1>8. KeyStream = <<>>
  <2>1. Waiting = <<>>
    BY KeyRingFits, EmptyIsEmpty DEF Waiting, AutoInit
  <2>2. Coming = <<>>
    BY DEF Coming, AutoInit
  <2> QED BY <2>1, <2>2 DEF KeyStream
<1>9. reader = <<FALSE, {}, <<>>>> /\ reader \in Listener
  BY <1>1 DEF AutoInit, reader, AutoTypes
<1>10. Opens(<<>>, Meant)
  <2>1. Opens(<<>>, <<>> \o Meant)
    BY <1>6, <1>7, OpensWhole
  <2> QED BY <1>3, <1>7, <2>1
<1>11. Hears(reader, KeyStream, <<FALSE, {}, <<>>>>, Meant)
  <2>1. reader[3] = <<>>
    BY <1>9
  <2>2. Hears(reader, <<>>, reader, Meant)
    BY <1>9, <1>10, <2>1, HearsNothing
  <2> QED BY <1>8, <1>9, <2>2
<1>12. Continues(f, 1, <<>>)
  BY <1>3, <1>5, <1>7, <1>11, Zenon DEF Continues
<1>13. InTune
  BY <1>4, <1>7, <1>12, Zenon DEF InTune
<1> QED BY <1>1, <1>13 DEF AutoInv

\* A byte of the character under way goes into the ring.
LEMMA EventStep ==
    ASSUME AutoInv, autokeys_step, Event
    PROVE  AutoInv'
<1>1. /\ UNCHANGED <<autokeys_text, autokeys_pending, autokeys_shifted>>
      /\ UNCHANGED whole_text /\ UNCHANGED reader
  BY DEF Event, autokeys_step
<1>2. AutoTypes
  BY DEF AutoInv
<1>3. PICK b \in KeyByte : Add(b) /\ Coming = <<b>> \o Coming'
                           /\ Coming' \in Seq(KeyByte) /\ autokeys_phase' \in 0 .. 3
                           /\ (autokeys_phase' # 0 => autokeys_phase # 0)
                           /\ (autokeys_phase' \in {1, 3} => autokeys_shifted)
  <2>1. CASE autokeys_phase = 1 /\ Add(autokeys_pending) /\ autokeys_phase' = 2
    <3>1. autokeys_pending \in KeyByte /\ autokeys_shifted
      BY <1>2, <2>1, KeysAreBytes DEF AutoTypes
    <3>2. Coming = <<autokeys_pending, Up(autokeys_pending), Up(LShift)>>
      BY <2>1 DEF Coming
    <3>3. Coming' = <<Up(autokeys_pending), Up(LShift)>>
      BY <1>1, <2>1, <3>1 DEF Coming
    <3>4. Coming = <<autokeys_pending>> \o Coming'
      BY <3>2, <3>3
    <3>5. Up(autokeys_pending) \in KeyByte /\ Up(LShift) \in KeyByte
      BY <1>2, <2>1, KeysAreBytes DEF AutoTypes
    <3> QED BY <2>1, <3>1, <3>3, <3>4, <3>5
  <2>2. CASE autokeys_phase = 2 /\ Add(Up(autokeys_pending)) /\ autokeys_phase' = AfterKeyUp
    <3>1. Up(autokeys_pending) \in KeyByte
      BY <1>2, <2>2, KeysAreBytes DEF AutoTypes
    <3>2. Coming = IF autokeys_shifted THEN <<Up(autokeys_pending), Up(LShift)>> ELSE <<Up(autokeys_pending)>>
      BY <2>2 DEF Coming
    <3>3. Coming' = IF autokeys_shifted THEN <<Up(LShift)>> ELSE <<>>
      BY <2>2 DEF Coming, AfterKeyUp
    <3>4. Coming = <<Up(autokeys_pending)>> \o Coming'
      <4>1. CASE autokeys_shifted
        BY <3>2, <3>3, <4>1
      <4>2. CASE ~ autokeys_shifted
        BY <3>2, <3>3, <4>2
      <4> QED BY <4>1, <4>2
    <3>5. Coming' \in Seq(KeyByte)
      <4>1. Up(LShift) \in KeyByte
        BY <1>2, <2>2, KeysAreBytes DEF AutoTypes
      <4>2. <<Up(LShift)>> \in Seq(KeyByte) /\ <<>> \in Seq(KeyByte)
        BY <4>1
      <4> QED BY <3>3, <4>2, Zenon
    <3> QED BY <2>2, <3>1, <3>4, <3>5 DEF AfterKeyUp
  <2>3. CASE autokeys_phase = 3 /\ Add(Up(LShift)) /\ autokeys_phase' = 0
    <3>1. Up(LShift) \in KeyByte
      BY <1>2, <2>3, KeysAreBytes DEF AutoTypes
    <3>2. Coming = <<Up(LShift)>> /\ Coming' = <<>>
      BY <2>3 DEF Coming
    <3>4. Coming = <<Up(LShift)>> \o Coming'
      BY <3>2
    <3> QED BY <2>3, <3>1, <3>2, <3>4
  <2> QED BY <2>1, <2>2, <2>3 DEF Event
<1>4. /\ kbd_ring' \in Ring(KeySize, KeyByte)
      /\ ~ missed' => ~ missed /\ Waiting' = Append(Waiting, b)
  BY <1>2, <1>3, KeyAdds DEF AutoTypes
<1>5. AutoTypes'
  <2>1. missed' \in BOOLEAN
    BY <1>2, <1>3 DEF Add, AutoTypes
  <2> QED BY <1>1, <1>2, <1>3, <1>4, <2>1 DEF AutoTypes
<1>6. ASSUME ~ missed' PROVE InTune'
  <2>1. KeyStream' = KeyStream
    <3>1. Waiting \in Seq(KeyByte) /\ Coming' \in Seq(KeyByte)
      BY <1>2, <1>3, ComingType
    <3>2. Append(Waiting, b) = Waiting \o <<b>> /\ <<b>> \in Seq(KeyByte)
      BY <3>1, AppendIsConcat
    <3>3. (Waiting \o <<b>>) \o Coming' = Waiting \o (<<b>> \o Coming')
      BY <3>1, <3>2, ConcatAssociative
    <3> QED BY <1>3, <1>4, <1>6, <3>2, <3>3, Zenon DEF KeyStream
  <2>2. PICK f : \E p \in 1 .. Ends, t \in Seq(Letters) : Continues(f, p, t)
    BY <1>4, <1>6 DEF AutoInv, InTune
  <2>5. PICK p \in 1 .. Ends, t \in Seq(Letters) : Continues(f, p, t)
    BY <2>2
  <2>3. /\ Meant' = Meant /\ Ends' = Ends /\ From(p)' = From(p)
        /\ (Means(f, 1)' <=> Means(f, 1))
    BY <1>1, SameText
  <2>4. Continues(f, p, t)'
    BY <1>1, <2>1, <2>5, <2>3, Zenon DEF Continues
  <2> QED BY <2>3, <2>4, Zenon DEF InTune
<1> QED BY <1>5, <1>6 DEF AutoInv

\* A character's keys are heard as that character.
LEMMA HearsPlain ==
    ASSUME NEW s \in Seq(KeyByte), NEW c \in DOMAIN autokey_ascii, NEW t \in Seq(Letters), NEW m, NEW g0,
           Hears(g0, s, <<FALSE, {}, t>>, m), Opens(t \o <<c>>, m)
    PROVE  LET k == autokey_ascii[c]
           IN  Hears(g0, Append(s, k) \o <<Up(k)>>, <<FALSE, {}, t \o <<c>>>>, m)
<1>1. PICK k \in Keys : k = autokey_ascii[c]
  BY PlainKeys
<1>2. /\ <<FALSE, {k}, t \o <<c>>>> \in Listener
      /\ After(<<FALSE, {}, t>>, k) = <<FALSE, {k}, t \o <<c>>>>
      /\ After(<<FALSE, {k}, t \o <<c>>>>, Up(k)) = <<FALSE, {}, t \o <<c>>>>
  BY <1>1, PlainKeys
<1>3. k \in KeyByte /\ Up(k) \in KeyByte
  BY KeysAreBytes
<1>4. <<FALSE, {}, t>> \in Listener
  BY DEF Listener
<1>5. <<FALSE, {k}, t \o <<c>>>>[3] = t \o <<c>> /\ <<FALSE, {}, t \o <<c>>>>[3] = t \o <<c>>
  OBVIOUS
<1>6. Hears(g0, Append(s, k), <<FALSE, {k}, t \o <<c>>>>, m)
  BY <1>2, <1>3, <1>4, <1>5, HearsOneMore
<1>7. Append(s, k) \in Seq(KeyByte)
  BY <1>3
<1>8. Hears(g0, Append(Append(s, k), Up(k)), <<FALSE, {}, t \o <<c>>>>, m)
  BY <1>2, <1>3, <1>5, <1>6, <1>7, HearsOneMore
<1>9. Append(Append(s, k), Up(k)) = Append(s, k) \o <<Up(k)>>
  BY <1>3, <1>7, AppendIsConcat
<1> QED BY <1>1, <1>8, <1>9

LEMMA HearsShifted ==
    ASSUME NEW s \in Seq(KeyByte), NEW c \in DOMAIN autokey_shift, NEW t \in Seq(Letters), NEW m, NEW g0,
           Hears(g0, s, <<FALSE, {}, t>>, m), Opens(t, m), Opens(t \o <<c>>, m)
    PROVE  LET k == autokey_shift[c]
           IN  Hears(g0, Append(s, LShift) \o <<k, Up(k), Up(LShift)>>, <<FALSE, {}, t \o <<c>>>>, m)
<1>1. PICK k \in Keys : k = autokey_shift[c]
  BY ShiftedKeys
<1> DEFINE first == <<TRUE, {LShift}, t>>
           pressed == <<TRUE, {LShift, k}, t \o <<c>>>>
           last == <<TRUE, {LShift}, t \o <<c>>>>
           after == <<FALSE, {}, t \o <<c>>>>
<1>2. /\ first \in Listener /\ pressed \in Listener /\ last \in Listener
      /\ After(<<FALSE, {}, t>>, LShift) = first
      /\ After(first, k) = pressed
      /\ After(pressed, Up(k)) = last
      /\ After(last, Up(LShift)) = after
  BY <1>1, ShiftedKeys
<1>3. k \in KeyByte /\ Up(k) \in KeyByte /\ LShift \in KeyByte /\ Up(LShift) \in KeyByte
  BY KeysAreBytes
<1>4. <<FALSE, {}, t>> \in Listener
  BY DEF Listener
<1>5. first[3] = t /\ pressed[3] = t \o <<c>> /\ last[3] = t \o <<c>> /\ after[3] = t \o <<c>>
  OBVIOUS
<1> HIDE DEF first, pressed, last, after
<1> DEFINE s1 == Append(s, LShift)
           s2 == Append(s1, k)
           s3 == Append(s2, Up(k))
           s4 == Append(s3, Up(LShift))
<1>6. s1 \in Seq(KeyByte) /\ s2 \in Seq(KeyByte) /\ s3 \in Seq(KeyByte)
  BY <1>3
<1>7. s4 = s1 \o <<k, Up(k), Up(LShift)>>
  BY <1>3, <1>6
<1>8. Hears(g0, s1, first, m)
  BY <1>2, <1>3, <1>4, <1>5, HearsOneMore
<1> HIDE DEF s1
<1>9. Hears(g0, s2, pressed, m)
  BY <1>2, <1>3, <1>5, <1>6, <1>8, HearsOneMore
<1> HIDE DEF s2
<1>10. Hears(g0, s3, last, m)
  BY <1>2, <1>3, <1>5, <1>6, <1>9, HearsOneMore
<1> HIDE DEF s3
<1>11. Hears(g0, s4, after, m)
  BY <1>2, <1>3, <1>5, <1>6, <1>10, HearsOneMore
<1> QED BY <1>1, <1>7, <1>11 DEF s1, after

\* The next character is taken off the text.
LEMMA TextNext ==
    ASSUME AutoTypes, Fetch, NEW f, NEW p \in 1 .. Ends, NEW t \in Seq(Letters), Continues(f, p, t)
    PROVE  \E q \in 1 .. Ends :
              /\ autokeys_text' = From(q)
              /\ t \o Sounds(autokeys_text) \in Seq(Letters)
              /\ (t \o Sounds(autokeys_text)) \o f[q] = Meant
              /\ Opens(t \o Sounds(autokeys_text), Meant) /\ Opens(t, Meant)
<1>0. whole_text \in Seq(Letters)
  BY DEF AutoTypes
<1>1. PICK n \in Nat : n = Len(whole_text)
  BY <1>0
<1>2. autokeys_text = From(p) /\ autokeys_text # <<>> /\ Ends = n + 1
  BY <1>1 DEF Continues, Fetch, TextAfter, Ends
<1>3. /\ From(p) \in Seq(Letters) /\ Len(From(p)) = (n + 1) - p
      /\ \A j \in 1 .. (n + 1) - p : From(p)[j] = whole_text[(p + j) - 1]
  BY <1>0, <1>2, FromType
<1>4. p \in 1 .. n
  BY <1>2, <1>3
<1>5. PICK w \in {1, 2} : w = Width(From(p)) /\ p + w \in 1 .. Ends /\ Sounds(From(p)) \in Seq(Letters)
  BY <1>0, <1>1, <1>4, NextFits
<1>6. autokeys_text' = From(p + w)
  <2>1. autokeys_text' = SubSeq(From(p), w + 1, Len(From(p)))
    BY <1>2, <1>5 DEF Fetch, TextAfter
  <2>2. /\ From(p + w) \in Seq(Letters) /\ Len(From(p + w)) = (n + 1) - (p + w)
        /\ \A j \in 1 .. (n + 1) - (p + w) : From(p + w)[j] = whole_text[((p + w) + j) - 1]
    BY <1>0, <1>2, <1>5, FromType
  <2> DEFINE r == From(p)
             u == SubSeq(r, w + 1, (n + 1) - p)
  <2>3. r \in Seq(Letters) /\ Len(r) = (n + 1) - p
    BY <1>3
  <2> HIDE DEF r
  <2>4. /\ u \in Seq(Letters) /\ Len(u) = (n + 1) - (p + w)
        /\ \A j \in 1 .. (n + 1) - (p + w) : u[j] = r[w + j]
    <3>1. w + 1 >= 1 /\ (n + 1) - p \in Nat /\ (n + 1) - (p + w) \in Nat
      BY <1>2, <1>4, <1>5
    <3>2. u \in Seq(Letters)
      BY <2>3, <3>1
    <3>3. Len(u) = (n + 1) - (p + w)
      BY <2>3, <3>1
    <3>4. ASSUME NEW j \in 1 .. (n + 1) - (p + w) PROVE u[j] = r[w + j]
      <4>1. ((n + 1) - p) - (w + 1) + 1 = (n + 1) - (p + w)
        OBVIOUS
      <4>2. u[j] = r[(w + 1) + j - 1]
        BY <2>3, <3>1, <4>1
      <4>3. (w + 1) + j - 1 = w + j
        OBVIOUS
      <4> QED BY <4>2, <4>3
    <3> QED BY <3>2, <3>3, <3>4
  <2>5. ASSUME NEW j \in 1 .. (n + 1) - (p + w) PROVE u[j] = From(p + w)[j]
    <3>1. w + j \in 1 .. (n + 1) - p /\ (p + (w + j)) - 1 = ((p + w) + j) - 1
      OBVIOUS
    <3>2. r[w + j] = whole_text[(p + (w + j)) - 1]
      BY <1>3, <3>1, Zenon DEF r
    <3> QED BY <2>2, <2>4, <3>1, <3>2
  <2>6. u = From(p + w)
    BY <2>2, <2>4, <2>5, SeqEqual
  <2> QED BY <1>3, <2>1, <2>6 DEF r
<1>7. f \in [1 .. Ends -> Seq(Letters)] /\ f[p] = Sounds(From(p)) \o f[p + w]
  <2>1. p \in 1 .. Ends /\ ~ (p > Len(whole_text))
    BY <1>1, <1>4
  <2>2. Means(f, 1)
    BY DEF Continues
  <2> QED BY <1>5, <2>1, <2>2, Zenon DEF Means
<1>8. f[p + w] \in Seq(Letters)
  BY <1>5, <1>7
<1>9. /\ t \o Sounds(From(p)) \in Seq(Letters)
      /\ (t \o Sounds(From(p))) \o f[p + w] = t \o (Sounds(From(p)) \o f[p + w])
  <2>1. \A s, r \in Seq(Letters) :
            /\ t \o s \in Seq(Letters)
            /\ (t \o s) \o r = t \o (s \o r)
    BY ConcatAssociative, ConcatProperties
  <2> QED BY <1>5, <1>8, <2>1, Zenon
<1>10. t \o f[p] = Meant
  BY DEF Continues
<1>11. Opens(t, Meant)
  <2>1. f[p] \in Seq(Letters)
    BY <1>7
  <2>2. Opens(t, t \o f[p])
    BY <2>1, OpensWhole
  <2> QED BY <1>10, <2>2
<1>12. Opens(t \o Sounds(From(p)), Meant)
  <2>1. Opens(t \o Sounds(From(p)), (t \o Sounds(From(p))) \o f[p + w])
    BY <1>8, <1>9, OpensWhole
  <2> QED BY <1>7, <1>9, <1>10, <2>1
<1> QED BY <1>2, <1>5, <1>6, <1>7, <1>9, <1>10, <1>11, <1>12

\* Given how the bytes of a character are heard, the invariant holds anew.
LEMMA Continued ==
    ASSUME AutoInv, AutoTypes', Fetch, UNCHANGED <<whole_text, reader>>, ~ missed', ~ missed,
           NEW d, d = Sounds(autokeys_text),
           \A t \in Seq(Letters) :
               Hears(reader, KeyStream, <<FALSE, {}, t>>, Meant) /\ Opens(t, Meant) /\ Opens(t \o d, Meant)
               => Hears(reader, KeyStream', <<FALSE, {}, t \o d>>, Meant)
    PROVE  AutoInv'
<1>1. PICK f : \E p \in 1 .. Ends, t \in Seq(Letters) : Continues(f, p, t)
  BY DEF AutoInv, InTune
<1>2. PICK p \in 1 .. Ends, t \in Seq(Letters) : Continues(f, p, t)
  BY <1>1
<1>3. PICK q \in 1 .. Ends :
          /\ autokeys_text' = From(q)
          /\ t \o d \in Seq(Letters)
          /\ (t \o d) \o f[q] = Meant
          /\ Opens(t \o d, Meant) /\ Opens(t, Meant)
  <2>1. AutoTypes
    BY DEF AutoInv
  <2> QED BY <1>2, <2>1, TextNext
<1>4. /\ Meant' = Meant /\ Ends' = Ends /\ From(q)' = From(q)
      /\ (Means(f, 1)' <=> Means(f, 1))
  BY SameText
<1>5. Hears(reader, KeyStream', <<FALSE, {}, t \o d>>, Meant)
  BY <1>2, <1>3, Zenon DEF Continues
<1>6. Means(f, 1) /\ f[1] = Meant
  BY <1>2, Zenon DEF Continues
<1>7. reader' = reader
  OBVIOUS
<1>8. Continues(f, q, t \o d)'
  BY <1>3, <1>4, <1>5, <1>6, <1>7, Zenon DEF Continues
<1>9. InTune'
  BY <1>3, <1>4, <1>8, Zenon DEF InTune
<1> QED BY <1>9 DEF AutoInv

LEMMA CharacterKeys ==
    /\ \A c \in DOMAIN autokey_ascii : autokey_ascii[c] \in Keys /\ c \notin DOMAIN autokey_shift
    /\ \A c \in DOMAIN autokey_shift : autokey_shift[c] \in Keys
<1>1. <<>> \in Seq(Letters)
  OBVIOUS
<1>2. ASSUME NEW c \in DOMAIN autokey_ascii
      PROVE  autokey_ascii[c] \in Keys /\ c \notin DOMAIN autokey_shift
  BY <1>1, PlainKeys
<1>3. ASSUME NEW c \in DOMAIN autokey_shift PROVE autokey_shift[c] \in Keys
  BY <1>1, ShiftedKeys
<1> QED BY <1>2, <1>3

LEMMA FetchStep ==
    ASSUME AutoInv, autokeys_step, Fetch
    PROVE  AutoInv'
<1>0. PICK c : c = Next1(autokeys_text)
  OBVIOUS
<1>1. UNCHANGED <<whole_text, reader>> /\ UNCHANGED whole_text /\ UNCHANGED reader
  BY DEF autokeys_step
<1>2. AutoTypes /\ autokeys_phase = 0 /\ Coming = <<>>
  BY DEF AutoInv, Fetch, Coming
<1>3. KeyStream = Waiting /\ Waiting \in Seq(KeyByte)
  <2>1. Waiting \in Seq(KeyByte)
    BY <1>2, ComingType
  <2> QED BY <1>2, <2>1, ConcatEmptySeq DEF KeyStream
<1>4. autokeys_text' \in Seq(Letters) /\ autokeys_shifted' = (c \in DOMAIN autokey_shift)
  <2>1. autokeys_text \in Seq(Letters) /\ Width(autokeys_text) \in {1, 2}
    BY <1>2 DEF AutoTypes, Width
  <2>2. /\ autokeys_text' = SubSeq(autokeys_text, Width(autokeys_text) + 1, Len(autokeys_text))
        /\ autokeys_shifted' = (c \in DOMAIN autokey_shift)
    BY <1>0 DEF Fetch, TextAfter
  <2>3. PICK w \in Nat : w = Width(autokeys_text) + 1
    BY <2>1
  <2> QED BY <2>1, <2>2, <2>3
<1>5. CASE c \in DOMAIN autokey_ascii /\ autokeys_pending' = autokey_ascii[c]
           /\ autokeys_phase' = 2 /\ Add(autokey_ascii[c])
  <2>1. PICK k \in Keys : k = autokey_ascii[c]
    BY <1>5, CharacterKeys
  <2>2. k \in KeyByte /\ Up(k) \in KeyByte /\ c \notin DOMAIN autokey_shift
    BY <1>5, KeysAreBytes, CharacterKeys
  <2>3. /\ kbd_ring' \in Ring(KeySize, KeyByte)
        /\ ~ missed' => ~ missed /\ Waiting' = Append(Waiting, k)
    BY <1>2, <1>5, <2>1, <2>2, KeyAdds DEF AutoTypes
  <2>4. AutoTypes'
    <3>1. missed' \in BOOLEAN
      BY <1>2, <1>5 DEF Add, AutoTypes
    <3> QED BY <1>1, <1>2, <1>4, <1>5, <2>1, <2>3, <3>1 DEF AutoTypes
  <2>5. CASE ~ missed'
    <3>1. Coming' = <<Up(k)>>
      <4>1. ~ autokeys_shifted' /\ autokeys_phase' = 2 /\ autokeys_pending' = k
        BY <1>4, <1>5, <2>1, <2>2
      <4> QED BY <4>1 DEF Coming
    <3>2. KeyStream' = Append(Waiting, k) \o <<Up(k)>>
      BY <2>3, <2>5, <3>1 DEF KeyStream
    <3>3. Sounds(autokeys_text) = <<c>>
      BY <1>0, <1>5 DEF Sounds
    <3>4. ASSUME NEW t \in Seq(Letters), Hears(reader, KeyStream, <<FALSE, {}, t>>, Meant), Opens(t \o <<c>>, Meant)
          PROVE  Hears(reader, KeyStream', <<FALSE, {}, t \o <<c>>>>, Meant)
      BY <1>3, <1>5, <2>1, <3>2, <3>4, HearsPlain
    <3> QED BY <1>1, <2>3, <2>4, <2>5, <3>3, <3>4, Continued
  <2> QED BY <2>4, <2>5 DEF AutoInv
<1>6. CASE c \in DOMAIN autokey_shift /\ autokeys_pending' = autokey_shift[c]
           /\ autokeys_phase' = 1 /\ Add(LShift)
  <2>1. PICK k \in Keys : k = autokey_shift[c]
    BY <1>6, CharacterKeys
  <2>2. k \in KeyByte /\ Up(k) \in KeyByte /\ LShift \in KeyByte /\ Up(LShift) \in KeyByte
    BY KeysAreBytes
  <2>3. /\ kbd_ring' \in Ring(KeySize, KeyByte)
        /\ ~ missed' => ~ missed /\ Waiting' = Append(Waiting, LShift)
    BY <1>2, <1>6, <2>2, KeyAdds DEF AutoTypes
  <2>4. AutoTypes'
    <3>1. missed' \in BOOLEAN
      BY <1>2, <1>6 DEF Add, AutoTypes
    <3>2. autokeys_shifted' = TRUE
      BY <1>4, <1>6
    <3> QED BY <1>1, <1>2, <1>4, <1>6, <2>1, <2>3, <3>1, <3>2 DEF AutoTypes
  <2>5. CASE ~ missed'
    <3>1. Coming' = <<k, Up(k), Up(LShift)>>
      BY <1>6, <2>1 DEF Coming
    <3>2. KeyStream' = Append(Waiting, LShift) \o <<k, Up(k), Up(LShift)>>
      BY <2>3, <2>5, <3>1 DEF KeyStream
    <3>3. Sounds(autokeys_text) = <<c>>
      BY <1>0, <1>6 DEF Sounds
    <3>4. ASSUME NEW t \in Seq(Letters), Hears(reader, KeyStream, <<FALSE, {}, t>>, Meant), Opens(t, Meant),
                 Opens(t \o <<c>>, Meant)
          PROVE  Hears(reader, KeyStream', <<FALSE, {}, t \o <<c>>>>, Meant)
      BY <1>3, <1>6, <2>1, <3>2, <3>4, HearsShifted
    <3> QED BY <1>1, <2>3, <2>4, <2>5, <3>3, <3>4, Continued
  <2> QED BY <2>4, <2>5 DEF AutoInv
<1>7. CASE /\ c \notin DOMAIN autokey_ascii \cup DOMAIN autokey_shift
           /\ UNCHANGED <<autokeys_pending, autokeys_phase, kbd_ring, missed>>
  <2>1. AutoTypes'
    BY <1>1, <1>2, <1>4, <1>7 DEF AutoTypes
  <2>2. CASE ~ missed'
    <3>1. KeyStream' = KeyStream
      BY <1>2, <1>7 DEF KeyStream, Waiting, Coming
    <3>2. Sounds(autokeys_text) = <<>>
      BY <1>0, <1>7 DEF Sounds
    <3>3. ASSUME NEW t \in Seq(Letters), Hears(reader, KeyStream, <<FALSE, {}, t>>, Meant)
          PROVE  Hears(reader, KeyStream', <<FALSE, {}, t \o <<>>>>, Meant)
      BY <3>1, <3>3, ConcatEmptySeq
    <3> QED BY <1>1, <1>7, <2>1, <2>2, <3>2, <3>3, Continued
  <2> QED BY <2>1, <2>2 DEF AutoInv
<1> QED BY <1>0, <1>5, <1>6, <1>7, Zenon DEF Fetch

\* The first of two sequences gives its first byte first.
LEMMA FirstOfTwo ==
    ASSUME NEW s \in Seq(KeyByte), NEW r \in Seq(KeyByte), s # <<>>
    PROVE  /\ s \o r \in Seq(KeyByte) /\ s \o r # <<>>
           /\ Head(s \o r) = Head(s) /\ Tail(s \o r) = Tail(s) \o r
<1>1. PICK n \in Nat, m \in Nat : Len(s) = n + 1 /\ Len(r) = m
  <2>1. Len(s) \in Nat /\ Len(s) # 0 /\ Len(r) \in Nat
    OBVIOUS
  <2>2. Len(s) - 1 \in Nat /\ Len(s) = (Len(s) - 1) + 1
    BY <2>1
  <2> QED BY <2>1, <2>2, Zenon
<1> DEFINE u == s \o r
<1>2. /\ u \in Seq(KeyByte) /\ Len(u) = (n + 1) + m
      /\ \A i \in 1 .. (n + 1) + m : u[i] = IF i <= n + 1 THEN s[i] ELSE r[i - (n + 1)]
  <2>1. /\ u \in Seq(KeyByte) /\ Len(u) = Len(s) + Len(r)
        /\ \A i \in 1 .. Len(s) + Len(r) : u[i] = IF i <= Len(s) THEN s[i] ELSE r[i - Len(s)]
    BY ConcatProperties
  <2> HIDE DEF u
  <2> QED BY <1>1, <2>1
<1> HIDE DEF u
<1>3. u # <<>> /\ Head(u) = s[1] /\ Head(s) = s[1]
  BY <1>1, <1>2
<1> DEFINE w == Tail(s)
           x == w \o r
           v == Tail(u)
<1>4. w \in Seq(KeyByte) /\ Len(w) = n /\ \A i \in 1 .. n : w[i] = s[i + 1]
  BY <1>1
<1> HIDE DEF w
<1>5. /\ x \in Seq(KeyByte) /\ Len(x) = n + m
      /\ \A i \in 1 .. n + m : x[i] = IF i <= n THEN w[i] ELSE r[i - n]
  BY <1>1, <1>4, ConcatProperties
<1> HIDE DEF x
<1>6. v \in Seq(KeyByte) /\ Len(v) = n + m /\ \A i \in 1 .. n + m : v[i] = u[i + 1]
  BY <1>2, <1>3
<1> HIDE DEF v
<1>7. ASSUME NEW i \in 1 .. n + m PROVE v[i] = x[i]
  <2>1. i + 1 \in 1 .. (n + 1) + m /\ (i + 1) - (n + 1) = i - n
    OBVIOUS
  <2>2. CASE i <= n
    <3>1. i \in 1 .. n /\ i + 1 <= n + 1
      BY <2>2
    <3> QED BY <1>2, <1>4, <1>5, <1>6, <2>1, <2>2, <3>1
  <2>3. CASE ~ (i <= n)
    <3>1. ~ (i + 1 <= n + 1)
      BY <2>3
    <3> QED BY <1>2, <1>5, <1>6, <2>1, <2>3, <3>1
  <2> QED BY <2>2, <2>3
<1>8. v = x
  BY <1>5, <1>6, <1>7, SeqEqual
<1> QED BY <1>2, <1>3, <1>8 DEF u, v, x, w

\* What the guest makes of a byte, in the model's words and here.
LEMMA GuestHears ==
    ASSUME AutoTypes, GuestReads
    PROVE  /\ RingFront(kbd_ring) \in KeyByte
           /\ reader' = After(reader, RingFront(kbd_ring))
<1>1. PICK b : b = RingFront(kbd_ring)
  OBVIOUS
<1>2. b \in KeyByte
  <2>1. kbd_ring \in Ring(KeySize, KeyByte)
    BY DEF AutoTypes
  <2>2. kbd_ring.buf[kbd_ring.tail] \in KeyByte
    BY <2>1 DEF Ring
  <2>3. 0 \in KeyByte
    BY DEF KeyByte
  <2> QED BY <1>1, <2>2, <2>3 DEF RingFront
<1>3. shift_down \in BOOLEAN /\ typed \in Seq(Letters)
  BY DEF AutoTypes, Listener, reader
<1>4. shift_down' = ShiftAfter(b, shift_down)
  BY <1>1 DEF GuestReads, ShiftAfter
<1>5. keys_down' = DownAfter(b, keys_down)
  BY <1>1 DEF GuestReads, DownAfter
<1>6. /\ DOMAIN autokey_ascii = {"a", "\\", "n", "enter"} /\ DOMAIN autokey_shift = {"A"}
      /\ autokey_ascii["a"] = 31 /\ autokey_ascii["\\"] = 29 /\ autokey_ascii["n"] = 51
      /\ autokey_ascii["enter"] = 43 /\ autokey_shift["A"] = 31
  BY DEF autokey_ascii, autokey_shift
<1>7. typed' = typed \o Symbol(b, shift_down)
  <2>1. CASE b \in Keys /\ \E c \in Typed(b, shift_down) : typed' = Append(typed, c)
    <3>1. PICK c \in Typed(b, shift_down) : typed' = Append(typed, c)
      BY <2>1
    <3>2. c \in Letters /\ Symbol(b, shift_down) = <<c>>
      <4>1. CASE shift_down
        <5>1. c = "A" /\ b = 31
          BY <1>6, <3>1, <4>1, Zenon DEF Typed
        <5> QED BY <4>1, <5>1, AutoAssumption DEF Symbol
      <4>2. CASE ~ shift_down
        <5>1. c \in {"a", "\\", "n", "enter"} /\ autokey_ascii[c] = b
          BY <1>6, <3>1, <4>2, Zenon DEF Typed
        <5>2. /\ c = "a" => b = 31
              /\ c = "\\" => b = 29
              /\ c = "n" => b = 51
              /\ c = "enter" => b = 43
          BY <1>6, <5>1, Zenon
        <5>3. /\ Symbol(31, shift_down) = <<"a">> /\ Symbol(29, shift_down) = <<"\\">>
              /\ Symbol(51, shift_down) = <<"n">> /\ Symbol(43, shift_down) = <<"enter">>
          BY <4>2 DEF Symbol, Keys
        <5>4. c \in Letters
          BY <5>1, AutoAssumption
        <5> QED BY <5>1, <5>2, <5>3, <5>4, Zenon
      <4> QED BY <4>1, <4>2
    <3>3. Append(typed, c) = typed \o <<c>>
      BY <1>3, <3>2, AppendIsConcat
    <3> QED BY <3>1, <3>2, <3>3, Zenon
  <2>2. CASE ~ (b \in Keys /\ Typed(b, shift_down) # {}) /\ UNCHANGED typed
    <3>1. Symbol(b, shift_down) = <<>>
      <4>1. CASE b \notin Keys
        BY <4>1 DEF Symbol, Keys
      <4>2. CASE b \in Keys
        <5>1. Typed(b, shift_down) = {}
          BY <2>2, <4>2
        <5>2. CASE shift_down
          <6>1. b # 31
            <7> SUFFICES ASSUME b = 31 PROVE FALSE
              OBVIOUS
            <7>1. "A" \in Typed(b, shift_down)
              BY <1>6, <5>2 DEF Typed
            <7> QED BY <5>1, <7>1
          <6> QED BY <5>2, <6>1 DEF Symbol
        <5>3. CASE ~ shift_down
          <6>1. PICK c \in {"a", "\\", "n", "enter"} : autokey_ascii[c] = b
            BY <1>6, <4>2 DEF Keys
          <6>2. c \in Typed(b, shift_down)
            BY <1>6, <5>3, <6>1 DEF Typed
          <6> QED BY <5>1, <6>2
        <5> QED BY <5>2, <5>3
      <4> QED BY <4>1, <4>2
    <3>2. typed \o <<>> = typed
      BY <1>3, ConcatEmptySeq
    <3> QED BY <2>2, <3>1, <3>2
  <2> QED BY <1>1, <2>1, <2>2, Zenon DEF GuestReads
<1>8. reader[1] = shift_down /\ reader[2] = keys_down /\ reader[3] = typed
  BY DEF reader
<1>9. reader' = <<shift_down', keys_down', typed'>>
  BY DEF reader
<1>10. After(reader, b) = <<ShiftAfter(b, shift_down), DownAfter(b, keys_down), typed \o Symbol(b, shift_down)>>
  BY <1>8, Zenon DEF After
<1>11. <<shift_down', keys_down', typed'>> = <<ShiftAfter(b, shift_down), DownAfter(b, keys_down), typed \o Symbol(b, shift_down)>>
  BY <1>4, <1>5, <1>7, Zenon
<1>12. reader' = After(reader, b)
  BY <1>9, <1>10, <1>11
<1> QED BY <1>1, <1>2, <1>12

LEMMA GuestStep ==
    ASSUME AutoInv, GuestReads
    PROVE  AutoInv'
<1>1. AutoTypes
  BY DEF AutoInv
<1>2. /\ UNCHANGED <<autokeys_text, autokeys_pending, autokeys_shifted, autokeys_phase, missed>>
      /\ UNCHANGED whole_text /\ missed' = missed /\ autokeys_text' = autokeys_text
      /\ kbd_ring.head # kbd_ring.tail /\ kbd_ring' = RingNext(KeySize, kbd_ring)
  BY DEF GuestReads
<1>3. PICK b \in KeyByte : b = RingFront(kbd_ring) /\ reader' = After(reader, b)
  BY <1>1, GuestHears
<1>4. /\ kbd_ring' \in Ring(KeySize, KeyByte)
      /\ b = QueueFront(Waiting) /\ Waiting' = QueueNext(Waiting)
  BY <1>1, <1>2, <1>3, KeyRingFits, NextIsQueueNext DEF Waiting, AutoTypes
<1>5. AutoTypes'
  <2>1. reader' \in Listener
    BY <1>1, <1>3, AfterType DEF AutoTypes
  <2> QED BY <1>1, <1>2, <1>4, <2>1 DEF AutoTypes
<1>6. ASSUME ~ missed' PROVE InTune'
  <2>1. Waiting \in Seq(KeyByte) /\ Coming \in Seq(KeyByte) /\ Coming' = Coming
    BY <1>1, <1>2, ComingType DEF Coming
  <2>2. Waiting # <<>>
    <3>1. Len(Waiting) = RingCount(KeySize, kbd_ring)
      BY <1>1, KeyRingFits, ContentsType DEF Waiting, AutoTypes
    <3>2. kbd_ring.head \in 0 .. KeySize - 1 /\ kbd_ring.tail \in 0 .. KeySize - 1
      BY <1>1 DEF Ring, AutoTypes
    <3>3. RingCount(KeySize, kbd_ring) = IF kbd_ring.head >= kbd_ring.tail THEN kbd_ring.head - kbd_ring.tail
                                         ELSE KeySize + kbd_ring.head - kbd_ring.tail
      BY <1>1, KeyRingFits, RingCountValue DEF AutoTypes
    <3>4. RingCount(KeySize, kbd_ring) # 0
      BY <1>2, <3>2, <3>3, AutoAssumption
    <3> QED BY <3>1, <3>4
  <2>3. b = Head(Waiting) /\ Waiting' = Tail(Waiting)
    BY <1>4, <2>2 DEF QueueFront, QueueNext
  <2>4. \A s, r \in Seq(KeyByte) : s # <<>> => /\ s \o r \in Seq(KeyByte) /\ s \o r # <<>>
                                              /\ Head(s \o r) = Head(s) /\ Tail(s \o r) = Tail(s) \o r
    BY FirstOfTwo
  <2>5. KeyStream \in Seq(KeyByte) /\ KeyStream # <<>> /\ Head(KeyStream) = b /\ KeyStream' = Tail(KeyStream)
    BY <2>1, <2>2, <2>3, <2>4, Zenon DEF KeyStream
  <2>6. PICK f : \E p \in 1 .. Ends, t \in Seq(Letters) : Continues(f, p, t)
    BY <1>2, <1>6 DEF AutoInv, InTune
  <2>7. PICK p \in 1 .. Ends, t \in Seq(Letters) : Continues(f, p, t)
    BY <2>6
  <2>8. Hears(reader, KeyStream, <<FALSE, {}, t>>, Meant)
    BY <2>7, Zenon DEF Continues
  <2>9. Hears(After(reader, Head(KeyStream)), Tail(KeyStream), <<FALSE, {}, t>>, Meant)
    BY <2>5, <2>8, HearsRest
  <2>10. Hears(reader', KeyStream', <<FALSE, {}, t>>, Meant)
    BY <1>3, <2>5, <2>9, Zenon
  <2>11. /\ Meant' = Meant /\ Ends' = Ends /\ From(p)' = From(p)
         /\ (Means(f, 1)' <=> Means(f, 1))
    BY <1>2, SameText
  <2>12. Continues(f, p, t)'
    BY <1>2, <2>7, <2>10, <2>11, Zenon DEF Continues
  <2> QED BY <2>11, <2>12, Zenon DEF InTune
<1> QED BY <1>5, <1>6 DEF AutoInv

\* With nothing on the way the guest has no key held.
LEMMA Quiet ==
    ASSUME AutoInv, ~ missed, autokeys_phase = 0, kbd_ring.head = kbd_ring.tail
    PROVE  /\ KeyStream = <<>> /\ Waiting = <<>> /\ Coming = <<>>
           /\ \A f, p, t : Continues(f, p, t) => reader = <<FALSE, {}, t>>
<1>1. AutoTypes
  BY DEF AutoInv
<1>2. Waiting = <<>>
  <2>1. Len(Waiting) = RingCount(KeySize, kbd_ring) /\ Waiting \in Seq(KeyByte)
    BY <1>1, KeyRingFits, ContentsType DEF Waiting, AutoTypes
  <2>2. kbd_ring.head \in 0 .. KeySize - 1 /\ kbd_ring.tail \in 0 .. KeySize - 1
    BY <1>1 DEF Ring, AutoTypes
  <2>3. RingCount(KeySize, kbd_ring) = IF kbd_ring.head >= kbd_ring.tail THEN kbd_ring.head - kbd_ring.tail
                                       ELSE KeySize + kbd_ring.head - kbd_ring.tail
    BY <1>1, KeyRingFits, RingCountValue DEF AutoTypes
  <2>4. RingCount(KeySize, kbd_ring) = 0
    BY <2>2, <2>3, AutoAssumption
  <2> QED BY <2>1, <2>4
<1>3. Coming = <<>>
  BY DEF Coming
<1>4. KeyStream = <<>>
  BY <1>2, <1>3 DEF KeyStream
<1>5. ASSUME NEW f, NEW p, NEW t, Continues(f, p, t) PROVE reader = <<FALSE, {}, t>>
  <2>1. Hears(reader, <<>>, <<FALSE, {}, t>>, Meant)
    BY <1>4, <1>5, Zenon DEF Continues
  <2> QED BY <2>1, HeardNothing
<1> QED BY <1>2, <1>3, <1>4, <1>5

LEMMA ResetStep ==
    ASSUME AutoInv, ResetUnderTyping
    PROVE  AutoInv'
<1>1. AutoTypes
  BY DEF AutoInv
<1>2. /\ UNCHANGED <<autokeys_text, autokeys_pending, autokeys_shifted, autokeys_phase, typed>>
      /\ UNCHANGED whole_text /\ autokeys_text' = autokeys_text
      /\ kbd_ring' = RingFlush(kbd_ring) /\ shift_down' = FALSE /\ keys_down' = {}
      /\ missed' = (missed \/ kbd_ring.head # kbd_ring.tail \/ autokeys_phase # 0)
  BY DEF ResetUnderTyping
<1>3. kbd_ring' \in Ring(KeySize, KeyByte) /\ Waiting' = <<>>
  BY <1>1, <1>2, KeyRingFits, FlushIsEmpty DEF Waiting, AutoTypes
<1>4. typed \in Seq(Letters) /\ reader = <<shift_down, keys_down, typed>>
  BY <1>1 DEF AutoTypes, Listener, reader
<1>5. reader' = <<FALSE, {}, typed>>
  BY <1>2 DEF reader
<1>6. AutoTypes'
  <2>1. reader' \in Listener
    BY <1>4, <1>5 DEF Listener
  <2>2. missed' \in BOOLEAN
    BY <1>1, <1>2 DEF AutoTypes
  <2> QED BY <1>1, <1>2, <1>3, <2>1, <2>2 DEF AutoTypes
<1>7. ASSUME ~ missed' PROVE InTune'
  <2>1. ~ missed /\ kbd_ring.head = kbd_ring.tail /\ autokeys_phase = 0
    BY <1>2, <1>7
  <2>2. PICK f : \E p \in 1 .. Ends, t \in Seq(Letters) : Continues(f, p, t)
    BY <2>1 DEF AutoInv, InTune
  <2>3. PICK p \in 1 .. Ends, t \in Seq(Letters) : Continues(f, p, t)
    BY <2>2
  <2>4. reader = <<FALSE, {}, t>> /\ KeyStream = <<>>
    BY <2>1, <2>3, Quiet
  <2>5. t = typed
    BY <1>4, <2>4
  <2>6. reader' = reader
    BY <1>5, <2>4, <2>5
  <2>7. KeyStream' = KeyStream
    <3>1. Coming' = <<>>
      BY <1>2, <2>1 DEF Coming
    <3>2. KeyStream' = <<>>
      BY <1>3, <3>1 DEF KeyStream
    <3> QED BY <2>4, <3>2
  <2>8. /\ Meant' = Meant /\ Ends' = Ends /\ From(p)' = From(p)
        /\ (Means(f, 1)' <=> Means(f, 1))
    BY <1>2, SameText
  <2>9. Continues(f, p, t)'
    BY <1>2, <2>3, <2>6, <2>7, <2>8, Zenon DEF Continues
  <2> QED BY <2>8, <2>9, Zenon DEF InTune
<1> QED BY <1>6, <1>7 DEF AutoInv

LEMMA AutoStutter ==
    ASSUME AutoInv, UNCHANGED autoVars
    PROVE  AutoInv'
<1>1. /\ UNCHANGED <<autokeys_pending, autokeys_shifted, autokeys_phase, kbd_ring>>
      /\ missed' = missed /\ autokeys_text' = autokeys_text /\ UNCHANGED whole_text /\ reader' = reader
  BY DEF autoVars, reader
<1>2. AutoTypes'
  BY <1>1 DEF AutoInv, AutoTypes
<1>3. ASSUME ~ missed' PROVE InTune'
  <2>1. PICK f : \E p \in 1 .. Ends, t \in Seq(Letters) : Continues(f, p, t)
    BY <1>1, <1>3 DEF AutoInv, InTune
  <2>2. PICK p \in 1 .. Ends, t \in Seq(Letters) : Continues(f, p, t)
    BY <2>1
  <2>3. KeyStream' = KeyStream
    BY <1>1 DEF KeyStream, Waiting, Coming
  <2>4. /\ Meant' = Meant /\ Ends' = Ends /\ From(p)' = From(p)
        /\ (Means(f, 1)' <=> Means(f, 1))
    BY <1>1, SameText
  <2>5. Continues(f, p, t)'
    BY <1>1, <2>2, <2>3, <2>4, Zenon DEF Continues
  <2> QED BY <2>4, <2>5, Zenon DEF InTune
<1> QED BY <1>2, <1>3 DEF AutoInv

LEMMA AutoStep == AutoInv /\ [AutoNext]_autoVars => AutoInv'
<1> SUFFICES ASSUME AutoInv, [AutoNext]_autoVars PROVE AutoInv'
  OBVIOUS
<1>1. CASE autokeys_step
  BY <1>1, FetchStep, EventStep DEF autokeys_step
<1>2. CASE GuestReads
  BY <1>2, GuestStep
<1>3. CASE ResetUnderTyping
  BY <1>3, ResetStep
<1>4. CASE Over \/ UNCHANGED autoVars
  BY <1>4, AutoStutter DEF Over
<1> QED BY <1>1, <1>2, <1>3, <1>4 DEF AutoNext

LEMMA TextIsTyped == AutoInv => TypesTheText
<1> SUFFICES ASSUME AutoInv, ~ missed
             PROVE  /\ Len(typed) <= Len(Meant) /\ typed = SubSeq(Meant, 1, Len(typed))
                    /\ Finished /\ kbd_ring.head = kbd_ring.tail =>
                          typed = Meant /\ keys_down = {} /\ ~ shift_down
  BY DEF TypesTheText
<1>1. PICK f : \E p \in 1 .. Ends, t \in Seq(Letters) : Continues(f, p, t)
  BY DEF AutoInv, InTune
<1>2. PICK p \in 1 .. Ends, t \in Seq(Letters) : Continues(f, p, t)
  BY <1>1
<1>3. AutoTypes /\ reader = <<shift_down, keys_down, typed>>
  BY DEF AutoInv, reader
<1>4. Opens(typed, Meant)
  <2>1. KeyStream \in Seq(KeyByte)
    BY <1>3, ComingType
  <2>2. Hears(reader, KeyStream, <<FALSE, {}, t>>, Meant)
    BY <1>2, Zenon DEF Continues
  <2>3. Opens(reader[3], Meant)
    BY <2>1, <2>2, HearsBegin
  <2> QED BY <1>3, <2>3
<1>5. ASSUME Finished, kbd_ring.head = kbd_ring.tail
      PROVE  typed = Meant /\ keys_down = {} /\ ~ shift_down
  <2>1. autokeys_phase = 0 /\ autokeys_text = <<>>
    BY <1>5 DEF Finished
  <2>2. reader = <<FALSE, {}, t>>
    BY <1>2, <1>5, <2>1, Quiet
  <2>3. ~ shift_down /\ keys_down = {} /\ typed = t
    <3>1. reader[1] = shift_down /\ reader[2] = keys_down /\ reader[3] = typed
      BY <1>3
    <3>2. reader[1] = FALSE /\ reader[2] = {} /\ reader[3] = t
      BY <2>2
    <3> QED BY <3>1, <3>2
  <2>4. whole_text \in Seq(Letters) /\ From(p) = <<>>
    BY <1>2, <1>3, <2>1 DEF AutoTypes, Continues
  <2>5. PICK n \in Nat : n = Len(whole_text) /\ Ends = n + 1
    BY <2>4 DEF Ends
  <2>6. Len(From(p)) = (n + 1) - p
    BY <2>4, <2>5, FromType
  <2>7. p = n + 1 /\ p > Len(whole_text)
    BY <2>4, <2>5, <2>6
  <2>8. p \in 1 .. Ends
    OBVIOUS
  <2>9. f[p] = <<>>
    BY <1>2, <2>7, <2>8, Zenon DEF Continues, Means
  <2>10. t \o f[p] = Meant
    BY <1>2, Zenon DEF Continues
  <2>11. t = Meant
    BY <2>9, <2>10, ConcatEmptySeq
  <2> QED BY <2>3, <2>11
<1> QED BY <1>4, <1>5 DEF Opens

\* As long as the ring had room and no reset emptied it the guest reads the text,
\* each character on its own layer, and holds no key at its end (autokeys_step,
\* keyboard.c), for every text and a ring of any size.
THEOREM TypingCorrect == AutoSpec => []TypesTheText
<1>1. AutoInit => AutoInv
  BY AutoStart
<1>2. AutoInv /\ [AutoNext]_autoVars => AutoInv'
  BY AutoStep
<1>3. AutoInv => TypesTheText
  BY TextIsTyped
<1> QED BY <1>1, <1>2, <1>3, PTL DEF AutoSpec
=============================================================================
