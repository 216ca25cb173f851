------------------------------ MODULE ByteRing ------------------------------
(***************************************************************************)
(* The ring buffers between the host's input events and the guest's I2C    *)
(* reads (i2c.c).  The code has two of them, kbd_buffer and mse_buffer,    *)
(* with the same add, next, flush and count functions on their own head    *)
(* and tail; here the functions are operators on a record                  *)
(* [buf, head, tail] of a size.                                            *)
(*                                                                         *)
(* `x & (SIZE - 1)' is written x % size: the masks of the code are right   *)
(* because KBD_SIZE and MSE_SIZE are the power of two 16, and the modulus  *)
(* is what they compute.  A full ring holds size - 1 bytes: head = tail    *)
(* means empty.                                                            *)
(***************************************************************************)
EXTENDS Integers, Sequences

\* What a ring is made with: its size and what a slot holds, in which 0 is the
\* "nothing there" answer.
RingAssumption(size, Byte) == size \in Nat /\ size >= 2 /\ 0 \in Byte

Ring(size, Byte) == [buf : [0 .. size - 1 -> Byte], head : 0 .. size - 1, tail : 0 .. size - 1]

EmptyRing(size) == [buf |-> [i \in 0 .. size - 1 |-> 0], head |-> 0, tail |-> 0]

\* The slot after i.
NextSlot(size, i) == (i + 1) % size

\* Mutation: the byte is stored even when the ring is full.
RingAdd_unchecked(size, r, v) == [r EXCEPT !.buf[r.head] = v, !.head = NextSlot(size, r.head)]

\* A byte is discarded when the next slot is the tail.
RingAdd(size, r, v) ==
    IF NextSlot(size, r.head) = r.tail
    THEN r
    ELSE [r EXCEPT !.buf[r.head] = v, !.head = NextSlot(size, r.head)]

\* What next() returns, and the ring it leaves; an empty ring answers 0.
RingFront(r) == IF r.head = r.tail THEN 0 ELSE r.buf[r.tail]

RingNext(size, r) ==
    IF r.head = r.tail THEN r ELSE [r EXCEPT !.tail = NextSlot(size, r.tail)]

\* flush() rewinds the indices and leaves the bytes where they are.
RingFlush(r) == [buf |-> r.buf, head |-> 0, tail |-> 0]

RingCount(size, r) == (size + r.head - r.tail) % size

-----------------------------------------------------------------------------
\* The queue a ring stands for: its bytes from tail up to head.
Contents(size, r) == [i \in 1 .. RingCount(size, r) |-> r.buf[(r.tail + i - 1) % size]]

\* The queue the guest is meant to see: bounded, and it drops what does not fit.
QueueAdd(size, q, v) == IF Len(q) < size - 1 THEN Append(q, v) ELSE q
QueueFront(q)  == IF q = <<>> THEN 0 ELSE Head(q)
QueueNext(q)   == IF q = <<>> THEN q ELSE Tail(q)
=============================================================================
