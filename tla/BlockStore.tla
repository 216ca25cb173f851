------------------------------ MODULE BlockStore ------------------------------
(***************************************************************************)
(* What the SD block device promises to who writes its registers: memory   *)
(* changes only by the run of blocks asked for, as far as it is on the     *)
(* card, and the error bit says whether that was all of it; the card       *)
(* changes only at the block asked for, as a whole.                        *)
(***************************************************************************)
EXTENDS Integers, Sequences

CONSTANTS CardSize,   \* blocks on the card
          BlockSize,  \* bytes of a block
          MemSize,    \* bytes of memory
          Byte

VARIABLES card, RAM, lba, mem, count, error,
          usable  \* there is a card

request == <<lba, mem, count>>

\* Memory after the blocks from lba on were laid down, n of them, from mem on.
Laid(n) ==
    [a \in 0..(MemSize - 1) |->
        LET offset == (a - mem) % MemSize
        IN  IF offset < n * BlockSize
            THEN card[lba + (offset \div BlockSize)][(offset % BlockSize) + 1]
            ELSE RAM[a]]

\* How many of the blocks asked for are on the card.
Present ==
    IF ~usable \/ lba >= CardSize THEN 0
    ELSE IF lba + count > CardSize THEN CardSize - lba ELSE count

Transfer ==
    /\ Present > 0
    /\ RAM' = Laid(Present)
    /\ error' = (Present < count)
    /\ UNCHANGED <<card, request>>

Store(bytes) ==
    /\ usable /\ lba < CardSize
    /\ card' = [card EXCEPT ![lba] = bytes]
    /\ ~error'
    /\ UNCHANGED <<RAM, request>>

\* Registers written, a status read or cleared, a command that failed.
Other == UNCHANGED <<card, RAM>>

Init ==
    /\ card \in [0..(CardSize - 1) -> [1..BlockSize -> Byte]]
    /\ RAM \in [0..(MemSize - 1) -> Byte]

Next ==
    \/ Other
    \/ Transfer
    \/ \E bytes \in [1..BlockSize -> Byte] : Store(bytes)

Spec == Init /\ [][Next /\ UNCHANGED usable]_<<card, RAM, request, error, usable>>
=============================================================================
