----------------------------- MODULE BlockMove ------------------------------
(***************************************************************************)
(* mvn and mvp (cpu/instructions.h): an instruction moves one byte, steps  *)
(* the registers and goes back to itself until the count runs out, so that *)
(* interrupts come between two bytes.  A handler may move blocks of its    *)
(* own, in any width, and restores the registers it found; what it writes  *)
(* is apart from what the program moves.                                   *)
(***************************************************************************)
EXTENDS Integers, Sequences

CONSTANTS
    NarrowSize, \* values of a narrow index register, 256 in the code
    Counts,     \* values of c, one less than the bytes to move
    Starts,     \* values of x and y
    MaxMoves,   \* bound: blocks begun
    Nesting     \* bound: handlers within handlers

WordSize == NarrowSize * NarrowSize

ASSUME MoveAssumption ==
    /\ NarrowSize \in Nat \ {0} /\ Nesting \in Nat
    /\ Counts \subseteq 0 .. WordSize - 1 /\ Starts \subseteq 0 .. WordSize - 1

\* The program writes to bank 0, and a handler to a bank of its own.
Cell == (0 .. Nesting + 1) \X (0 .. WordSize - 1)

VARIABLES
    count, bmX, bmY, bmB,  \* regs.c, which counts down to -1, x, y and db
    narrow,                \* FLAG_INDEX_WIDTH
    m8,                    \* FLAG_MEMORY_WIDTH, which does not matter
    here,                  \* is the program counter at the move that was begun
    move,                  \* the instruction: [down, from, to]
    copied,                \* memory: a cell holds the cell it was copied from
    saved,                 \* what handlers saved, the latest last
    moves,
    begun                  \* history: the state when the move was begun
bmVars == <<count, bmX, bmY, bmB, narrow, m8, here, move, copied, saved, moves, begun>>

\* Mutation: index registers step as words in either width.
Size_word == WordSize

Size == IF narrow THEN NarrowSize ELSE WordSize
IndexSize(n) == IF n THEN NarrowSize ELSE WordSize
Own == IF saved = << >> THEN 0 ELSE Len(saved) + 1
Moves == [down : BOOLEAN, from : {0, 1}, to : {Own}]

\* lda, ldx, ldy, and the first byte of a move.  Narrow index registers have no
\* high byte.
Begin(mv, n, i, j, total, w) ==
    /\ ~ here /\ moves < MaxMoves
    /\ n => i < NarrowSize /\ j < NarrowSize
    /\ count' = total /\ bmX' = i /\ bmY' = j /\ narrow' = n /\ m8' = w
    /\ here' = TRUE /\ move' = mv /\ moves' = moves + 1
    /\ begun' = [c |-> total, x |-> i, y |-> j, narrow |-> n, mem |-> copied]
    /\ UNCHANGED <<bmB, copied, saved>>

\* --regs.c, of 16 bits in either width.
Counted == (count - 1) % WordSize

\* One execution of mvn or of mvp.
Step ==
    LET d == IF move.down THEN -1 ELSE 1
    IN  /\ here
        /\ copied' = [copied EXCEPT ![<<move.to, bmY>>] = copied[<<move.from, bmX>>]]
        /\ bmX' = (bmX + d) % Size /\ bmY' = (bmY + d) % Size
        /\ bmB' = move.to
        /\ count' = Counted
        /\ here' = (Counted # WordSize - 1)
        /\ UNCHANGED <<narrow, m8, move, saved, moves, begun>>

\* What a handler saves.
Now == [c |-> count, x |-> bmX, y |-> bmY, db |-> bmB, narrow |-> narrow, m8 |-> m8,
        here |-> here, move |-> move, begun |-> begun]

\* A handler begins between two instructions and saves what it will use.
Enter ==
    /\ Len(saved) < Nesting
    /\ saved' = Append(saved, Now)
    /\ here' = FALSE
    /\ UNCHANGED <<count, bmX, bmY, bmB, narrow, m8, move, copied, moves, begun>>

\* It restores the registers, and rti the status and the program counter.
Leave ==
    /\ saved # << >> /\ ~ here
    /\ LET s == saved[Len(saved)]
       IN  /\ count' = s.c /\ bmX' = s.x /\ bmY' = s.y /\ bmB' = s.db /\ narrow' = s.narrow
           /\ m8' = s.m8 /\ here' = s.here /\ move' = s.move /\ begun' = s.begun
    /\ saved' = SubSeq(saved, 1, Len(saved) - 1)
    /\ UNCHANGED <<copied, moves>>

Idle == [down |-> FALSE, from |-> 0, to |-> Nesting + 2]
BmInit ==
    /\ count = WordSize - 1 /\ bmX = 0 /\ bmY = 0 /\ bmB = 0 /\ narrow = TRUE /\ m8 = TRUE
    /\ here = FALSE /\ move = Idle
    /\ copied = [a \in Cell |-> a]
    /\ saved = << >> /\ moves = 0
    /\ begun = [c |-> WordSize - 1, x |-> 0, y |-> 0, narrow |-> TRUE, mem |-> copied]

BmNext ==
    \/ \E mv \in Moves, n, w \in BOOLEAN, i, j \in Starts, total \in Counts :
          Begin(mv, n, i, j, total, w)
    \/ Step \/ Enter \/ Leave

BmSpec == BmInit /\ [][BmNext]_bmVars

-----------------------------------------------------------------------------
(* Properties. *)

\* The i-th cell that the move begun last reads, and the one it writes.
At(base, i) == (base + (IF move.down THEN - i ELSE i)) % IndexSize(begun.narrow)
From(i) == <<move.from, At(begun.x, i)>>
To(i) == <<move.to, At(begun.y, i)>>
Indices == 0 .. begun.c

\* No cell is read after it was written, and none is written twice.
Safe == \A i, j \in Indices : i < j => To(i) # From(j) /\ To(i) # To(j)

\* However many handlers come between its bytes and whatever they move
\* themselves, a move that is over has copied as many bytes as its count said
\* and one more, each as it was at the start, and touched no other cell of its
\* bank, and it leaves the count at $FFFF and the data bank at its target
\* (mvn, mvp: the state of a move is in registers only).
MoveIsWhole ==
    ~ here /\ count = WordSize - 1 /\ move.to = Own =>
      /\ bmB = move.to
      /\ Safe => \A i \in Indices : copied[To(i)] = begun.mem[From(i)]
      /\ \A a \in Cell : a[1] = move.to /\ a \notin {To(i) : i \in Indices} => copied[a] = begun.mem[a]
=============================================================================
