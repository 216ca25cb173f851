--------------------------- MODULE MCInstructions ---------------------------
(***************************************************************************)
(* The processor: its modes, stack and interrupts; and what its            *)
(* instructions do with data, that is what they compute, where they find   *)
(* operands, and block moves.  These have registers in common and nothing  *)
(* else; a behaviour exercises one, chosen at the start.                   *)
(***************************************************************************)
EXTENDS MCCpu816, Alu816, Address816, BlockMove, Bitwise

VARIABLE part

\* All pointers to page 0; pointers and indexes that carry; and all bytes high.
SomePatterns ==
    {[a \in Address |-> f] : f \in {0, ByteSize - 1}}
    \cup {[a \in Address |-> ((2 * a) + 1) % ByteSize]}

\* C's operators on words.
AndOfBits(a, b) == a & b
OrOfBits(a, b) == a | b
XorOfBits(a, b) == a ^^ b

\* The variables of a part that is not exercised; of Alu816, a state about
\* which little is to be checked.
NoAlu ==
    aluC = WordVals - 1 /\ aluP = {"D"} /\ aluX = 0 /\ aluY = 0 /\ aluM = 0 /\ aluSteps = 0
NoAdr ==
    /\ adrE = FALSE /\ dp = 0 /\ adrX = 0 /\ adrY = 0 /\ db = 0 /\ adrSp = 0 /\ mem = 0 /\ stores = 0
NoBlk ==
    /\ count = 0 /\ bmX = 0 /\ bmY = 0 /\ bmB = 0 /\ narrow = 0 /\ m8 = 0 /\ here = TRUE
    /\ move = 0 /\ copied = 0 /\ saved = 0 /\ moves = 0 /\ begun = 0

InstructionsInit ==
    /\ Init
    /\ \/ part = "modes" /\ NoAlu /\ NoAdr /\ NoBlk
       \/ part = "alu" /\ AluInit /\ NoAdr /\ NoBlk
       \/ part = "addresses" /\ NoAlu /\ AdrInit /\ NoBlk
       \/ part = "moves" /\ NoAlu /\ NoAdr /\ BmInit

InstructionsNext ==
    \/ part = "modes" /\ Next /\ UNCHANGED <<aluVars, adrVars, bmVars>>
    \/ part = "alu" /\ (AluNext \/ AluDone) /\ UNCHANGED <<vars, adrVars, bmVars>>
    \/ part = "addresses" /\ AdrNext /\ UNCHANGED <<vars, aluVars, bmVars>>
    \/ part = "moves" /\ BmNext /\ UNCHANGED <<vars, aluVars, adrVars>>

InstructionsSpec ==
    InstructionsInit
    /\ [][InstructionsNext /\ UNCHANGED part]_<<part, vars, aluVars, adrVars, bmVars>>

=============================================================================
