------------------------------ MODULE Cartridge ------------------------------
(***************************************************************************)
(* Cartridges (cartridge.c): makecart builds one in memory, command by     *)
(* command, and saves it as a .crt file; the emulator loads it, with the   *)
(* .nvram file beside it if there is one, and saves that at its exit.      *)
(*                                                                         *)
(* A bank has BankSize cells and a file is a header and whole banks.       *)
(* cartridge_write has no caller in this machine's memory map: it is what  *)
(* a bus with a cartridge slot would call.  Both callers of                *)
(* cartridge_import_files pass one file.  Left out: the header's texts,    *)
(* banks below 32, which every operation refuses, and an empty file at the *)
(* first bank, with which cartridge_import_files does not return.          *)
(***************************************************************************)
EXTENDS Integers, Sequences

CONSTANTS NBanks,    \* CART_MAX_BANKS
          BankSize,  \* CART_BANK_SIZE
          BinSizes,  \* lengths of the files that are imported
          Fill,      \* the value makecart pads with
          Random,    \* what rand() and fresh memory hold
          Poked,     \* the value the guest writes
          MaxCommands, MaxStarts  \* bounds

ASSUME CartAssumption ==
    /\ NBanks \in Nat \ {0} /\ BankSize \in Nat \ {0} /\ BinSizes \subseteq Nat
    /\ Fill \in Nat /\ Random \in Nat /\ Poked \in Nat

\* A file of n cells, no two alike.
File(n) == [k \in 1 .. n |-> 10 * n + k]

VARIABLES bank_info, CART,
          crt,      \* the .crt file; good: it has the magic number
          nvfile,   \* the .nvram file
          running,  \* "makecart", "off" or "emulator"
          path,     \* cartridge_path is set: -cart, not -cartbin
          commands, starts,
          made,     \* history: what makecart was asked for
          left,     \* history: memory when the .nvram file was last written whole
          found,   \* history: memory as the last start found it
          refused   \* history: a start of a good, whole file failed

machine == <<bank_info, CART, path>>
files == <<crt, nvfile>>
history == <<made, left, found, refused>>
cartVars == <<machine, files, running, commands, starts, history>>

Banks == 0 .. NBanks - 1
Cells == 0 .. NBanks * BankSize - 1
NoMemory == <<>>

Payload == {"ROM", "INITIALIZED_RAM", "INITIALIZED_NVRAM"}
Nvram == {"UNINITIALIZED_NVRAM", "INITIALIZED_NVRAM"}
Writable == Nvram \cup {"UNINITIALIZED_RAM", "INITIALIZED_RAM"}

Bank(mem, b) == [k \in 1 .. BankSize |-> mem[b * BankSize + k - 1]]
WithBank(mem, b, data) ==
    [c \in Cells |-> IF c \div BankSize = b THEN data[(c % BankSize) + 1] ELSE mem[c]]

\* The banks of some types in order, as the loops over the banks write them.
Selected(info, mem, types) ==
    LET banks[n \in 0 .. NBanks] ==
            IF n = 0 THEN <<>>
            ELSE IF info[n - 1] \in types THEN Append(banks[n - 1], Bank(mem, n - 1))
            ELSE banks[n - 1]
    IN  banks
Contents(types) == Selected(bank_info, CART, types)[NBanks]

NewMemory == [c \in Cells |-> Random]
NewInfo == [b \in Banks |-> "NONE"]

-----------------------------------------------------------------------------
(* makecart *)
Command ==
    /\ running = "makecart" /\ commands < MaxCommands
    /\ commands' = commands + 1
    /\ UNCHANGED <<path, files, running, starts, left, found, refused>>

Typed(first, final, type) ==
    bank_info' = [b \in Banks |-> IF b \in first .. final THEN type ELSE bank_info[b]]
Asked(first, final, type, data(_)) ==
    made' = [info |-> [b \in Banks |-> IF b \in first .. final THEN type ELSE made.info[b]],
             mem |-> [c \in Cells |-> IF c \div BankSize \in first .. final
                                      THEN data(c - first * BankSize) ELSE made.mem[c]]]

cartridge_define_bank_range(first, final, type) ==
    /\ Command
    /\ Typed(first, final, type)
    /\ Asked(first, final, type, LAMBDA k : Random)
    /\ UNCHANGED CART

cartridge_fill(first, final) ==
    /\ Command
    /\ CART' = [c \in Cells |-> IF c \div BankSize \in first .. final THEN Fill ELSE CART[c]]
    /\ Typed(first, final, "INITIALIZED_NVRAM")
    /\ Asked(first, final, "INITIALIZED_NVRAM", LAMBDA k : Fill)

\* Mutation: the rest of the last bank is not filled.
FillEnd_exact(end) == end

\* Where the fill after a file that ends at end stops.
FillEnd(end) == ((end + BankSize - 1) \div BankSize) * BankSize

\* A file's data from a bank on, cut at the end of the cartridge.
Imported(mem, file, first) ==
    LET from == first * BankSize
        end == from + (IF Len(file) > NBanks * BankSize - from
                       THEN NBanks * BankSize - from ELSE Len(file))
    IN  [end |-> end,
         mem |-> [c \in Cells |->
                    IF c \in from .. end - 1 THEN file[c - from + 1]
                    ELSE IF c \in end .. FillEnd(end) - 1 THEN Fill ELSE mem[c]]]

cartridge_import_files(file, first, type) ==
    LET done == Imported(CART, file, first)
    IN  /\ Command
        /\ CART' = done.mem
        /\ Typed(first, (done.end - 1) \div BankSize, type)
        /\ Asked(first, first - 1 + (Len(file) + BankSize - 1) \div BankSize, type,
                 LAMBDA k : IF k < Len(file) THEN file[k + 1] ELSE Fill)

\* A file is written up to its n-th bank: the last, or one that did not fit.
Saved(banks, n) == [here |-> TRUE, good |-> TRUE, cut |-> n < Len(banks),
                      info |-> bank_info, banks |-> SubSeq(banks, 1, n)]

cartridge_save ==
    /\ running = "makecart"
    /\ \E n \in 0 .. Len(Contents(Payload)) : crt' = Saved(Contents(Payload), n)
    /\ running' = "off" /\ CART' = NoMemory
    /\ UNCHANGED <<bank_info, path, nvfile, commands, starts, history>>

\* Some other file that is named .crt, whose bytes are anything.
OtherFile ==
    /\ running = "makecart"
    /\ crt' = [Saved(<<>>, 0) EXCEPT !.good = FALSE]
    /\ running' = "off" /\ CART' = NoMemory
    /\ UNCHANGED <<bank_info, path, nvfile, commands, starts, history>>

-----------------------------------------------------------------------------
(* The emulator *)
\* The next bank of the .crt file.
FromCart(s, b) ==
    IF s.pos < Len(crt.banks)
    THEN [s EXCEPT !.mem = WithBank(@, b, crt.banks[s.pos + 1]), !.pos = @ + 1]
    ELSE [s EXCEPT !.ok = FALSE]

\* x16seek(cart, CART_BANK_SIZE, XSEEK_CUR): files.h's XSEEK_CUR is the 2 that
\* x16seek's SEEK_END is, so this goes to the last bank of the file.
Skipped(pos) == IF crt.banks = <<>> THEN 0 ELSE Len(crt.banks) - 1

FromNvram(s, b) ==
    IF s.npos < Len(nvfile.banks)
    THEN [s EXCEPT !.mem = WithBank(@, b, nvfile.banks[s.npos + 1]), !.npos = @ + 1,
                   !.pos = Skipped(@)]
    ELSE [s EXCEPT !.ok = FALSE]

LoadBank(s, b, random) ==
    LET type == crt.info[b]
    IN  IF ~s.ok \/ type = "NONE" THEN s
        ELSE IF type = "INITIALIZED_NVRAM" /\ nvfile.here THEN FromNvram(s, b)
        ELSE IF type \in Payload THEN FromCart(s, b)
        ELSE [s EXCEPT !.mem = WithBank(@, b, [k \in 1 .. BankSize |-> random])]

LoadLoop(random) ==
    LET s[n \in 0 .. NBanks] ==
            IF n = 0 THEN [ok |-> TRUE, pos |-> 0, npos |-> 0, mem |-> NewMemory]
            ELSE LoadBank(s[n - 1], n - 1, random)
    IN  s
cartridge_load(random) == LoadLoop(random)[NBanks]

Started(ok) ==
    /\ running = "off" /\ starts < MaxStarts
    /\ starts' = starts + 1
    /\ running' = IF ok THEN "emulator" ELSE "off"
    /\ UNCHANGED <<files, commands, made, left>>

\* -cart: randomize unless -zeroram; a file that is no cartridge is no error.
StartCart ==
    \E random \in {0, Random} :
        LET s == cartridge_load(random)
            ok == ~crt.good \/ s.ok
        IN  /\ Started(ok)
            /\ bank_info' = crt.info
            /\ CART' = IF crt.good /\ s.ok THEN s.mem ELSE NoMemory
            /\ found' = CART'
            /\ path' = TRUE
            /\ refused' = (refused \/ ~(ok \/ crt.cut \/ nvfile.cut))

\* -cartbin: a file in memory, the rest without type or content.
StartBin(file) ==
    LET done == Imported(NewMemory, file, 0)
    IN  /\ Started(TRUE)
        /\ CART' = done.mem
        /\ bank_info' = [b \in Banks |-> IF b * BankSize < done.end
                                         THEN "INITIALIZED_RAM" ELSE "UNINITIALIZED_RAM"]
        /\ path' = FALSE
        /\ UNCHANGED <<found, refused>>

cartridge_write(b, value) ==
    /\ running = "emulator" /\ CART # NoMemory
    /\ bank_info[b] \in Writable
    /\ CART' = [CART EXCEPT ![b * BankSize] = value]
    /\ UNCHANGED <<bank_info, path, files, running, commands, starts, history>>

\* What was loaded is freed when the process ends, however it ends.
Ends ==
    /\ running = "emulator" /\ running' = "off"
    /\ CART' = NoMemory
    /\ UNCHANGED <<bank_info, path, crt, commands, starts, made, found, refused>>

\* main_shutdown.  Without memory (a file that is no cartridge) nothing can be
\* written: the process ends, if need be by a null pointer.
Exit ==
    /\ Ends
    /\ IF ~path THEN UNCHANGED <<nvfile, left>>
       ELSE IF CART = NoMemory
       THEN nvfile' = Saved(<<>>, 0) /\ UNCHANGED left
       ELSE \E n \in 0 .. Len(Contents(Nvram)) :
               /\ nvfile' = Saved(Contents(Nvram), n)
               /\ left' = IF n = Len(Contents(Nvram)) THEN CART ELSE left

Kill == Ends /\ UNCHANGED <<nvfile, left>>

-----------------------------------------------------------------------------
NoFile == [here |-> FALSE, good |-> TRUE, cut |-> FALSE, info |-> NewInfo, banks |-> <<>>]

CartInit ==
    /\ bank_info = NewInfo /\ CART = NewMemory
    /\ crt = NoFile /\ nvfile = NoFile
    /\ running = "makecart" /\ path = FALSE
    /\ commands = 0 /\ starts = 0
    /\ made = [info |-> NewInfo, mem |-> NewMemory]
    /\ left = NoMemory /\ found = NoMemory
    /\ refused = FALSE

makecart ==
    \/ \E first, final \in Banks :
          /\ first <= final
          /\ \/ \E type \in {"NONE", "UNINITIALIZED_RAM", "UNINITIALIZED_NVRAM"} :
                   cartridge_define_bank_range(first, final, type)
             \/ cartridge_fill(first, final)
    \/ \E size \in BinSizes, first \in Banks, type \in Payload :
          /\ size > 0 \/ first > 0
          /\ cartridge_import_files(File(size), first, type)
    \/ cartridge_save \/ OtherFile

CartNext ==
    \/ makecart
    \/ StartCart
    \/ \E size \in BinSizes \ {0} : StartBin(File(size))
    \/ \E b \in Banks : cartridge_write(b, Poked)
    \/ Exit \/ Kill

CartSpec == CartInit /\ [][CartNext]_cartVars

-----------------------------------------------------------------------------
\* A cartridge starts as its documentation says (README.md, "For NVRAM banks"):
\* ROM and initialised RAM as it was made; every NVRAM bank as the last run that
\* ended in order left it, and before there was one as it was made; and it does
\* start (cartridge_load, cartridge_save_nvram).
StartsAsLeft ==
    /\ ~refused
    /\ running = "emulator" /\ path /\ found # NoMemory /\ ~crt.cut /\ ~nvfile.cut =>
         \A b \in Banks :
            /\ made.info[b] \in Payload \ Nvram => Bank(found, b) = Bank(made.mem, b)
            /\ made.info[b] \in Nvram /\ nvfile.here => Bank(found, b) = Bank(left, b)
            /\ made.info[b] = "INITIALIZED_NVRAM" /\ ~nvfile.here =>
                  Bank(found, b) = Bank(made.mem, b)

\* A cartridge whose file was written whole starts, and then holds the ROM and the
\* initialised RAM it was made with, whatever its NVRAM (cartridge_load).
RomAsMade ==
    /\ ~refused
    /\ running = "emulator" /\ path /\ found # NoMemory /\ ~crt.cut =>
         \A b \in Banks : made.info[b] \in Payload \ Nvram => Bank(found, b) = Bank(made.mem, b)

\* Initialised NVRAM comes last, and there is no other.
NvramLast ==
    \A b \in Banks :
        /\ made.info[b] # "UNINITIALIZED_NVRAM"
        /\ made.info[b] = "INITIALIZED_NVRAM" =>
              \A c \in b + 1 .. NBanks - 1 : made.info[c] \notin Payload \ Nvram

\* Cartridges of that form start as they were made and left, however they were
\* put together and whatever was killed, full or missing on the way
\* (cartridge_import_files, cartridge_save, cartridge_load, cartridge_save_nvram).
LastNvramKept == NvramLast => StartsAsLeft
=============================================================================
