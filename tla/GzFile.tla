------------------------------- MODULE GzFile -------------------------------
(***************************************************************************)
(* A compressed disk image (files.c): opening it unpacks a temporary copy, *)
(* reads and writes go to the copy, and closing it packs the copy over the *)
(* image if it was written to.  Both directions go chunk by chunk through  *)
(* a buffer, with the results of the writes ignored; the process may be    *)
(* killed and the disk may fill up at any of them.                         *)
(*                                                                         *)
(* An image is a sequence of blocks and a chunk is one of them.  Its       *)
(* callers seek to blocks inside the image only.  A file that is not       *)
(* compressed is the file itself and is left out, and so is a copy that    *)
(* cannot be opened again at once.                                         *)
(***************************************************************************)
EXTENDS Integers, Sequences

CONSTANTS ImageBlocks, \* blocks of the image
          Contents,    \* what a block may hold
          MaxOpens     \* bound

GzAssumption == ImageBlocks \in Nat \ {0} /\ Contents # {}

VARIABLES image,     \* what unpacking the image yields
          writable,  \* the image can be opened for writing
          copy,      \* the temporary file; None when there is none
          stage,     \* "closed", "unpacking", "open" or "packing"
          mode,      \* "r+b" or "rb"
          zpos, size, modified,
          opens,
          stored,    \* history: the image when it was last closed
          meant,     \* history: stored, with what was written since
          got,       \* history: the block read last and the one it should be
          short,     \* history: packing was killed, or its disk was full: the
                     \* image is cut short and only the copy is whole
          harm       \* history: the copy was given up all the same, or a full
                     \* disk cut it short

handle == <<mode, zpos, size, modified>>
gzVars == <<image, writable, copy, stage, handle, opens, stored, meant, got, short,
            harm>>

None == <<"none">>
Same == [read |-> 0, is |-> 0]

\* The copy goes, by being overwritten or deleted; nobody asks whether the image
\* is whole.
GiveUp == harm' = (harm \/ short) /\ short' = FALSE

-----------------------------------------------------------------------------
(* x16open *)
OpenTmp(attribs) ==
    /\ stage = "closed" /\ opens < MaxOpens
    /\ opens' = opens + 1
    /\ copy' = <<>>
    /\ stage' = "unpacking" /\ mode' = attribs
    /\ GiveUp
    /\ UNCHANGED <<image, writable, zpos, size, modified, stored, meant, got>>

Unpack ==
    /\ stage = "unpacking" /\ size < Len(image)
    /\ size' = size + 1
    /\ \/ copy' = Append(copy, image[size + 1]) /\ UNCHANGED harm
       \/ harm' = TRUE /\ UNCHANGED copy
    /\ UNCHANGED <<image, writable, stage, mode, zpos, modified, opens, stored, meant, got,
                   short>>

Unpacked ==
    /\ stage = "unpacking" /\ size = Len(image)
    /\ stage' = "open"
    /\ zpos' = 0 /\ modified' = FALSE
    /\ UNCHANGED <<image, writable, copy, mode, size, opens, stored, meant, got, short,
                   harm>>

-----------------------------------------------------------------------------
(* x16seek, x16read, x16write *)
x16seek(p) ==
    /\ stage = "open"
    /\ zpos' = IF p > size THEN size ELSE p
    /\ UNCHANGED <<image, writable, copy, stage, mode, size, modified, opens, stored, meant,
                   got, short, harm>>

x16read ==
    /\ stage = "open" /\ zpos < Len(copy)
    /\ zpos' = zpos + 1
    /\ got' = [read |-> copy[zpos + 1], is |-> meant[zpos + 1]]
    /\ UNCHANGED <<image, writable, copy, stage, mode, size, modified, opens, stored, meant,
                   short, harm>>

\* Mutation: a write does not mark the file.
Mark_never == UNCHANGED modified

Mark == modified' = TRUE

\* In a copy opened with "rb" nothing is written.
x16write(b) ==
    /\ stage = "open" /\ mode = "r+b" /\ zpos < Len(copy)
    /\ copy' = [copy EXCEPT ![zpos + 1] = b]
    /\ meant' = [meant EXCEPT ![zpos + 1] = b]
    /\ zpos' = zpos + 1
    /\ Mark
    /\ UNCHANGED <<image, writable, stage, mode, size, opens, stored, got, short, harm>>

-----------------------------------------------------------------------------
(* x16close, which files_shutdown calls too *)
Released ==
    /\ stage' = "closed" /\ copy' = None
    /\ mode' = "rb" /\ zpos' = 0 /\ size' = 0 /\ modified' = FALSE

\* gzopen truncates the image.  If it cannot, the copy goes and the writes with it.
x16close ==
    /\ stage = "open"
    /\ IF modified /\ writable
       THEN /\ stage' = "packing" /\ image' = <<>> /\ size' = 0
            /\ UNCHANGED <<copy, mode, zpos, modified, stored, meant>>
       ELSE /\ Released
            /\ meant' = IF writable THEN meant ELSE stored
            /\ UNCHANGED <<image, stored>>
    /\ UNCHANGED <<writable, opens, got, short, harm>>

Pack ==
    /\ stage = "packing" /\ size < Len(copy)
    /\ size' = size + 1
    /\ \/ image' = Append(image, copy[size + 1]) /\ UNCHANGED short
       \/ short' = TRUE /\ UNCHANGED image
    /\ UNCHANGED <<writable, copy, stage, mode, zpos, modified, opens, stored, meant, got, harm>>

Packed ==
    /\ stage = "packing" /\ size = Len(copy)
    /\ Released
    /\ stored' = meant
    /\ GiveUp
    /\ UNCHANGED <<image, writable, opens, meant, got>>

\* The copy stays behind; the next start does not look into it.  Of what was
\* written, it keeps what was being packed.
Kill ==
    /\ stage # "closed"
    /\ short' = (stage = "packing")
    /\ stage' = "closed" /\ mode' = "rb" /\ zpos' = 0 /\ size' = 0 /\ modified' = FALSE
    /\ meant' = IF stage = "packing" THEN meant ELSE stored
    /\ UNCHANGED <<image, writable, copy, opens, stored, got, harm>>

GzInit ==
    /\ image \in [1 .. ImageBlocks -> Contents] /\ stored = image /\ meant = image
    /\ writable \in BOOLEAN
    /\ copy = None /\ stage = "closed"
    /\ mode = "rb" /\ zpos = 0 /\ size = 0 /\ modified = FALSE
    /\ opens = 0
    /\ got = Same
    /\ short = FALSE /\ harm = FALSE

GzNext ==
    \/ \E attribs \in {"r+b", "rb"} : OpenTmp(attribs)
    \/ Unpack \/ Unpacked
    \/ \E p \in 0 .. ImageBlocks - 1 : x16seek(p)
    \/ x16read
    \/ \E b \in Contents : x16write(b)
    \/ x16close \/ Pack \/ Packed
    \/ Kill

GzSpec == GzInit /\ [][GzNext]_gzVars

-----------------------------------------------------------------------------
\* What was written is never held by nothing: a closed image holds what was
\* written through the handle that was closed last, or, if that was killed before
\* packing, what it held before; an open one reads as it was written, over the
\* untouched image; and from the moment the image is emptied to be packed until
\* it is whole again the copy holds everything, a kill or a full disk at any
\* chunk included (x16open, x16write, x16close).  Excepted is what comes of a
\* copy that is given up nevertheless, or that a full disk cut.
ImageOldOrNew ==
    ~harm => /\ stage = "closed" /\ ~short => image = meant
             /\ stage = "open" => copy = meant /\ image = stored
             /\ stage = "packing" \/ short => copy = meant
             /\ got.read = got.is
=============================================================================
