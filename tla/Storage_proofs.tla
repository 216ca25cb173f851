--------------------------- MODULE Storage_proofs ---------------------------
(***************************************************************************)
(* Storage, for every size of an image, a block, an address and a card: a  *)
(* compressed image is the old one or the new one, or its copy is whole,   *)
(* however often it is opened and wherever a kill or a full disk strikes;  *)
(* the SD block device is a store of whole blocks; and the host's files    *)
(* are read and written in order and listed whole.                         *)
(***************************************************************************)
EXTENDS GzFile, SdBlock, HostFs, SequenceTheorems, NatLemmas


Image == [1 .. ImageBlocks -> Contents]

\* s is made of the first n blocks of t.
IsPrefixOf(s, n, t) ==
    /\ s \in Seq(Contents) /\ Len(s) = n
    /\ \A i \in 1 .. n : s[i] = t[i]

\* What x16open and x16close rely on: what is stored and what is meant are
\* images, and the counters of both loops start at zero.
GzTypes ==
    /\ stored \in Image /\ meant \in Image
    /\ stage \in {"closed", "unpacking", "open", "packing"}
    /\ size \in Nat /\ zpos \in Nat /\ modified \in BOOLEAN
    /\ stage = "closed" => size = 0
    /\ short => stage \in {"packing", "closed"}

\* Where the image and the copy stand at each stage.
GzStages ==
    /\ stage = "closed" /\ ~ short => image = stored /\ meant = stored
    /\ stage = "closed" /\ short => copy = meant
    /\ stage = "unpacking" =>
           /\ image = stored /\ meant = stored
           /\ size <= ImageBlocks /\ IsPrefixOf(copy, size, stored)
    /\ stage = "open" => image = stored /\ copy = meant /\ (modified \/ meant = stored)
    /\ stage = "packing" =>
           /\ copy = meant
           /\ size <= ImageBlocks /\ (~ short => IsPrefixOf(image, size, meant))
    /\ got.read = got.is

GzInv == GzTypes /\ (~ harm => GzStages)

-----------------------------------------------------------------------------
(* A loop that copies block after block ends with the whole. *)

LEMMA ImageLength ==
    ASSUME GzAssumption, NEW t \in Image
    PROVE  t \in Seq(Contents) /\ Len(t) = ImageBlocks
BY DEF GzAssumption, Image

LEMMA PrefixGrows ==
    ASSUME GzAssumption, NEW t \in Image, NEW n \in Nat, n < ImageBlocks, NEW s,
           IsPrefixOf(s, n, t)
    PROVE  IsPrefixOf(Append(s, t[n + 1]), n + 1, t)
<1>1. t[n + 1] \in Contents
  BY DEF GzAssumption, Image
<1>2. Append(s, t[n + 1]) \in Seq(Contents) /\ Len(Append(s, t[n + 1])) = n + 1
  BY <1>1 DEF IsPrefixOf
<1>3. ASSUME NEW i \in 1 .. n + 1
      PROVE  Append(s, t[n + 1])[i] = t[i]
  <2>1. CASE i = n + 1
    BY <2>1, <1>1 DEF IsPrefixOf
  <2>2. CASE i \in 1 .. n
    <3>1. s[i] = t[i] /\ i \in 1 .. Len(s) /\ s \in Seq(Contents)
      BY <2>2 DEF IsPrefixOf
    <3>2. Append(s, t[n + 1])[i] = s[i]
      BY <3>1, <1>1
    <3> QED BY <3>1, <3>2
  <2>3. i = n + 1 \/ i \in 1 .. n
    OBVIOUS
  <2> QED BY <2>1, <2>2, <2>3
<1> QED BY <1>2, <1>3 DEF IsPrefixOf

LEMMA WholePrefix ==
    ASSUME GzAssumption, NEW t \in Image, NEW s, IsPrefixOf(s, ImageBlocks, t)
    PROVE  s = t
<1>1. s \in [1 .. ImageBlocks -> Contents]
  BY DEF IsPrefixOf, GzAssumption
<1> QED BY <1>1 DEF IsPrefixOf, Image

LEMMA EmptyPrefix ==
    ASSUME NEW t
    PROVE  IsPrefixOf(<< >>, 0, t)
BY DEF IsPrefixOf

-----------------------------------------------------------------------------
LEMMA GzInitHolds == ASSUME GzAssumption, GzInit PROVE GzInv
BY DEF GzInit, GzInv, GzTypes, GzStages, Image, Same

LEMMA GzNextKeeps ==
    ASSUME GzAssumption, GzInv, [GzNext]_gzVars
    PROVE  GzInv'
<1> USE DEF GzInv, GzTypes
<1>1. ASSUME NEW attribs \in {"r+b", "rb"}, OpenTmp(attribs) PROVE GzInv'
  <2>1. GzTypes'
    BY <1>1 DEF OpenTmp, GiveUp
  <2>2. IsPrefixOf(<< >>, 0, stored)
    BY EmptyPrefix
  <2>3. ASSUME ~ harm' PROVE GzStages'
    <3>1. ~ harm /\ ~ short /\ stage = "closed" /\ size = 0 /\ GzStages
      BY <1>1, <2>3 DEF OpenTmp, GiveUp
    <3>2. image = stored /\ meant = stored /\ got.read = got.is
      BY <3>1 DEF GzStages
    <3>3. /\ stage' = "unpacking" /\ copy' = <<>> /\ size' = 0 /\ ~ short'
          /\ UNCHANGED <<image, stored, meant, got>>
      BY <1>1, <3>1 DEF OpenTmp, GiveUp
    <3> QED BY <2>2, <3>2, <3>3 DEF GzStages, GzAssumption
  <2> QED BY <2>1, <2>3
<1>2. CASE Unpack
  <2>1. GzTypes'
    BY <1>2 DEF Unpack
  <2>2. ASSUME ~ harm' PROVE GzStages'
    <3>1. ~ harm /\ stage = "unpacking" /\ copy' = Append(copy, image[size + 1])
      BY <1>2, <2>2 DEF Unpack
    <3>2. image = stored /\ meant = stored /\ IsPrefixOf(copy, size, stored)
      BY <3>1 DEF GzStages
    <3>3. Len(image) = ImageBlocks
      BY <3>2, ImageLength
    <3>4. size < ImageBlocks
      BY <1>2, <3>3 DEF Unpack
    <3>5. IsPrefixOf(copy', size + 1, stored)
      BY <3>1, <3>2, <3>4, PrefixGrows
    <3>6. got.read = got.is
      BY <3>1 DEF GzStages
    <3> QED BY <1>2, <3>2, <3>4, <3>5, <3>6 DEF Unpack, GzStages, GzAssumption
  <2> QED BY <2>1, <2>2
<1>3. CASE Unpacked
  <2>1. GzTypes'
    BY <1>3 DEF Unpacked
  <2>2. ASSUME ~ harm' PROVE GzStages'
    <3>1. ~ harm /\ stage = "unpacking"
      BY <1>3, <2>2 DEF Unpacked
    <3>2. image = stored /\ meant = stored /\ IsPrefixOf(copy, size, stored)
      BY <3>1 DEF GzStages
    <3>3. size = ImageBlocks
      BY <1>3, <3>2, ImageLength DEF Unpacked
    <3>4. copy = stored
      BY <3>2, <3>3, WholePrefix
    <3>5. got.read = got.is
      BY <3>1 DEF GzStages
    <3> QED BY <1>3, <3>2, <3>4, <3>5 DEF Unpacked, GzStages
  <2> QED BY <2>1, <2>2
<1>4. ASSUME NEW p \in 0 .. ImageBlocks - 1, x16seek(p) PROVE GzInv'
  BY <1>4 DEF x16seek, GzStages, GzAssumption
<1>5. CASE x16read
  BY <1>5 DEF x16read, GzStages
<1>6. ASSUME NEW b \in Contents, x16write(b) PROVE GzInv'
  <2>1. [meant EXCEPT ![zpos + 1] = b] \in Image
    BY DEF Image
  <2>2. GzTypes'
    BY <1>6, <2>1 DEF x16write, Mark
  <2>3. ASSUME ~ harm' PROVE GzStages'
    BY <1>6, <2>3 DEF x16write, Mark, GzStages
  <2> QED BY <2>2, <2>3
<1>7. CASE x16close
  <2>1. GzTypes'
    <3>1. CASE modified /\ writable
      BY <1>7, <3>1 DEF x16close
    <3>2. CASE ~ (modified /\ writable)
      <4>1. Released /\ stored' = stored /\ meant' = (IF writable THEN meant ELSE stored)
        BY <1>7, <3>2 DEF x16close
      <4>2. meant' \in Image
        BY <4>1
      <4> QED BY <4>1, <4>2 DEF Released
    <3> QED BY <3>1, <3>2
  <2>2. ASSUME ~ harm' PROVE GzStages'
    <3>1. ~ harm /\ stage = "open" /\ GzStages
      BY <1>7, <2>2 DEF x16close
    <3>2. CASE modified /\ writable
      <4>1. IsPrefixOf(<< >>, 0, meant)
        BY EmptyPrefix
      <4> QED BY <1>7, <3>1, <3>2, <4>1 DEF x16close, GzStages, GzAssumption
    <3>3. CASE ~ (modified /\ writable)
      BY <1>7, <3>1, <3>3 DEF x16close, Released, GzStages
    <3> QED BY <3>2, <3>3
  <2> QED BY <2>1, <2>2
<1>8. CASE Pack
  <2>1. GzTypes'
    BY <1>8 DEF Pack
  <2>2. ASSUME ~ harm' PROVE GzStages'
    <3>1. ~ harm /\ stage = "packing" /\ (~ short' => ~ short /\ image' = Append(image, copy[size + 1]))
      BY <1>8, <2>2 DEF Pack
    <3>2. copy = meant /\ (~ short => IsPrefixOf(image, size, meant)) /\ got.read = got.is
      BY <3>1 DEF GzStages
    <3>3. size < ImageBlocks
      BY <1>8, <3>2, ImageLength DEF Pack
    <3>4. ~ short' => IsPrefixOf(image', size + 1, meant)
      BY <3>1, <3>2, <3>3, PrefixGrows
    <3> QED BY <1>8, <3>2, <3>3, <3>4 DEF Pack, GzStages, GzAssumption
  <2> QED BY <2>1, <2>2
<1>9. CASE Packed
  <2>1. GzTypes'
    BY <1>9 DEF Packed, Released, GiveUp
  <2>2. ASSUME ~ harm' PROVE GzStages'
    <3>1. ~ harm /\ ~ short /\ stage = "packing"
      BY <1>9, <2>2 DEF Packed, GiveUp
    <3>2. copy = meant /\ IsPrefixOf(image, size, meant) /\ got.read = got.is
      BY <3>1 DEF GzStages
    <3>3. size = ImageBlocks
      BY <1>9, <3>2, ImageLength DEF Packed
    <3>4. image = meant
      BY <3>2, <3>3, WholePrefix
    <3> QED BY <1>9, <3>2, <3>4 DEF Packed, Released, GiveUp, GzStages
  <2> QED BY <2>1, <2>2
<1>10. CASE Kill
  <2>1. GzTypes'
    BY <1>10 DEF Kill
  <2>2. ASSUME ~ harm' PROVE GzStages'
    BY <1>10, <2>2 DEF Kill, GzStages
  <2> QED BY <2>1, <2>2
<1>11. CASE UNCHANGED gzVars
  BY <1>11 DEF gzVars, handle, GzStages
<1> QED BY <1>1, <1>2, <1>3, <1>4, <1>5, <1>6, <1>7, <1>8, <1>9, <1>10, <1>11 DEF GzNext

\* For every size and contents of the image and any number of openings: a closed
\* image holds what its last handle wrote, an open one reads as it was written,
\* and while packing has not finished, a kill or a full disk at any chunk
\* included, the copy holds it all (x16open, x16close).
THEOREM ImageSafe == ASSUME GzAssumption PROVE GzSpec => []ImageOldOrNew
<1>1. GzInit => GzInv
  BY GzInitHolds
<1>2. GzInv /\ [GzNext]_gzVars => GzInv'
  BY GzNextKeeps
<1>3. GzInv => ImageOldOrNew
  BY DEF GzInv, GzTypes, GzStages, ImageOldOrNew
<1> QED BY <1>1, <1>2, <1>3, PTL DEF GzSpec

-----------------------------------------------------------------------------
(* The SD block device implements BlockStore. *)


SdTypes ==
    /\ reg_lba \in Lba /\ reg_mem \in Addr /\ reg_count \in BlockCounts
    /\ reg_error \in BOOLEAN
    /\ blkbuf \in BlockBytes
    /\ img \in {"none", "rw", "ro"}
    /\ card \in [Blocks -> BlockBytes] /\ RAM \in [Addr -> Byte]
    /\ passed \in Seq(Byte) /\ Len(passed) <= BlockSize
    /\ bufptr \in 0 .. BlockSize - 1

SdInv == SdTypes /\ WindowInStep

\* A loop's variables.
Turns == [lba : Nat, mem : Addr, ram : [Addr -> Byte], error : BOOLEAN]

LEMMA SdSizes ==
    ASSUME SdAssumption
    PROVE  /\ Base \in Nat \ {0} /\ BlockSize \in Nat \ {0} /\ CardSize \in Nat \ {0}
           /\ MemSize \in Nat \ {0}
           /\ \A n \in BlockCounts : n \in Nat /\ n * BlockSize <= MemSize
BY DEF SdAssumption, MemSize

LEMMA WrapType ==
    ASSUME SdAssumption, NEW x \in Int
    PROVE  x % MemSize \in Addr
BY SdSizes DEF Addr

LEMMA DmaType ==
    ASSUME SdAssumption, NEW m \in Addr, NEW ram \in [Addr -> Byte], NEW bytes \in BlockBytes
    PROVE  DmaBlock(m, ram, bytes) \in [Addr -> Byte]
<1>1. ASSUME NEW a \in Addr, (a - m) % MemSize < BlockSize
      PROVE  bytes[((a - m) % MemSize) + 1] \in Byte
  <2>1. (a - m) % MemSize \in Nat
    BY SdSizes DEF Addr
  <2>2. ((a - m) % MemSize) + 1 \in 1 .. BlockSize
    BY <1>1, <2>1, SdSizes
  <2> QED BY <2>2 DEF BlockBytes
<1> QED BY <1>1 DEF DmaBlock

LEMMA TurnType ==
    ASSUME SdAssumption, SdTypes, NEW s \in Turns
    PROVE  LoopTurn(s) \in Turns
<1>1. CASE s.error \/ ~ Readable(s.lba)
  BY <1>1 DEF LoopTurn, Turns
<1>2. CASE ~ (s.error \/ ~ Readable(s.lba))
  <2>1. s.lba \in Blocks
    BY <1>2, SdSizes DEF Readable, Blocks, Turns
  <2>2. Block(s.lba) \in BlockBytes
    BY <2>1 DEF Block, SdTypes
  <2>3. DmaBlock(s.mem, s.ram, Block(s.lba)) \in [Addr -> Byte]
    BY <2>2, DmaType DEF Turns
  <2>4. (s.mem + BlockSize) % MemSize \in Addr
    <3>1. s.mem \in Addr
      BY DEF Turns
    <3>2. s.mem + BlockSize \in Int
      BY <3>1, SdSizes DEF Addr
    <3> QED BY <3>2, WrapType
  <2> QED BY <1>2, <2>3, <2>4 DEF LoopTurn, Turns
<1> QED BY <1>1, <1>2

LEMMA LoopDefined ==
    ASSUME SdAssumption, SdTypes
    PROVE  /\ ReadLoop[0] = LoopStart
           /\ \A n \in Nat : ReadLoop[n + 1] = LoopTurn(ReadLoop[n])
<1> DEFINE G == [s \in Turns |-> LoopTurn(s)]
           Is(loop) == loop = [i \in Nat |-> IF i = 0 THEN LoopStart ELSE LoopTurn(loop[i - 1])]
<1>1. LoopStart \in Turns
  BY DEF LoopStart, Turns, SdTypes, Lba
<1>2. G \in [Turns -> Turns]
  BY TurnType
<1>3. PICK F \in [Nat -> Turns] : F[0] = LoopStart /\ \A n \in Nat : F[n + 1] = G[F[n]]
  <2> HIDE DEF G
  <2> QED BY <1>1, <1>2, Recursion
<1>4. ASSUME NEW i \in Nat, i # 0 PROVE F[i] = LoopTurn(F[i - 1])
  <2>1. i - 1 \in Nat /\ (i - 1) + 1 = i
    BY <1>4
  <2>2. F[i] = G[F[i - 1]]
    BY <1>3, <2>1
  <2> QED BY <2>1, <2>2
<1>5. Is(F)
  <2> HIDE DEF G
  <2> QED BY <1>3, <1>4
<1>6. Is(ReadLoop)
  <2> HIDE DEF Is
  <2>1. ReadLoop = CHOOSE loop : Is(loop)
    BY DEF ReadLoop, Is
  <2> QED BY <1>5, <2>1
<1>7. ASSUME NEW n \in Nat PROVE ReadLoop[n + 1] = LoopTurn(ReadLoop[n])
  <2>1. n + 1 \in Nat /\ n + 1 # 0 /\ (n + 1) - 1 = n
    OBVIOUS
  <2> DEFINE loop == ReadLoop
  <2>2. loop = [i \in Nat |-> IF i = 0 THEN LoopStart ELSE LoopTurn(loop[i - 1])]
    BY <1>6
  <2> HIDE DEF loop
  <2>3. loop[n + 1] = LoopTurn(loop[(n + 1) - 1])
    BY <2>1, <2>2
  <2> QED BY <2>1, <2>3 DEF loop
<1>8. ReadLoop[0] = LoopStart
  BY <1>6
<1> QED BY <1>7, <1>8
-----------------------------------------------------------------------------
LEMMA LoopType ==
    ASSUME SdAssumption, SdTypes, NEW n \in Nat
    PROVE  ReadLoop[n] \in Turns
<1> DEFINE T == {i \in Nat : ReadLoop[i] \in Turns}
<1>1. 0 \in T
  <2>1. LoopStart \in Turns
    BY DEF LoopStart, Turns, SdTypes, Lba
  <2> QED BY <2>1, LoopDefined
<1>2. ASSUME NEW i \in T PROVE i + 1 \in T
  BY LoopDefined, TurnType
<1>3. T = Nat
  <2>1. T \in SUBSET Nat
    OBVIOUS
  <2> HIDE DEF T
  <2> QED BY <1>1, <1>2, <2>1, Induction
<1> QED BY <1>3

LEMMA LaidNext ==
    ASSUME SdAssumption, SdTypes, NEW i \in Nat, (i + 1) * BlockSize <= MemSize,
           reg_lba + i \in Blocks
    PROVE  DmaBlock((reg_mem + i * BlockSize) % MemSize, Store!Laid(i), card[reg_lba + i])
             = Store!Laid(i + 1)
<1> DEFINE k == i * BlockSize
           m == (reg_mem + k) % MemSize
<1> USE SdSizes
<1>1. k \in Nat /\ (i + 1) * BlockSize = k + BlockSize /\ k \in 0 .. MemSize - 1
  BY DEF Addr
<1>2. ASSUME NEW a \in Addr
      PROVE  DmaBlock(m, Store!Laid(i), card[reg_lba + i])[a] = Store!Laid(i + 1)[a]
  <2> DEFINE o == (a - reg_mem) % MemSize
             p == (a - m) % MemSize
  <2>1. o \in 0 .. MemSize - 1 /\ p = IF o >= k THEN o - k ELSE o - k + MemSize
    <3>1. a \in 0 .. MemSize - 1 /\ reg_mem \in 0 .. MemSize - 1
      BY DEF Addr, SdTypes
    <3> HIDE DEF k
    <3>2. o = IF a >= reg_mem THEN a - reg_mem ELSE a - reg_mem + MemSize
      BY <3>1
    <3>3. m = IF reg_mem + k < MemSize THEN reg_mem + k ELSE reg_mem + k - MemSize
      BY <1>1, <3>1
    <3>4. m \in 0 .. MemSize - 1
      BY <1>1, <3>1, <3>3
    <3>5. p = IF a >= m THEN a - m ELSE a - m + MemSize
      <4> HIDE DEF m
      <4> QED BY <3>1, <3>4
    <3> HIDE DEF m, o, p
    <3> QED BY <1>1, <3>1, <3>2, <3>3, <3>5
  <2>2. Store!Laid(i + 1)[a] = IF o < k + BlockSize
                               THEN card[reg_lba + (o \div BlockSize)][(o % BlockSize) + 1]
                               ELSE RAM[a]
    BY <1>1 DEF Store!Laid, Addr
  <2>3. Store!Laid(i)[a] = IF o < k
                           THEN card[reg_lba + (o \div BlockSize)][(o % BlockSize) + 1]
                           ELSE RAM[a]
    BY DEF Store!Laid, Addr
  <2>4. DmaBlock(m, Store!Laid(i), card[reg_lba + i])[a]
          = IF p < BlockSize THEN card[reg_lba + i][p + 1] ELSE Store!Laid(i)[a]
    BY DEF DmaBlock
  <2> HIDE DEF o, p, k, m
  <2>5. CASE o < k
    BY <1>1, <2>1, <2>2, <2>3, <2>4, <2>5
  <2>6. CASE k <= o /\ o < k + BlockSize
    <3>1. o = BlockSize * i + (o - k) /\ o - k \in 0 .. BlockSize - 1 /\ o \in Nat
      BY <1>1, <2>1, <2>6 DEF k
    <3>2. o \div BlockSize = i /\ o % BlockSize = o - k
      BY <3>1, DivUnique
    <3> QED BY <1>1, <2>1, <2>2, <2>4, <2>6, <3>2
  <2>7. CASE o >= k + BlockSize
    BY <1>1, <2>1, <2>2, <2>3, <2>4, <2>7
  <2> QED BY <1>1, <2>1, <2>5, <2>6, <2>7
<1>3. DOMAIN DmaBlock(m, Store!Laid(i), card[reg_lba + i]) = DOMAIN Store!Laid(i + 1)
  BY DEF DmaBlock, Store!Laid, Addr
<1>4. /\ DmaBlock(m, Store!Laid(i), card[reg_lba + i])
           = [a \in Addr |-> DmaBlock(m, Store!Laid(i), card[reg_lba + i])[a]]
      /\ Store!Laid(i + 1) = [a \in Addr |-> Store!Laid(i + 1)[a]]
  BY DEF DmaBlock, Store!Laid, Addr
<1> QED BY <1>2, <1>4
\* Blocks of the card from the one asked for on.
OnCard == IF img = "none" \/ reg_lba >= CardSize THEN 0 ELSE CardSize - reg_lba

\* What CMD_READ's loop has done after i turns.
LoopAt(i) ==
    LET s == ReadLoop[i] IN
    IF i <= OnCard
    THEN /\ s.lba = reg_lba + i /\ s.mem = (reg_mem + i * BlockSize) % MemSize
         /\ s.ram = Store!Laid(i) /\ s.error = FALSE
    ELSE s.ram = Store!Laid(OnCard) /\ s.error = TRUE

LEMMA LoopInvariant ==
    ASSUME SdAssumption, SdTypes, NEW n \in Nat, n <= reg_count
    PROVE  LoopAt(n)
<1> DEFINE T == {i \in Nat : i <= reg_count => LoopAt(i)}
<1>0. /\ OnCard \in Nat /\ reg_lba \in Nat /\ reg_count \in Nat /\ reg_mem \in 0 .. MemSize - 1
      /\ reg_count * BlockSize <= MemSize
  BY SdSizes DEF OnCard, SdTypes, Lba, Addr
<1>1. 0 \in T
  <2>1. Store!Laid(0) = RAM
    <3>1. ASSUME NEW a \in Addr PROVE ~ ((a - reg_mem) % MemSize < 0 * BlockSize)
      BY <1>0, SdSizes DEF Addr
    <3>2. Store!Laid(0) = [a \in Addr |-> RAM[a]]
      BY <3>1 DEF Store!Laid, Addr
    <3> QED BY <3>2 DEF SdTypes
  <2>2. (reg_mem + 0 * BlockSize) % MemSize = reg_mem
    BY <1>0, SdSizes
  <2>3. ReadLoop[0] = LoopStart
    BY LoopDefined
  <2> QED BY <1>0, <2>1, <2>2, <2>3 DEF LoopAt, LoopStart
<1>2. ASSUME NEW i \in T PROVE i + 1 \in T
  <2> SUFFICES ASSUME i + 1 <= reg_count PROVE LoopAt(i + 1)
    OBVIOUS
  <2> DEFINE s == ReadLoop[i]
  <2>1. i \in Nat /\ LoopAt(i)
    BY <1>0
  <2>2. ReadLoop[i + 1] = LoopTurn(s)
    BY <2>1, LoopDefined
  <2>3. (i + 1) * BlockSize <= MemSize
    <3>1. (i + 1) * BlockSize <= reg_count * BlockSize
      BY <1>0, <2>1, SdSizes
    <3> QED BY <1>0, <2>1, <3>1, SdSizes
  <2> HIDE DEF s
  <2>4. CASE i + 1 <= OnCard
    <3>1. i <= OnCard
      BY <1>0, <2>1, <2>4
    <3>2. /\ s.lba = reg_lba + i /\ s.mem = (reg_mem + i * BlockSize) % MemSize
          /\ s.ram = Store!Laid(i) /\ s.error = FALSE
      BY <2>1, <3>1 DEF LoopAt, s
    <3>3. reg_lba + i \in Blocks /\ Readable(reg_lba + i)
      BY <1>0, <2>1, <2>4, SdSizes DEF OnCard, Blocks, Readable
    <3>4. DmaBlock(s.mem, s.ram, Block(s.lba)) = Store!Laid(i + 1)
      BY <2>1, <2>3, <3>2, <3>3, LaidNext DEF Block
    <3>5. (s.mem + BlockSize) % MemSize = (reg_mem + (i + 1) * BlockSize) % MemSize
      <4>1. reg_mem + i * BlockSize \in Nat /\ BlockSize \in Nat /\ MemSize \in Nat \ {0}
        BY <1>0, <2>1, SdSizes
      <4>2. (((reg_mem + i * BlockSize) % MemSize) + BlockSize) % MemSize
              = (reg_mem + i * BlockSize + BlockSize) % MemSize
        BY <4>1, ModPlus
      <4>3. reg_mem + i * BlockSize + BlockSize = reg_mem + (i + 1) * BlockSize
        BY <1>0, <2>1, SdSizes
      <4> QED BY <3>2, <4>2, <4>3
    <3>6. LoopTurn(s) = [lba |-> s.lba + 1, mem |-> (s.mem + BlockSize) % MemSize,
                         ram |-> DmaBlock(s.mem, s.ram, Block(s.lba)), error |-> FALSE]
      BY <3>2, <3>3 DEF LoopTurn
    <3>7. s.lba + 1 = reg_lba + (i + 1)
      BY <1>0, <2>1, <3>2
    <3> QED BY <2>2, <2>4, <3>4, <3>5, <3>6, <3>7 DEF LoopAt
  <2>5. CASE i = OnCard
    <3>1. s.lba = reg_lba + i /\ s.ram = Store!Laid(i) /\ s.error = FALSE
      BY <1>0, <2>1, <2>5 DEF LoopAt, s
    <3>2. ~ Readable(s.lba)
      BY <1>0, <2>5, <3>1, SdSizes DEF OnCard, Readable
    <3>3. LoopTurn(s) = [s EXCEPT !.error = TRUE]
      BY <3>2 DEF LoopTurn
    <3>4. s \in Turns
      BY <2>1, LoopType DEF s
    <3>5. LoopTurn(s).error = TRUE /\ LoopTurn(s).ram = s.ram
      BY <3>3, <3>4 DEF Turns
    <3>6. ~ (i + 1 <= OnCard)
      BY <1>0, <2>5
    <3> QED BY <2>2, <2>5, <3>1, <3>5, <3>6 DEF LoopAt
  <2>6. CASE i > OnCard
    <3>1. s.ram = Store!Laid(OnCard) /\ s.error = TRUE
      BY <1>0, <2>1, <2>6 DEF LoopAt, s
    <3>2. LoopTurn(s) = [s EXCEPT !.error = TRUE]
      BY <3>1 DEF LoopTurn
    <3>3. s \in Turns
      BY <2>1, LoopType DEF s
    <3>4. LoopTurn(s).error = TRUE /\ LoopTurn(s).ram = s.ram
      BY <3>2, <3>3 DEF Turns
    <3>5. ~ (i + 1 <= OnCard)
      BY <1>0, <2>1, <2>6
    <3> QED BY <2>2, <3>1, <3>4, <3>5 DEF LoopAt
  <2> QED BY <1>0, <2>1, <2>4, <2>5, <2>6
<1>3. T = Nat
  <2>1. T \in SUBSET Nat
    OBVIOUS
  <2> HIDE DEF T
  <2> QED BY <1>1, <1>2, <2>1, Induction
<1> QED BY <1>3
-----------------------------------------------------------------------------
\* CMD_READ transfers what BlockStore's Transfer does, or nothing.
LEMMA ReadTransfers ==
    ASSUME SdAssumption, SdTypes, CMD_READ
    PROVE  /\ Store!Next
           /\ RAM' \in [Addr -> Byte] /\ reg_error' \in BOOLEAN
<1> DEFINE s == ReadLoop[reg_count]
           n == Store!Present
<1>1. RAM' = s.ram /\ reg_error' = s.error /\ UNCHANGED <<card, reg_lba, reg_mem, reg_count>>
  BY DEF CMD_READ, SdCommand
<1>2. reg_count \in Nat /\ reg_lba \in Nat /\ OnCard \in Nat
  BY SdSizes DEF SdTypes, OnCard, Lba
<1>3. LoopAt(reg_count) /\ s \in Turns
  BY <1>2, LoopInvariant, LoopType
<1>4. n = IF reg_count <= OnCard THEN reg_count ELSE OnCard
  BY <1>2, SdSizes DEF OnCard, Store!Present
<1>5. s.ram = Store!Laid(n) /\ s.error = (n < reg_count)
  <2> HIDE DEF s, n
  <2>1. CASE reg_count <= OnCard
    <3>1. n = reg_count /\ ~ (n < reg_count)
      BY <1>2, <1>4, <2>1
    <3>2. s.ram = Store!Laid(reg_count) /\ s.error = FALSE
      BY <1>3, <2>1 DEF LoopAt, s
    <3>3. (n < reg_count) = FALSE
      BY <3>1
    <3> QED BY <3>1, <3>2, <3>3
  <2>2. CASE ~ (reg_count <= OnCard)
    <3>1. n = OnCard /\ n < reg_count
      BY <1>2, <1>4, <2>2
    <3>2. s.ram = Store!Laid(OnCard) /\ s.error = TRUE
      BY <1>3, <2>2 DEF LoopAt, s
    <3>3. (n < reg_count) = TRUE
      BY <3>1
    <3> QED BY <3>1, <3>2, <3>3
  <2> QED BY <2>1, <2>2
<1>6. Store!Next
  <2>1. CASE n > 0
    BY <1>1, <1>5, <2>1 DEF Store!Next, Store!Transfer, Store!request
  <2>2. CASE ~ (n > 0)
    <3>1. n = 0
      BY <1>2, <1>4, <2>2
    <3>2. Store!Laid(0) = RAM
      <4>1. ReadLoop[0] = LoopStart /\ LoopAt(0)
        BY <1>2, LoopInvariant, LoopDefined
      <4> QED BY <1>2, <4>1 DEF LoopAt, LoopStart
    <3> QED BY <1>1, <1>5, <3>1, <3>2 DEF Store!Next, Store!Other
  <2> QED BY <2>1, <2>2
<1>7. s.ram \in [Addr -> Byte] /\ s.error \in BOOLEAN
  BY <1>3 DEF Turns
<1> QED BY <1>1, <1>6, <1>7

\* What the registers hold stays in range, whichever of their bytes is written.
LEMMA DigitsJoin ==
    ASSUME SdAssumption, NEW x \in 0 .. Base * Base - 1, NEW v \in Digits
    PROVE  v * Base + Low(x) \in 0 .. Base * Base - 1 /\ High(x) * Base + v \in 0 .. Base * Base - 1
<1>0. Base \in Nat \ {0} /\ Base * Base \in Nat
  BY SdSizes
<1>1. Low(x) \in 0 .. Base - 1 /\ High(x) \in 0 .. Base - 1 /\ v \in 0 .. Base - 1
  <2>1. x \in Nat
    BY <1>0
  <2>2. x % Base \in 0 .. Base - 1
    BY <1>0, <2>1, DivMod
  <2>3. x \div Base \in 0 .. Base - 1
    BY <1>0, DivBelow
  <2> QED BY <2>2, <2>3 DEF Low, High, Digits
<1>2. ASSUME NEW y \in 0 .. Base - 1, NEW z \in 0 .. Base - 1
      PROVE  y * Base + z \in 0 .. Base * Base - 1
  <2>1. y * Base <= (Base - 1) * Base /\ y * Base \in Nat
    BY <1>0
  <2>2. (Base - 1) * Base = Base * Base - Base
    BY <1>0
  <2> QED BY <1>0, <2>1, <2>2
<1> QED BY <1>1, <1>2

\* A byte through the data port keeps the pointer in step.
LEMMA ThroughInStep ==
    ASSUME SdAssumption, SdInv, NEW v \in Byte, NEW b \in BlockBytes,
           \A i \in 1 .. BlockSize : i # bufptr + 1 => b[i] = blkbuf[i],
           b[bufptr + 1] = v,
           passed' = Through(v), bufptr' = (bufptr + 1) % BlockSize, blkbuf' = b
    PROVE  WindowInStep' /\ passed' \in Seq(Byte) /\ Len(passed') <= BlockSize
           /\ bufptr' \in 0 .. BlockSize - 1
<1>1. /\ passed \in Seq(Byte) /\ Len(passed) \in Nat /\ Len(passed) <= BlockSize
      /\ BlockSize \in Nat \ {0}
      /\ bufptr = Len(passed) % BlockSize
      /\ \A i \in 1 .. Len(passed) : blkbuf[i] = passed[i]
  BY SdSizes DEF SdInv, SdTypes, WindowInStep
<1>2. CASE Len(passed) = BlockSize
  <2>1. passed' = <<v>> /\ bufptr = 0
    BY <1>1, <1>2 DEF Through
  <2>2. Len(passed') = 1 /\ passed'[1] = v /\ bufptr' = 1 % BlockSize /\ passed' \in Seq(Byte)
    BY <2>1
  <2> QED BY <1>1, <2>1, <2>2 DEF WindowInStep
<1>3. CASE Len(passed) # BlockSize
  <2>1. passed' = Append(passed, v) /\ bufptr = Len(passed) /\ Len(passed) < BlockSize
    <3>1. passed' = Append(passed, v)
      BY <1>3 DEF Through
    <3>2. Len(passed) < BlockSize
      BY <1>1, <1>3
    <3>3. Len(passed) % BlockSize = Len(passed)
      BY <1>1, <3>2
    <3> QED BY <1>1, <3>1, <3>2, <3>3
  <2>2. Len(passed') = Len(passed) + 1 /\ passed' \in Seq(Byte)
    BY <1>1, <2>1
  <2>a. blkbuf'[Len(passed) + 1] = passed'[Len(passed) + 1]
    BY <1>1, <2>1
  <2>b. ASSUME NEW i \in 1 .. Len(passed) PROVE blkbuf'[i] = passed'[i]
    <3>1. passed'[i] = passed[i] /\ blkbuf[i] = passed[i]
      BY <1>1, <2>1
    <3>2. i \in 1 .. BlockSize /\ i # bufptr + 1
      BY <1>1, <2>1
    <3>3. b[i] = blkbuf[i]
      BY <3>2
    <3> QED BY <3>1, <3>3
  <2>3. ASSUME NEW i \in 1 .. Len(passed') PROVE blkbuf'[i] = passed'[i]
    <3>1. i = Len(passed) + 1 \/ i \in 1 .. Len(passed)
      BY <1>1, <2>2
    <3> QED BY <2>a, <2>b, <3>1
  <2>4. bufptr' = Len(passed') % BlockSize /\ bufptr' \in 0 .. BlockSize - 1
    BY <1>1, <2>1, <2>2
  <2>5. Len(passed') <= BlockSize
    BY <1>1, <2>1, <2>2
  <2> QED BY <2>2, <2>3, <2>4, <2>5 DEF WindowInStep
<1> QED BY <1>2, <1>3

-----------------------------------------------------------------------------
LEMMA SdInitHolds == ASSUME SdAssumption, SdInit PROVE SdInv /\ Store!Init
<1> USE SdSizes
<1>1. 0 \in Byte /\ 1 \in BlockCounts
  BY DEF SdAssumption
<1>2. Base * Base = MemSize /\ Base * Base \in Nat
  BY DEF MemSize
<1>3. SdTypes
  <2>0. 0 \in Lba /\ 0 \in Addr
    <3>1. 0 \in 0 .. MemSize - 1
      OBVIOUS
    <3> QED BY <1>2, <3>1 DEF Lba, Addr
  <2>1. reg_lba \in Lba /\ reg_mem \in Addr /\ reg_count \in BlockCounts /\ reg_error \in BOOLEAN
    BY <1>1, <2>0 DEF SdInit
  <2>2. [i \in 1 .. BlockSize |-> 0] \in BlockBytes
    BY <1>1 DEF BlockBytes
  <2>3. blkbuf \in BlockBytes /\ card \in [Blocks -> BlockBytes] /\ RAM \in [Addr -> Byte]
    BY <1>1, <2>2 DEF SdInit
  <2>4. passed \in Seq(Byte) /\ Len(passed) <= BlockSize /\ bufptr \in 0 .. BlockSize - 1
    BY DEF SdInit
  <2>5. img \in {"none", "rw", "ro"}
    BY DEF SdInit
  <2> QED BY <2>1, <2>3, <2>4, <2>5 DEF SdTypes
<1>4. WindowInStep
  BY DEF SdInit, WindowInStep
<1>5. Store!Init
  BY <1>1 DEF SdInit, Store!Init, Addr, Blocks
<1> QED BY <1>3, <1>4, <1>5 DEF SdInv

\* The registers' and the data port's accesses leave memory and card alone.
LEMMA AccessHolds ==
    ASSUME SdAssumption, SdInv, NEW high \in BOOLEAN, NEW value \in Digits,
           WriteLba(high, value) \/ WriteMem(high, value)
    PROVE  SdInv' /\ Store!Next
<1>1. /\ (IF high THEN value * Base + Low(reg_lba) ELSE High(reg_lba) * Base + value) \in Lba
      /\ (IF high THEN value * Base + Low(reg_mem) ELSE High(reg_mem) * Base + value) \in Addr
  BY DigitsJoin DEF SdInv, SdTypes, Lba, Addr, MemSize
<1>2. SdTypes'
  <2>1. CASE WriteLba(high, value)
    BY <1>1, <2>1 DEF WriteLba, SdInv, SdTypes
  <2>2. CASE WriteMem(high, value)
    BY <1>1, <2>2 DEF WriteMem, SdInv, SdTypes
  <2> QED BY <2>1, <2>2
<1>3. WindowInStep'
  BY DEF WriteLba, WriteMem, SdInv, WindowInStep
<1>4. Store!Next
  BY DEF WriteLba, WriteMem, Store!Next, Store!Other
<1> QED BY <1>2, <1>3, <1>4 DEF SdInv

LEMMA DataHolds ==
    ASSUME SdAssumption, SdInv, ReadData \/ \E value \in Byte : WriteData(value)
    PROVE  SdInv' /\ Store!Next
<1>1. bufptr + 1 \in 1 .. BlockSize /\ blkbuf \in [1 .. BlockSize -> Byte]
  BY SdSizes DEF SdInv, SdTypes, BlockBytes
<1>2. ASSUME NEW b \in BlockBytes, NEW v \in Byte,
             \A i \in 1 .. BlockSize : i # bufptr + 1 => b[i] = blkbuf[i],
             b[bufptr + 1] = v, passed' = Through(v), Advance, blkbuf' = b,
             UNCHANGED <<registers, img, card, RAM>>
      PROVE  SdInv' /\ Store!Next
  <2>1. /\ WindowInStep' /\ passed' \in Seq(Byte) /\ Len(passed') <= BlockSize
        /\ bufptr' \in 0 .. BlockSize - 1
    BY <1>2, ThroughInStep DEF Advance
  <2>2. SdTypes'
    BY <1>2, <2>1 DEF SdInv, SdTypes, registers
  <2> QED BY <1>2, <2>1, <2>2 DEF SdInv, Store!Next, Store!Other
<1>3. CASE ReadData
  BY <1>1, <1>2, <1>3 DEF ReadData, BlockBytes
<1>4. ASSUME NEW value \in Byte, WriteData(value) PROVE SdInv' /\ Store!Next
  <2> DEFINE b == [blkbuf EXCEPT ![bufptr + 1] = value]
  <2>1. /\ b \in BlockBytes /\ b[bufptr + 1] = value
        /\ \A i \in 1 .. BlockSize : i # bufptr + 1 => b[i] = blkbuf[i]
    BY <1>1 DEF BlockBytes
  <2>2. /\ blkbuf' = b /\ Advance /\ passed' = Through(value)
        /\ UNCHANGED <<registers, img, card, RAM>>
    BY <1>4 DEF WriteData
  <2> HIDE DEF b
  <2> QED BY <1>2, <2>1, <2>2
<1> QED BY <1>3, <1>4

\* Each command rewinds the pointer and moves what BlockStore lets it.
LEMMA CommandHolds ==
    ASSUME SdAssumption, SdInv,
           CMD_READ \/ CMD_READBUF \/ CMD_WRITE \/ CMD_RESET \/ CMD_other
    PROVE  SdInv' /\ Store!Next
<1> USE SdSizes
<1>1. /\ bufptr' = 0 /\ passed' = <<>> /\ UNCHANGED <<reg_lba, reg_mem, reg_count, img>>
  BY DEF CMD_READ, CMD_READBUF, CMD_WRITE, CMD_RESET, CMD_other, SdCommand
<1>2. WindowInStep' /\ passed' \in Seq(Byte) /\ Len(passed') <= BlockSize
      /\ bufptr' \in 0 .. BlockSize - 1
  BY <1>1 DEF WindowInStep
<1>3. SdTypes
  BY DEF SdInv
<1>4. CASE CMD_READ
  <2>1. Store!Next /\ RAM' \in [Addr -> Byte] /\ reg_error' \in BOOLEAN
    BY <1>3, <1>4, ReadTransfers
  <2>2. SdTypes'
    BY <1>1, <1>2, <1>3, <1>4, <2>1 DEF SdTypes, CMD_READ
  <2> QED BY <1>2, <2>1, <2>2 DEF SdInv
<1>5. CASE CMD_READBUF
  <2>1. Readable(reg_lba) => Block(reg_lba) \in BlockBytes
    <3>1. card \in [Blocks -> BlockBytes] /\ reg_lba \in Nat
      BY <1>3 DEF SdTypes, Lba
    <3> QED BY <3>1 DEF Readable, Block, Blocks
  <2>2. SdTypes'
    BY <1>1, <1>2, <1>3, <1>5, <2>1 DEF SdTypes, CMD_READBUF, Readable
  <2> QED BY <1>2, <1>5, <2>2 DEF SdInv, CMD_READBUF, Store!Next, Store!Other
<1>6. CASE CMD_WRITE
  <2>1. SdTypes'
    BY <1>1, <1>2, <1>3, <1>6 DEF SdTypes, CMD_WRITE, Writable
  <2>2. Store!Next
    <3>1. CASE Writable(reg_lba)
      <4>1. blkbuf \in [1 .. BlockSize -> Byte] /\ Store!Store(blkbuf)
        BY <1>1, <1>3, <1>6, <3>1
        DEF CMD_WRITE, Writable, Store!Store, Store!request, SdTypes, BlockBytes
      <4> QED BY <4>1 DEF Store!Next
    <3>2. CASE ~ Writable(reg_lba)
      BY <1>6, <3>2 DEF CMD_WRITE, Store!Next, Store!Other
    <3> QED BY <3>1, <3>2
  <2> QED BY <1>2, <2>1, <2>2 DEF SdInv
<1>7. CASE CMD_RESET \/ CMD_other
  <2>1. SdTypes'
    BY <1>1, <1>2, <1>3, <1>7 DEF SdTypes, CMD_RESET, CMD_other
  <2> QED BY <1>2, <1>7, <2>1 DEF SdInv, CMD_RESET, CMD_other, Store!Next, Store!Other
<1> QED BY <1>4, <1>5, <1>6, <1>7

StoreVars == <<card, RAM, Store!request, reg_error, img # "none">>

LEMMA SdStep ==
    ASSUME SdAssumption, SdInv, [SdNext]_sdVars
    PROVE  SdInv' /\ [Store!Next /\ UNCHANGED (img # "none")]_StoreVars
<1>1. ASSUME NEW high \in BOOLEAN, NEW value \in Digits,
             WriteLba(high, value) \/ WriteMem(high, value)
      PROVE  SdInv' /\ Store!Next /\ img' = img
  BY <1>1, AccessHolds DEF WriteLba, WriteMem
<1>2. ASSUME NEW value \in BlockCounts, WriteCount(value)
      PROVE  SdInv' /\ Store!Next /\ img' = img
  <2>1. SdTypes'
    BY <1>2 DEF WriteCount, SdInv, SdTypes
  <2>2. WindowInStep'
    BY <1>2 DEF WriteCount, SdInv, WindowInStep
  <2> QED BY <1>2, <2>1, <2>2 DEF WriteCount, SdInv, Store!Next, Store!Other
<1>3. ASSUME ReadData \/ \E value \in Byte : WriteData(value)
      PROVE  SdInv' /\ Store!Next /\ img' = img
  BY <1>3, DataHolds DEF ReadData, WriteData
<1>4. ASSUME CMD_READ \/ CMD_READBUF \/ CMD_WRITE \/ CMD_RESET \/ CMD_other
      PROVE  SdInv' /\ Store!Next /\ img' = img
  BY <1>4, CommandHolds DEF CMD_READ, CMD_READBUF, CMD_WRITE, CMD_RESET, CMD_other, SdCommand
<1>5. ASSUME UNCHANGED sdVars
      PROVE  SdInv' /\ Store!Next /\ img' = img
  <2>1. SdTypes'
    BY <1>5 DEF sdVars, registers, SdInv, SdTypes
  <2>2. WindowInStep'
    BY <1>5 DEF sdVars, SdInv, WindowInStep
  <2>3. UNCHANGED <<card, RAM, img>>
    BY <1>5 DEF sdVars
  <2>4. Store!Other
    BY <2>3 DEF Store!Other
  <2> QED BY <2>1, <2>2, <2>3, <2>4 DEF SdInv, Store!Next
<1>6. SdInv' /\ Store!Next /\ img' = img
  <2>1. CASE DebuggerPeek \/ MachineReset
    BY <1>5, <2>1 DEF DebuggerPeek, MachineReset
  <2>2. CASE \E high \in BOOLEAN, value \in Digits : WriteLba(high, value) \/ WriteMem(high, value)
    BY <1>1, <2>2
  <2>3. CASE \E value \in BlockCounts : WriteCount(value)
    BY <1>2, <2>3
  <2> QED BY <1>3, <1>4, <1>5, <2>1, <2>2, <2>3 DEF SdNext
<1> QED BY <1>6

\* For every size of an address, a block and a card, the device is a store of
\* whole blocks, and its data port is in step with the guest, whatever commands,
\* register writes, peeks and resets come between (do_command, sdblock_read,
\* sdblock_write).
THEOREM SdImplementsStore == ASSUME SdAssumption PROVE SdSpec => BlocksImplemented
<1>1. SdInit => SdInv /\ Store!Init
  BY SdInitHolds
<1>2. SdInv /\ [SdNext]_sdVars => SdInv' /\ [Store!Next /\ UNCHANGED (img # "none")]_StoreVars
  BY SdStep
<1>3. SdInv => WindowInStep
  BY DEF SdInv
<1> QED BY <1>1, <1>2, <1>3, PTL DEF SdSpec, BlocksImplemented, Store!Spec, StoreVars

-----------------------------------------------------------------------------
(* The host file system: what passed through the channels. *)

Cells == Seq(Nat)
Logs ==
    [old : Cells, seen : Cells, put : Cells, end : {"no", "eoi", "none"}, plain : BOOLEAN]
HostModes == {"rb", "wb", "ab", "rw"}

Tokens == OpenNames \cup Commands

CallTypes ==
    /\ channel \in Channels
    /\ name \in [Channels -> {<<>>} \cup {<<t>> : t \in Tokens}]
    /\ name[15] # <<>> => name[15][1] \in Commands
    /\ cmd \in Seq(Commands \cup {CR})

FileTypes ==
    /\ tree \in [DOMAIN tree -> (Inodes \cup {Dir}) \ {PrgInode}]
    /\ data \in [Inodes -> Cells]
    /\ read \in [Channels -> BOOLEAN] /\ write \in [Channels -> BOOLEAN]
    /\ f \in [Channels -> Inodes \cup {NoFile}]
    /\ hmode \in [Channels -> HostModes]
    /\ pos \in [Channels -> Nat]
    /\ log \in [Channels -> Logs]

\* A part of a sequence, and its first elements.
Part(s, a, b) == SubSeq(s, a + 1, b)
FirstOnes(s, n) == Part(s, 0, IF n < Len(s) THEN n ELSE Len(s))

\* What was read of a file of which nothing else was done: up to here, and to
\* its end if the guest was told so.
SoFar(l, at) ==
    /\ at <= Len(l.old) /\ l.seen = Part(l.old, 0, at)
    /\ l.end # "no" => l.seen = l.old

\* A file that is open: its contents now, how it was opened, where its handle
\* is, and whether the channel may be read and written.
IsOpen(l, file, m, at, r, w) ==
    l.plain =>
        /\ m \in {"rb", "rw"} => file = l.old /\ SoFar(l, at)
        /\ m = "wb" => l.old = <<>> /\ l.seen = <<>> /\ file = l.put /\ at = Len(file)
        /\ m = "ab" =>
             /\ file = l.old \o l.put
             /\ IF r THEN ~w /\ l.put = <<>> /\ SoFar(l, at) ELSE l.seen = <<>> /\ l.end = "no"

HandleHolds(c) ==
    IF f[c] = NoFile THEN log[c].plain => log[c].seen = log[c].old
    ELSE IsOpen(log[c], data[f[c]], hmode[c], pos[c], read[c], write[c])

\* No file is open twice, and the -prg file to be read only.
HandlesApart ==
    /\ \A c, d \in Channels : c # d /\ f[c] # NoFile => f[c] # f[d]
    /\ \A c \in Channels : f[c] = PrgInode => prg_consumed /\ hmode[c] = "rb"

HostInv == CallTypes /\ FileTypes /\ HandlesApart /\ \A c \in Channels : HandleHolds(c)

handles == <<data, read, write, f, hmode, pos, log>>

\* A file of no bytes.
LEMMA EmptyCells == <<>> \in Cells /\ Len(<<>>) = 0
BY EmptySeq DEF Cells

\* The numbers that stand for no file and for a directory are no file's.
LEMMA FileNumbers ==
    /\ PrgInode \in Inodes /\ PrgInode # NoFile /\ PrgInode # Dir
    /\ Dir \notin Inodes /\ NoFile \notin Inodes
<1>1. PrgInode \in Inodes /\ Inodes \subseteq Nat \ {0}
  BY HostAssumption DEF HostAssumption
<1> QED BY <1>1 DEF Dir, NoFile

\* A fresh log is that of a file just opened, or of none.
LEMMA FreshIs ==
    ASSUME NEW file \in Cells
    PROVE  /\ Fresh(file) \in Logs
           /\ Fresh(<<>>) \in Logs /\ Fresh(<<>>).seen = Fresh(<<>>).old
           /\ \A r, w \in BOOLEAN :
                /\ IsOpen(Fresh(file), file, "rb", 0, r, w)
                /\ IsOpen(Fresh(file), file, "rw", 0, r, w)
                /\ file = <<>> => IsOpen(Fresh(file), file, "wb", 0, r, w)
                /\ ~(r /\ w) => IsOpen(Fresh(file), file, "ab", 0, r, w)
<1>1. Fresh(file) \in Logs /\ Fresh(<<>>) \in Logs
  BY EmptyCells DEF Fresh, Logs
<1>2. SoFar(Fresh(file), 0)
  <2>1. Len(file) \in Nat /\ SubSeq(file, 1, 0) = <<>>
    BY LenProperties, SubSeqEmpty DEF Cells
  <2>2. Part(file, 0, 0) = <<>>
    BY <2>1 DEF Part
  <2> QED BY <2>1, <2>2 DEF SoFar, Fresh
<1>3. file \o <<>> = file
  BY ConcatEmptySeq DEF Cells
<1> QED BY <1>1, <1>2, <1>3, EmptyCells DEF IsOpen, Fresh

\* Bytes written at the end of a file are appended to it.
LEMMA OverlayIs ==
    ASSUME NEW t \in Cells, NEW at \in Nat, NEW s \in Cells
    PROVE  /\ Overlay(t, at, s) \in Cells
           /\ at = Len(t) => Overlay(t, at, s) = t \o s
<1> DEFINE o == Overlay(t, at, s)
<1> DEFINE m == IF at + Len(s) > Len(t) THEN at + Len(s) ELSE Len(t)
<1>1. Len(t) \in Nat /\ Len(s) \in Nat /\ m \in Nat
  BY LenProperties DEF Cells
<1>2. o = [k \in 1 .. m |->
            IF k > at /\ k <= at + Len(s) THEN s[k - at] ELSE IF k <= Len(t) THEN t[k] ELSE 0]
  BY DEF Overlay
<1>3. \A k \in 1 .. Len(t) : t[k] \in Nat
  BY ElementOfSeq DEF Cells
<1>4. \A k \in 1 .. Len(s) : s[k] \in Nat
  BY ElementOfSeq DEF Cells
<1>5. \A k \in 1 .. m : o[k] \in Nat
  <2> SUFFICES ASSUME NEW k \in 1 .. m PROVE o[k] \in Nat
    OBVIOUS
  <2>1. CASE k > at /\ k <= at + Len(s)
    <3>1. k - at \in 1 .. Len(s) /\ o[k] = s[k - at]
      BY <1>1, <1>2, <2>1
    <3> QED BY <1>4, <3>1
  <2>2. CASE ~(k > at /\ k <= at + Len(s)) /\ k <= Len(t)
    <3>1. k \in 1 .. Len(t) /\ o[k] = t[k]
      BY <1>1, <1>2, <2>2
    <3> QED BY <1>3, <3>1
  <2>3. CASE ~(k > at /\ k <= at + Len(s)) /\ ~(k <= Len(t))
    BY <1>2, <2>3
  <2> QED BY <2>1, <2>2, <2>3
<1>6. o \in [1 .. m -> Nat]
  BY <1>2, <1>5
<1>7. o \in Cells
  <2> HIDE DEF o, m
  <2> QED BY <1>1, <1>6 DEF Cells
<1>8. ASSUME at = Len(t) PROVE o = t \o s
  <2>1. m = Len(t) + Len(s) /\ Len(o) = m
    BY <1>1, <1>6, <1>8
  <2>2. t \o s \in Cells /\ Len(t \o s) = m
    BY <2>1, ConcatProperties DEF Cells
  <2>3. ASSUME NEW k \in 1 .. Len(o) PROVE o[k] = (t \o s)[k]
    <3>1. k \in 1 .. Len(t) + Len(s)
      BY <2>1
    <3>2. (t \o s)[k] = IF k <= Len(t) THEN t[k] ELSE s[k - Len(t)]
      BY <3>1, ConcatProperties DEF Cells
    <3>3. o[k] = IF k <= Len(t) THEN t[k] ELSE s[k - Len(t)]
      BY <1>1, <1>2, <1>8, <2>1, <3>1
    <3> QED BY <3>2, <3>3
  <2> HIDE DEF o, m
  <2> QED BY <1>7, <2>1, <2>2, <2>3, SeqEqual DEF Cells
<1> QED BY <1>7, <1>8

\* Cells in three parts, put together from either end.
LEMMA CellsAssociative ==
    ASSUME NEW a \in Cells, NEW b \in Cells, NEW c \in Cells
    PROVE  (a \o b) \o c = a \o (b \o c)
<1>1. a \in Seq(Nat) /\ b \in Seq(Nat) /\ c \in Seq(Nat)
  BY DEF Cells
<1> QED BY ONLY <1>1, ConcatAssociative

\* Bytes that the host takes leave the file as the log says.
PutOn(l, file, m, at, r, s) ==
    LET place == IF m = "ab" THEN Len(file) ELSE at
        then == IF s = <<>> THEN file ELSE Overlay(file, place, s)
        n == [l EXCEPT !.put = @ \o s, !.plain = @ /\ m # "rw"]
    IN  /\ n \in Logs /\ then \in Cells /\ place + Len(s) \in Nat
        /\ IsOpen(n, then, m, place + Len(s), r, TRUE)

LEMMA PutHolds ==
    ASSUME NEW l \in Logs, NEW file \in Cells, NEW m \in HostModes, NEW at \in Nat,
           NEW r \in BOOLEAN, IsOpen(l, file, m, at, r, TRUE),
           NEW s \in Cells, m = "rb" => s = <<>>
    PROVE  PutOn(l, file, m, at, r, s)
<1> SUFFICES ASSUME NEW place, place = IF m = "ab" THEN Len(file) ELSE at,
                    NEW then, then = IF s = <<>> THEN file ELSE Overlay(file, place, s),
                    NEW n, n = [l EXCEPT !.put = @ \o s, !.plain = @ /\ m # "rw"]
             PROVE  /\ n \in Logs /\ then \in Cells /\ place + Len(s) \in Nat
                    /\ IsOpen(n, then, m, place + Len(s), r, TRUE)
  BY DEF PutOn
<1>1. place \in Nat /\ Len(s) \in Nat /\ Len(file) \in Nat
  BY LenProperties DEF Cells
<1>2. then \in Cells
  BY <1>1, OverlayIs
<1>3. l.put \in Cells /\ l.old \in Cells /\ l.put \o s \in Cells
  <2>1. l.put \in Cells /\ l.old \in Cells
    BY DEF Logs
  <2> QED BY <2>1, ConcatProperties DEF Cells
<1>4. n \in Logs
  BY <1>3 DEF Logs
<1>5. /\ n.plain = (l.plain /\ m # "rw") /\ n.put = l.put \o s
      /\ n.old = l.old /\ n.seen = l.seen /\ n.end = l.end
  BY DEF Logs
<1>6. place = Len(file) => then = file \o s
  <2>1. file \o <<>> = file
    BY ConcatEmptySeq DEF Cells
  <2> QED BY <1>1, <2>1, OverlayIs
<1>7. ASSUME n.plain PROVE IsOpen(n, then, m, place + Len(s), r, TRUE)
  <2>1. l.plain /\ m # "rw"
    BY <1>5, <1>7
  <2>2. CASE m = "rb"
    <3>1. then = file /\ place + Len(s) = at /\ SoFar(l, at) /\ file = l.old
      BY <1>1, <2>1, <2>2, EmptyCells DEF IsOpen
    <3>2. SoFar(n, at)
      BY <1>5, <3>1 DEF SoFar
    <3> QED BY <1>5, <2>2, <3>1, <3>2 DEF IsOpen
  <2>3. CASE m = "wb"
    <3>1. l.old = <<>> /\ l.seen = <<>> /\ file = l.put /\ place = Len(file)
      BY <2>1, <2>3 DEF IsOpen
    <3>2. then = n.put
      BY <1>5, <1>6, <3>1
    <3>3. Len(then) = place + Len(s)
      <4>1. Len(file \o s) = Len(file) + Len(s)
        BY ConcatProperties DEF Cells
      <4> QED BY <1>6, <3>1, <4>1
    <3> QED BY <1>5, <2>3, <3>1, <3>2, <3>3 DEF IsOpen
  <2>4. CASE m = "ab"
    <3>1. ~r /\ file = l.old \o l.put /\ l.seen = <<>> /\ l.end = "no"
      BY <2>1, <2>4 DEF IsOpen
    <3>2. then = (l.old \o l.put) \o s
      BY <1>6, <2>4, <3>1
    <3>3. then = l.old \o (l.put \o s)
      <4>1. (l.old \o l.put) \o s = l.old \o (l.put \o s)
        BY <1>3, CellsAssociative
      <4> QED BY <3>2, <4>1
    <3> QED BY <1>5, <2>4, <3>1, <3>3 DEF IsOpen
  <2> QED BY <2>1, <2>2, <2>3, <2>4 DEF HostModes
<1>8. n.plain \in BOOLEAN
  BY <1>4 DEF Logs
<1>9. IsOpen(n, then, m, place + Len(s), r, TRUE)
  BY <1>7 DEF IsOpen
<1>10. place + Len(s) \in Nat
  BY <1>1
<1> QED BY <1>2, <1>4, <1>9, <1>10

\* A part of a file.
LEMMA PartIs ==
    ASSUME NEW s \in Cells, NEW a \in Nat, NEW b \in Nat, a <= b, b <= Len(s)
    PROVE  /\ Part(s, a, b) \in Cells /\ Len(Part(s, a, b)) = b - a
           /\ \A i \in 1 .. b - a : Part(s, a, b)[i] = s[a + i]
<1>1. Len(s) \in Nat /\ \A i \in 1 .. Len(s) : s[i] \in Nat
  BY LenProperties, ElementOfSeq DEF Cells
<1>2. PICK m \in Int : m = a + 1
  OBVIOUS
<1>3. \A i \in m .. b : s[i] \in Nat
  BY <1>1, <1>2
<1> DEFINE p == SubSeq(s, m, b)
<1>4. /\ p \in Seq(Nat) /\ Len(p) = IF m <= b THEN b - m + 1 ELSE 0
      /\ \A i \in 1 .. b - m + 1 : p[i] = s[m + i - 1]
  BY <1>2, <1>3, SubSeqProperties
<1>5. p = Part(s, a, b)
  BY <1>2 DEF Part
<1> HIDE DEF p
<1>6. p \in Cells /\ Len(p) = b - a
  BY <1>2, <1>4 DEF Cells
<1>7. ASSUME NEW i \in 1 .. b - a PROVE p[i] = s[a + i]
  <2>1. i \in 1 .. b - m + 1 /\ m + i - 1 = a + i
    BY <1>2
  <2> QED BY <1>4, <2>1
<1> QED BY <1>5, <1>6, <1>7

\* Its first bytes.
LEMMA FirstOnesIs ==
    ASSUME NEW s \in Cells, NEW n \in Nat
    PROVE  /\ FirstOnes(s, n) \in Cells
           /\ Len(FirstOnes(s, n)) = IF n < Len(s) THEN n ELSE Len(s)
           /\ \A i \in 1 .. Len(FirstOnes(s, n)) : FirstOnes(s, n)[i] = s[i]
<1>1. PICK g \in Nat : g = (IF n < Len(s) THEN n ELSE Len(s)) /\ g <= Len(s)
  BY LenProperties DEF Cells
<1>2. FirstOnes(s, n) = Part(s, 0, g)
  BY <1>1 DEF FirstOnes
<1>3. 0 \in Nat /\ 0 <= g /\ g <= Len(s)
  BY <1>1
<1>4. /\ Part(s, 0, g) \in Cells /\ Len(Part(s, 0, g)) = g - 0
      /\ \A i \in 1 .. g - 0 : Part(s, 0, g)[i] = s[0 + i]
  BY <1>3, PartIs
<1> QED BY <1>1, <1>2, <1>4

\* The two together are the file up to a later place.
Continues(s, a, c) == \A i \in 1 .. Len(c) : c[i] = s[a + i]

LEMMA PartThenPart ==
    ASSUME NEW s \in Cells, NEW a \in Nat, NEW b \in Nat, NEW c \in Cells, a <= b, b <= Len(s),
           Len(c) = b - a, Continues(s, a, c)
    PROVE  Part(s, 0, a) \o c = Part(s, 0, b)
<1> DEFINE p == Part(s, 0, a)
<1> DEFINE q == Part(s, 0, b)
<1>1. p \in Cells /\ Len(p) = a /\ \A i \in 1 .. a : p[i] = s[i]
  <2>1. a <= Len(s) /\ 0 \in Nat /\ 0 <= a
    BY LenProperties DEF Cells
  <2>2. Part(s, 0, a) \in Cells /\ Len(Part(s, 0, a)) = a - 0
        /\ \A i \in 1 .. a - 0 : Part(s, 0, a)[i] = s[0 + i]
    BY <2>1, PartIs
  <2> QED BY <2>2
<1>2. q \in Cells /\ Len(q) = b /\ \A i \in 1 .. b : q[i] = s[i]
  <2>1. Part(s, 0, b) \in Cells /\ Len(Part(s, 0, b)) = b - 0
        /\ \A i \in 1 .. b - 0 : Part(s, 0, b)[i] = s[0 + i]
    <3>1. 0 \in Nat /\ 0 <= b
      OBVIOUS
    <3> QED BY <3>1, PartIs
  <2> QED BY <2>1
<1> HIDE DEF p, q
<1>3. /\ p \o c \in Seq(Nat) /\ Len(p \o c) = b
      /\ \A i \in 1 .. b : (p \o c)[i] = IF i <= a THEN p[i] ELSE c[i - a]
  <2>1. /\ p \o c \in Seq(Nat) /\ Len(p \o c) = Len(p) + Len(c)
        /\ \A i \in 1 .. Len(p) + Len(c) :
              (p \o c)[i] = IF i <= Len(p) THEN p[i] ELSE c[i - Len(p)]
    BY <1>1, ConcatProperties DEF Cells
  <2>2. Len(p) + Len(c) = b
    BY <1>1
  <2> QED BY <1>1, <2>1, <2>2
<1>4. ASSUME NEW i \in 1 .. b PROVE (p \o c)[i] = q[i]
  <2>1. (p \o c)[i] = IF i <= a THEN p[i] ELSE c[i - a]
    BY <1>1, <1>3
  <2>2. CASE i <= a
    BY <1>1, <1>2, <2>1, <2>2
  <2>3. CASE ~(i <= a)
    <3>1. PICK j \in 1 .. Len(c) : j = i - a
      BY <2>3
    <3>2. c[j] = s[a + j] /\ a + j = i
      BY <3>1 DEF Continues
    <3> QED BY <1>2, <2>1, <2>3, <3>1, <3>2
  <2> QED BY <2>2, <2>3
<1>5. Len(p \o c) = b /\ Len(q) = b
  BY <1>1, <1>2, <1>3
<1>6. p \o c = q
  BY <1>2, <1>3, <1>4, <1>5, SeqEqual DEF Cells
<1> QED BY <1>6 DEF p, q

\* What is left from a place on, and its first bytes.
ReadsOn(file, at, left, take) ==
    /\ left \in Cells /\ take \in Cells /\ at + Len(take) <= Len(file)
    /\ Part(file, 0, at) \o take = Part(file, 0, at + Len(take))
    /\ take = left \/ take = <<>> => Part(file, 0, at) \o take = file

LEMMA RestIs ==
    ASSUME NEW file \in Cells, NEW at \in Nat, at <= Len(file), NEW n \in Nat \ {0},
           NEW left, left = Part(file, at, Len(file)),
           NEW take, take = FirstOnes(left, n)
    PROVE  ReadsOn(file, at, left, take)
<1>1. PICK h \in Nat : h = Len(file)
  BY LenProperties DEF Cells
<1>2. PICK q \in Nat : q = h - at
  <2>1. at <= h
    BY <1>1
  <2> QED BY <2>1
<1>3. left \in Cells /\ Len(left) = q /\ \A i \in 1 .. q : left[i] = file[at + i]
  <2>1. h \in Nat /\ at <= h /\ h <= Len(file) /\ left = Part(file, at, h)
    BY <1>1
  <2>2. /\ Part(file, at, h) \in Cells /\ Len(Part(file, at, h)) = h - at
        /\ \A i \in 1 .. h - at : Part(file, at, h)[i] = file[at + i]
    BY <2>1, PartIs
  <2> QED BY <1>2, <2>1, <2>2
<1>4. PICK g \in Nat : g = (IF n < q THEN n ELSE q)
  OBVIOUS
<1>5. take \in Cells /\ Len(take) = g /\ \A i \in 1 .. g : take[i] = left[i]
  <2>1. n \in Nat
    OBVIOUS
  <2>2. /\ take \in Cells /\ Len(take) = IF n < Len(left) THEN n ELSE Len(left)
        /\ \A i \in 1 .. Len(take) : take[i] = left[i]
    BY <1>3, <2>1, FirstOnesIs
  <2> QED BY <1>3, <1>4, <2>2
<1>6. PICK k \in Nat : k = at + g /\ at <= k /\ k <= h
  BY <1>1, <1>2, <1>4
<1>7. Continues(file, at, take)
  BY <1>3, <1>4, <1>5 DEF Continues
<1>8. Part(file, 0, at) \o take = Part(file, 0, k)
  <2>1. k <= Len(file) /\ Len(take) = k - at
    BY <1>1, <1>5, <1>6
  <2>2. take \in Cells /\ at <= k
    BY <1>5, <1>6
  <2> HIDE DEF Part
  <2> QED BY ONLY <1>7, <2>1, <2>2, k \in Nat, at \in Nat, file \in Cells, PartThenPart
<1>9. ASSUME take = left \/ take = <<>> PROVE Part(file, 0, at) \o take = file
  <2>1. k = h
    BY <1>2, <1>3, <1>4, <1>5, <1>6, <1>9, EmptyCells
  <2>2. Part(file, 0, h) = SubSeq(file, 1, h)
    BY DEF Part
  <2>3. SubSeq(file, 1, h) = file
    BY <1>1, SubSeqFull DEF Cells
  <2> QED BY <1>8, <2>1, <2>2, <2>3
<1> QED BY <1>1, <1>3, <1>5, <1>6, <1>8, <1>9 DEF ReadsOn

\* The same of a log of what is read.
Left(file, m, at) == IF m = "wb" THEN <<>> ELSE Part(file, at, Len(file))

TakeOn(l, file, m, at, w, n, e) ==
    LET take == FirstOnes(Left(file, m, at), n)
        x == [l EXCEPT !.seen = @ \o take, !.end = e]
    IN  /\ x \in Logs /\ at + Len(take) \in Nat
        /\ e = "eoi" /\ x.plain => x.seen = x.old
        /\ IsOpen(x, file, m, at + Len(take), TRUE, w)

EndIs(take, left, e) ==
    /\ e \in {"no", "eoi", "none"}
    /\ e = "eoi" => take = left
    /\ e = "none" => take = <<>>

LEMMA TakeHolds ==
    ASSUME NEW l \in Logs, NEW file \in Cells, NEW m \in HostModes, NEW at \in Nat,
           NEW w \in BOOLEAN, IsOpen(l, file, m, at, TRUE, w), NEW n \in Nat \ {0},
           NEW e, EndIs(FirstOnes(Left(file, m, at), n), Left(file, m, at), e)
    PROVE  TakeOn(l, file, m, at, w, n, e)
<1> SUFFICES ASSUME NEW left, left = IF m = "wb" THEN <<>> ELSE Part(file, at, Len(file)),
                    NEW take, take = FirstOnes(left, n),
                    NEW x, x = [l EXCEPT !.seen = @ \o take, !.end = e]
             PROVE  /\ x \in Logs /\ at + Len(take) \in Nat
                    /\ e = "eoi" /\ x.plain => x.seen = x.old
                    /\ IsOpen(x, file, m, at + Len(take), TRUE, w)
  BY DEF TakeOn, Left
<1>0. e \in {"no", "eoi", "none"} /\ (e = "eoi" => take = left) /\ (e = "none" => take = <<>>)
  BY DEF EndIs, Left
<1>1. Len(file) \in Nat /\ \A i \in 1 .. Len(file) : file[i] \in Nat
  BY LenProperties, ElementOfSeq DEF Cells
<1>2. left \in Cells
  <2>1. CASE m = "wb"
    BY <2>1, EmptyCells
  <2>2. CASE m # "wb" /\ at <= Len(file)
    <3>1. PICK h \in Nat : h = Len(file)
      BY <1>1
    <3>2. at <= h /\ h <= Len(file) /\ left = Part(file, at, h)
      BY <2>2, <3>1
    <3> QED BY <3>2, PartIs
  <2>3. CASE m # "wb" /\ ~(at <= Len(file))
    <3>1. Part(file, at, Len(file)) = <<>>
      <4>1. at + 1 \in Int /\ Len(file) \in Int /\ Len(file) < at + 1
        BY <1>1, <2>3
      <4> QED BY <4>1, SubSeqEmpty DEF Part
    <3> QED BY <2>3, <3>1, EmptyCells
  <2> QED BY <2>1, <2>2, <2>3
<1>3. take \in Cells /\ Len(take) \in Nat
  <2>1. take \in Cells
    BY <1>2, FirstOnesIs
  <2> QED BY <2>1, LenProperties DEF Cells
<1>4. l.seen \in Cells /\ l.old \in Cells /\ l.seen \o take \in Cells
  <2>1. l.seen \in Cells /\ l.old \in Cells
    BY DEF Logs
  <2> QED BY <1>3, <2>1, ConcatProperties DEF Cells
<1>5. /\ x \in Logs /\ x.plain = l.plain /\ x.put = l.put /\ x.old = l.old
      /\ x.seen = l.seen \o take /\ x.end = e
  BY <1>0, <1>4 DEF Logs
<1>6. ASSUME l.plain, file = l.old, SoFar(l, at), m # "wb"
      PROVE  SoFar(x, at + Len(take)) /\ (e # "no" => x.seen = x.old)
  <2>1. left = Part(file, at, Len(file)) /\ at <= Len(file) /\ l.seen = Part(file, 0, at)
    BY <1>6 DEF SoFar
  <2>2. /\ at + Len(take) <= Len(file)
        /\ Part(file, 0, at) \o take = Part(file, 0, at + Len(take))
        /\ take = left \/ take = <<>> => Part(file, 0, at) \o take = file
    <3>1. ReadsOn(file, at, left, take)
      BY <2>1, RestIs
    <3> QED BY <3>1 DEF ReadsOn
  <2>3. x.seen = Part(x.old, 0, at + Len(take)) /\ (e # "no" => x.seen = x.old)
    BY <1>0, <1>5, <1>6, <2>1, <2>2
  <2> QED BY <1>5, <1>6, <2>2, <2>3 DEF SoFar
<1>7. ASSUME l.plain
      PROVE  (e = "eoi" => x.seen = x.old) /\ IsOpen(x, file, m, at + Len(take), TRUE, w)
  <2>1. CASE m \in {"rb", "rw"}
    <3>1. file = l.old /\ SoFar(l, at)
      BY <1>7, <2>1 DEF IsOpen
    <3> QED BY <1>5, <1>6, <1>7, <2>1, <3>1 DEF IsOpen
  <2>2. CASE m = "ab"
    <3>1. ~w /\ l.put = <<>> /\ SoFar(l, at) /\ file = l.old \o l.put
      BY <1>7, <2>2 DEF IsOpen
    <3>2. file = l.old
      BY <1>4, <3>1, ConcatEmptySeq DEF Cells
    <3>3. SoFar(x, at + Len(take)) /\ (e # "no" => x.seen = x.old)
      BY <1>6, <1>7, <2>2, <3>1, <3>2
    <3> QED BY <1>5, <2>2, <3>1, <3>3 DEF IsOpen
  <2>3. CASE m = "wb"
    <3>1. l.old = <<>> /\ l.seen = <<>> /\ file = l.put /\ at = Len(file)
      BY <1>7, <2>3 DEF IsOpen
    <3>2. left = <<>> /\ Len(left) = 0
      BY <2>3, EmptyCells
    <3>3. take = <<>>
      <4>1. n \in Nat /\ ~(n < Len(left))
        BY <3>2
      <4>2. Len(take) = IF n < Len(left) THEN n ELSE Len(left)
        BY <1>2, <4>1, FirstOnesIs
      <4>3. Len(take) = 0 /\ take \in Seq(Nat)
        BY <1>3, <3>2, <4>1, <4>2 DEF Cells
      <4> QED BY <4>3, EmptySeq
    <3>4. l.seen \o take = <<>> /\ Len(take) = 0
      BY <3>1, <3>3, EmptyCells, ConcatEmptySeq DEF Cells
    <3> QED BY <1>5, <2>3, <3>1, <3>4 DEF IsOpen
  <2> QED BY <2>1, <2>2, <2>3 DEF HostModes
<1>8. ASSUME ~ l.plain PROVE IsOpen(x, file, m, at + Len(take), TRUE, w)
  BY <1>5, <1>8 DEF IsOpen
<1>9. at + Len(take) \in Nat
  BY <1>3
<1>10. l.plain \in BOOLEAN
  BY DEF Logs
<1>11. IsOpen(x, file, m, at + Len(take), TRUE, w)
  BY <1>7, <1>8, <1>10
<1>12. e = "eoi" /\ x.plain => x.seen = x.old
  BY <1>5, <1>7
<1> QED BY <1>5, <1>9, <1>11, <1>12

\* A step that touches neither files nor handles, but for what is in the tree.
LEMMA HandlesKept ==
    ASSUME HostInv, CallTypes', UNCHANGED handles, prg_consumed' = prg_consumed,
           tree' \in [DOMAIN tree' -> (Inodes \cup {Dir}) \ {PrgInode}]
    PROVE  HostInv'
<1>1. FileTypes'
  BY DEF HostInv, FileTypes, handles
<1>2. HandlesApart'
  BY DEF HostInv, HandlesApart, handles
<1>3. ASSUME NEW c \in Channels PROVE HandleHolds(c)'
  <2>1. HandleHolds(c)
    BY DEF HostInv
  <2> QED BY <2>1 DEF HandleHolds, handles
<1> QED BY <1>1, <1>2, <1>3 DEF HostInv

\* A step that changes one channel's handle only, and its file.
LEMMA OneHandle ==
    ASSUME HostInv, CallTypes', FileTypes', HandlesApart', NEW ch \in Channels, HandleHolds(ch)',
           \A c \in Channels \ {ch} :
              /\ read'[c] = read[c] /\ write'[c] = write[c] /\ f'[c] = f[c]
              /\ hmode'[c] = hmode[c] /\ pos'[c] = pos[c] /\ log'[c] = log[c]
              /\ f[c] # NoFile => data'[f[c]] = data[f[c]]
    PROVE  HostInv'
<1>1. ASSUME NEW c \in Channels \ {ch} PROVE HandleHolds(c)'
  <2>1. HandleHolds(c)
    BY DEF HostInv
  <2>2. /\ read'[c] = read[c] /\ write'[c] = write[c] /\ f'[c] = f[c]
        /\ hmode'[c] = hmode[c] /\ pos'[c] = pos[c] /\ log'[c] = log[c]
        /\ f[c] # NoFile => data'[f[c]] = data[f[c]]
    OBVIOUS
  <2> QED BY <2>1, <2>2 DEF HandleHolds
<1> QED BY <1>1 DEF HostInv

\* CLOSE
LEMMA CloseHolds ==
    ASSUME HostInv, NEW kind, NEW ch \in Channels, SECOND(kind, ch) PROVE HostInv'
<1>1. CallTypes'
  <2>1. CASE kind = "close"
    <3>1. name' = [name EXCEPT ![ch] = <<>>] /\ channel' = ch /\ cmd' = cmd
      BY <2>1 DEF SECOND, Closed, rest, cmds
    <3> QED BY <3>1 DEF HostInv, CallTypes
  <2>2. CASE kind # "close"
    BY <2>2 DEF SECOND, rest, cmds, HostInv, CallTypes
  <2> QED BY <2>1, <2>2
<1>2. CASE kind # "close"
  <2>1. UNCHANGED handles /\ prg_consumed' = prg_consumed /\ tree' = tree
    BY <1>2 DEF SECOND, rest, files, handles
  <2> QED BY <1>1, <2>1, HandlesKept DEF HostInv, FileTypes
<1>3. CASE kind = "close"
  <2>1. /\ f' = [f EXCEPT ![ch] = NoFile] /\ log' = [log EXCEPT ![ch] = Fresh(<<>>)]
        /\ UNCHANGED <<tree, data, read, write, hmode, pos, prg_consumed>>
    BY <1>3 DEF SECOND, Closed, rest, files
  <2>2. Fresh(<<>>) \in Logs /\ Fresh(<<>>).seen = Fresh(<<>>).old
    BY FreshIs, EmptyCells
  <2>3. FileTypes'
    BY <2>1, <2>2 DEF HostInv, FileTypes
  <2>4. HandlesApart'
    BY <2>1, FileNumbers DEF HostInv, FileTypes, HandlesApart
  <2>5. HandleHolds(ch)'
    BY <2>1, <2>2 DEF HostInv, FileTypes, HandleHolds
  <2> QED BY <1>1, <2>1, <2>3, <2>4, <2>5, OneHandle DEF HostInv, FileTypes
<1> QED BY <1>2, <1>3

\* LISTEN, TALK, TKSA, UNTALK
LEMMA TalkHolds ==
    ASSUME HostInv, NEW u, NEW ch \in Channels, LISTEN(u) \/ TALK(u) \/ TKSA(ch) \/ UNTLK
    PROVE  HostInv'
<1>1. /\ channel' \in Channels /\ UNCHANGED <<name, cmd>>
      /\ UNCHANGED handles /\ prg_consumed' = prg_consumed /\ tree' = tree
  BY DEF LISTEN, TALK, TKSA, UNTLK, chans, rest, files, cmds, handles, HostInv, CallTypes
<1>2. CallTypes'
  BY <1>1 DEF HostInv, CallTypes
<1> QED BY <1>1, <1>2, HandlesKept DEF HostInv, FileTypes

\* A file opened on a polite guest's channel.
HandleOn(ch, ino, m, file, old) ==
    /\ data' = [data EXCEPT ![ino] = file]
    /\ f' = [f EXCEPT ![ch] = ino] /\ hmode' = [hmode EXCEPT ![ch] = m]
    /\ pos' = [pos EXCEPT ![ch] = 0] /\ log' = [log EXCEPT ![ch] = Fresh(old)]
    /\ read' \in [Channels -> BOOLEAN] /\ write' \in [Channels -> BOOLEAN]
    /\ \A c \in Channels \ {ch} : read'[c] = read[c] /\ write'[c] = write[c] /\ f[c] # ino
    /\ ino = PrgInode => m = "rb" /\ prg_consumed'
    /\ IsOpen(Fresh(old), file, m, 0, read'[ch], write'[ch])

LEMMA OpenHolds ==
    ASSUME HostInv, CallTypes', NEW ch \in Channels,
           NEW ino \in Inodes, NEW m \in HostModes, NEW file \in Cells, NEW old \in Cells,
           tree' \in [DOMAIN tree' -> (Inodes \cup {Dir}) \ {PrgInode}],
           HandleOn(ch, ino, m, file, old), prg_consumed => prg_consumed'
    PROVE  HostInv'
<1>1. Fresh(old) \in Logs
  BY FreshIs
<1>2. FileTypes'
  BY <1>1 DEF HandleOn, HostInv, FileTypes
<1>3. HandlesApart'
  <2>1. f'[ch] = ino /\ hmode'[ch] = m
    BY DEF HandleOn, HostInv, FileTypes
  <2>2. \A c \in Channels \ {ch} : f'[c] = f[c] /\ hmode'[c] = hmode[c] /\ f[c] # ino
    BY DEF HandleOn, HostInv, FileTypes
  <2> QED BY <2>1, <2>2 DEF HandleOn, HostInv, HandlesApart
<1>4. HandleHolds(ch)'
  <2>1. f'[ch] = ino /\ hmode'[ch] = m /\ pos'[ch] = 0 /\ log'[ch] = Fresh(old) /\ data'[ino] = file
    BY DEF HandleOn, HostInv, FileTypes
  <2> QED BY <2>1, FileNumbers DEF HandleOn, HandleHolds
<1>5. \A c \in Channels \ {ch} :
         /\ read'[c] = read[c] /\ write'[c] = write[c] /\ f'[c] = f[c]
         /\ hmode'[c] = hmode[c] /\ pos'[c] = pos[c] /\ log'[c] = log[c]
         /\ f[c] # NoFile => data'[f[c]] = data[f[c]]
  BY DEF HandleOn, HostInv, FileTypes
<1> QED BY <1>2, <1>3, <1>4, <1>5, OneHandle

\* How the channel may be used, as its OPEN says.
ChannelFor(ch, m) ==
    read' = [read EXCEPT ![ch] = Reads(ch, m)] /\ write' = [write EXCEPT ![ch] = Writes(ch, m)]

\* No channel opened to append is read and written.
LEMMA ChannelTypes ==
    ASSUME HostInv, NEW ch \in Channels, NEW m, ChannelFor(ch, m)
    PROVE  /\ read' \in [Channels -> BOOLEAN] /\ write' \in [Channels -> BOOLEAN]
           /\ \A c \in Channels \ {ch} : read'[c] = read[c] /\ write'[c] = write[c]
           /\ m = "A" => ~(read'[ch] /\ write'[ch])
           /\ HostMode(ch, m) \in HostModes /\ (HostMode(ch, m) = "ab" => m = "A")
           /\ read'[ch] \in BOOLEAN /\ write'[ch] \in BOOLEAN
<1>1. Reads(ch, m) \in BOOLEAN /\ Writes(ch, m) \in BOOLEAN
  <2>1. CASE ch <= 1
    BY <2>1 DEF Reads, Writes
  <2>2. CASE ~(ch <= 1)
    BY <2>2 DEF Reads, Writes
  <2> QED BY <2>1, <2>2
<1>2. ch \in 0 .. 15
  BY HostAssumption DEF HostAssumption
<1>3. read'[ch] = Reads(ch, m) /\ write'[ch] = Writes(ch, m)
  BY DEF ChannelFor, HostInv, FileTypes
<1>4. m = "A" => ~(Reads(ch, m) /\ Writes(ch, m))
  BY <1>2 DEF Reads, Writes
<1>5. /\ read' \in [Channels -> BOOLEAN] /\ write' \in [Channels -> BOOLEAN]
      /\ \A c \in Channels \ {ch} : read'[c] = read[c] /\ write'[c] = write[c]
  BY <1>1 DEF ChannelFor, HostInv, FileTypes
<1>6. HostMode(ch, m) \in HostModes /\ (HostMode(ch, m) = "ab" => m = "A")
  BY DEF HostMode, HostModes
<1> QED BY <1>1, <1>3, <1>4, <1>5, <1>6

\* A file that the host opens, or makes: no other channel has it.
LEMMA OpenAtHolds ==
    ASSUME HostInv, CallTypes', NEW ch \in Channels, NEW tok, NEW r, ChannelFor(ch, tok.mode),
           OpenAt(ch, tok, r), CanOpen(ch, tok, r), prg_consumed' = prg_consumed,
           \A c \in Channels \ {ch} : f[c] # NoFile =>
                ~(r.path \in DOMAIN tree /\ tree[r.path] = f[c]),
           r.path \in DOMAIN tree \/ HasFree
    PROVE  HostInv'
<1> DEFINE new == r.path \notin DOMAIN tree
<1> DEFINE ino == IF new THEN Free ELSE tree[r.path]
<1> DEFINE m == HostMode(ch, tok.mode)
<1>1. /\ data' = IF m = "wb" \/ new THEN [data EXCEPT ![ino] = <<>>] ELSE data
      /\ tree' = IF new THEN Adding(r.path, ino) ELSE tree
      /\ f' = [f EXCEPT ![ch] = ino] /\ hmode' = [hmode EXCEPT ![ch] = m]
      /\ pos' = [pos EXCEPT ![ch] = 0]
      /\ log' = [log EXCEPT ![ch] =
                    Fresh(IF tok.mode = "A" /\ ~new THEN data[ino] ELSE data'[ino])]
  BY DEF OpenAt
<1>2. ino \in Inodes \ {PrgInode} /\ \A c \in Channels \ {ch} : f[c] # ino
  <2>1. CASE new
    <3>1. HasFree /\ ino = Free
      BY <2>1
    <3>2. PICK i \in Inodes \ {PrgInode} :
             (\A p \in DOMAIN tree : tree[p] # i) /\ (\A c \in Channels : f[c] # i)
      BY <3>1 DEF HasFree
    <3>3. Free \in Inodes \ {PrgInode} /\ \A c \in Channels : f[c] # Free
      BY <3>2 DEF Free
    <3> QED BY <3>1, <3>3
  <2>2. CASE ~ new
    <3>1. r.path \in DOMAIN tree /\ ino = tree[r.path] /\ ino # Dir
      BY <2>2 DEF CanOpen, IsFile, Creatable
    <3>2. ino \in Inodes \ {PrgInode}
      BY <3>1 DEF HostInv, FileTypes
    <3>3. ino # NoFile
      BY <3>2, FileNumbers
    <3> QED BY <3>1, <3>2, <3>3
  <2> QED BY <2>1, <2>2
<1>3. tree' \in [DOMAIN tree' -> (Inodes \cup {Dir}) \ {PrgInode}]
  <2>1. CASE new
    <3>1. tree' = [p \in DOMAIN tree \cup {r.path} |-> IF p = r.path THEN ino ELSE tree[p]]
      BY <1>1, <2>1 DEF Adding
    <3> QED BY <1>2, <3>1 DEF HostInv, FileTypes
  <2>2. CASE ~ new
    BY <1>1, <2>2 DEF HostInv, FileTypes
  <2> QED BY <2>1, <2>2
<1> DEFINE file == IF m = "wb" \/ new THEN <<>> ELSE data[ino]
<1>4. file \in Cells /\ data' = [data EXCEPT ![ino] = file] /\ data'[ino] = file
  <2>1. data \in [Inodes -> Cells] /\ ino \in Inodes
    BY <1>2 DEF HostInv, FileTypes
  <2> HIDE DEF ino, m, new
  <2> QED BY <1>1, <2>1, EmptyCells
<1>5. log' = [log EXCEPT ![ch] = Fresh(file)]
  <2>1. tok.mode = "A" => m = "ab"
    BY DEF HostMode
  <2> QED BY <1>1, <1>4, <2>1
<1>6. IsOpen(Fresh(file), file, m, 0, read'[ch], write'[ch])
  <2>1. /\ m \in HostModes
        /\ m = "ab" => tok.mode = "A"
        /\ read'[ch] \in BOOLEAN /\ write'[ch] \in BOOLEAN
        /\ tok.mode = "A" => ~(read'[ch] /\ write'[ch])
    BY ChannelTypes
  <2>2. m = "wb" => file = <<>>
    OBVIOUS
  <2> HIDE DEF m, file
  <2>3. \A a, b \in BOOLEAN :
           /\ IsOpen(Fresh(file), file, "rb", 0, a, b)
           /\ IsOpen(Fresh(file), file, "rw", 0, a, b)
           /\ file = <<>> => IsOpen(Fresh(file), file, "wb", 0, a, b)
           /\ ~(a /\ b) => IsOpen(Fresh(file), file, "ab", 0, a, b)
    BY <1>4, FreshIs
  <2>4. /\ IsOpen(Fresh(file), file, "rb", 0, read'[ch], write'[ch])
        /\ IsOpen(Fresh(file), file, "rw", 0, read'[ch], write'[ch])
        /\ file = <<>> => IsOpen(Fresh(file), file, "wb", 0, read'[ch], write'[ch])
        /\ ~(read'[ch] /\ write'[ch]) => IsOpen(Fresh(file), file, "ab", 0, read'[ch], write'[ch])
    BY <2>1, <2>3, Zenon
  <2>5. m = "rb" \/ m = "rw" \/ m = "wb" \/ m = "ab"
    BY <2>1 DEF HostModes
  <2> QED BY <2>1, <2>2, <2>4, <2>5, Zenon
<1>7. /\ read' \in [Channels -> BOOLEAN] /\ write' \in [Channels -> BOOLEAN]
      /\ \A c \in Channels \ {ch} : read'[c] = read[c] /\ write'[c] = write[c]
      /\ m \in HostModes
  BY ChannelTypes
<1>8. ino \in Inodes /\ ino # PrgInode /\ \A c \in Channels \ {ch} : f[c] # ino
  BY <1>2
<1>9. \A c \in Channels \ {ch} : read'[c] = read[c] /\ write'[c] = write[c] /\ f[c] # ino
  BY <1>7, <1>8
<1>10. prg_consumed => prg_consumed'
  OBVIOUS
<1>11. f' = [f EXCEPT ![ch] = ino] /\ hmode' = [hmode EXCEPT ![ch] = m]
       /\ pos' = [pos EXCEPT ![ch] = 0]
  BY <1>1
<1>12. data' = [data EXCEPT ![ino] = file]
  BY <1>4
<1> HIDE DEF m, file, ino, new
<1>13. HandleOn(ch, ino, m, file, file)
  BY <1>5, <1>6, <1>7, <1>8, <1>9, <1>11, <1>12 DEF HandleOn
<1>14. m \in HostModes /\ ino \in Inodes
  BY <1>7, <1>8
<1> QED BY <1>3, <1>4, <1>10, <1>13, <1>14, OpenHolds

\* An OPEN that fails before the host is asked.
LEMMA KeptHandleHolds ==
    ASSUME HostInv, CallTypes', NEW ch \in Channels, NEW m, ChannelFor(ch, m),
           f[ch] # NoFile => hmode[ch] = "rb",
           UNCHANGED <<tree, data, f, hmode, pos, log>>, prg_consumed => prg_consumed'
    PROVE  HostInv'
<1>1. /\ read' \in [Channels -> BOOLEAN] /\ write' \in [Channels -> BOOLEAN]
      /\ \A c \in Channels \ {ch} : read'[c] = read[c] /\ write'[c] = write[c]
  BY ChannelTypes
<1>2. FileTypes'
  BY <1>1 DEF HostInv, FileTypes
<1>3. HandlesApart'
  BY DEF HostInv, HandlesApart
<1>4. HandleHolds(ch)'
  <2>1. HandleHolds(ch)
    BY DEF HostInv
  <2> QED BY <2>1 DEF HandleHolds, IsOpen
<1> QED BY <1>1, <1>2, <1>3, <1>4, OneHandle

\* An OPEN that the host refuses.
LEMMA RefusedHolds ==
    ASSUME HostInv, CallTypes', NEW ch \in Channels, NEW m, ChannelFor(ch, m),
           f' = [f EXCEPT ![ch] = NoFile], log' = [log EXCEPT ![ch] = Fresh(<<>>)],
           UNCHANGED <<tree, data, hmode, pos, prg_consumed>>
    PROVE  HostInv'
<1>1. /\ read' \in [Channels -> BOOLEAN] /\ write' \in [Channels -> BOOLEAN]
      /\ \A c \in Channels \ {ch} : read'[c] = read[c] /\ write'[c] = write[c]
  BY ChannelTypes
<1>2. Fresh(<<>>) \in Logs /\ Fresh(<<>>).seen = Fresh(<<>>).old
  BY FreshIs, EmptyCells
<1>3. FileTypes'
  BY <1>1, <1>2 DEF HostInv, FileTypes
<1>4. HandlesApart'
  BY FileNumbers DEF HostInv, FileTypes, HandlesApart
<1>5. HandleHolds(ch)'
  BY <1>2 DEF HostInv, FileTypes, HandleHolds
<1>6. \A c \in Channels \ {ch} :
         /\ read'[c] = read[c] /\ write'[c] = write[c] /\ f'[c] = f[c]
         /\ hmode'[c] = hmode[c] /\ pos'[c] = pos[c] /\ log'[c] = log[c]
         /\ f[c] # NoFile => data'[f[c]] = data[f[c]]
  BY <1>1 DEF HostInv, FileTypes
<1> QED BY <1>3, <1>4, <1>5, <1>6, OneHandle

\* The -prg file, which nothing else has open before it is handed out.
LEMMA OpenPrgHolds ==
    ASSUME HostInv, CallTypes', NEW ch \in Channels, NEW m, ChannelFor(ch, m),
           OpenPrg(ch), ~prg_consumed, UNCHANGED <<tree, data>>
    PROVE  HostInv'
<1>1. /\ read' \in [Channels -> BOOLEAN] /\ write' \in [Channels -> BOOLEAN]
      /\ \A c \in Channels \ {ch} : read'[c] = read[c] /\ write'[c] = write[c]
      /\ read'[ch] \in BOOLEAN /\ write'[ch] \in BOOLEAN
  BY ChannelTypes
<1> DEFINE file == data[PrgInode]
<1>2. file \in Cells /\ data' = [data EXCEPT ![PrgInode] = file]
  BY FileNumbers DEF HostInv, FileTypes
<1>3. \A c \in Channels : f[c] # PrgInode
  BY DEF HostInv, HandlesApart
<1>4. IsOpen(Fresh(file), file, "rb", 0, read'[ch], write'[ch])
  <2> HIDE DEF file
  <2>1. \A a, b \in BOOLEAN : IsOpen(Fresh(file), file, "rb", 0, a, b)
    BY <1>2, FreshIs
  <2> QED BY <1>1, <2>1, Zenon
<1>5. /\ f' = [f EXCEPT ![ch] = PrgInode] /\ hmode' = [hmode EXCEPT ![ch] = "rb"]
      /\ pos' = [pos EXCEPT ![ch] = 0] /\ log' = [log EXCEPT ![ch] = Fresh(file)]
      /\ prg_consumed'
  BY DEF OpenPrg
<1> HIDE DEF file
<1>6. HandleOn(ch, PrgInode, "rb", file, file)
  BY <1>1, <1>2, <1>3, <1>4, <1>5 DEF HandleOn
<1>7. /\ "rb" \in HostModes /\ PrgInode \in Inodes
      /\ tree' \in [DOMAIN tree' -> (Inodes \cup {Dir}) \ {PrgInode}]
  BY FileNumbers DEF HostModes, HostInv, FileTypes
<1> QED BY <1>2, <1>5, <1>6, <1>7, OpenHolds

\* OPEN
LEMMA CopenHolds ==
    ASSUME HostInv, CallTypes', NEW ch \in Channels, NEW named,
           PoliteOpen(ch, named), Copen(ch, named)
    PROVE  HostInv'
<1> DEFINE tok == IF named = <<>> THEN [kind |-> "empty", mode |-> "R"] ELSE named[1]
<1> DEFINE r == Resolve(tok, FALSE, "PRG")
<1>1. ChannelFor(ch, tok.mode)
  BY DEF Copen, ChannelFor
<1>2. f[ch] # NoFile => hmode[ch] = "rb"
  BY DEF PoliteOpen
<1>3. CASE \/ tok.kind \in {"empty", "bad"}
           \/ tok.kind \in {"dir", "cwd"} /\ ~Writes(ch, tok.mode)
  <2>1. UNCHANGED <<tree, data, f, hmode, pos, log, prg_consumed>>
    BY <1>3 DEF Copen, NamesFile, files
  <2> HIDE DEF tok
  <2> QED BY <1>1, <1>2, <2>1, KeptHandleHolds
<1>4. CASE tok.kind = "prg" /\ PrgFile /\ ~prg_consumed
  <2>1. OpenPrg(ch) /\ UNCHANGED <<tree, data>>
    BY <1>4 DEF Copen, NamesFile, files
  <2> HIDE DEF tok
  <2> QED BY <1>1, <1>4, <2>1, OpenPrgHolds
<1>5. CASE NamesFile(ch, tok)
  <2>1. prg_consumed' = prg_consumed
    BY <1>5 DEF Copen, NamesFile
  <2>2. \/ UNCHANGED <<tree, data, f, hmode, pos, log>>
        \/ CanOpen(ch, tok, r) /\ OpenAt(ch, tok, r)
        \/ /\ f' = [f EXCEPT ![ch] = NoFile] /\ log' = [log EXCEPT ![ch] = Fresh(<<>>)]
           /\ UNCHANGED <<tree, data, hmode, pos>>
    BY <1>5 DEF Copen, NamesFile, files
  <2>3. named # <<>> /\ tok = named[1] /\ NamesFile(ch, tok)
    BY <1>5 DEF NamesFile
  <2>4. /\ \A c \in Channels \ {ch} : f[c] # NoFile =>
              ~(r.path \in DOMAIN tree /\ tree[r.path] = f[c])
        /\ r.path \in DOMAIN tree \/ HasFree
    BY <2>3 DEF PoliteOpen
  <2> HIDE DEF tok, r
  <2> QED BY <1>1, <1>2, <2>1, <2>2, <2>4, KeptHandleHolds, OpenAtHolds, RefusedHolds
<1>6. \/ tok.kind \in {"empty", "bad"}
      \/ tok.kind \in {"dir", "cwd"} /\ ~Writes(ch, tok.mode)
      \/ tok.kind = "prg" /\ PrgFile /\ ~prg_consumed
      \/ NamesFile(ch, tok)
  BY DEF Copen
<1> QED BY <1>3, <1>4, <1>5, <1>6

TreeType == tree \in [DOMAIN tree -> (Inodes \cup {Dir}) \ {PrgInode}]

\* No command gives the -prg file a place in the tree.
LEMMA CommandTree ==
    ASSUME HostInv, NEW toks, Command(toks) PROVE TreeType'
<1>1. tree \in [DOMAIN tree -> (Inodes \cup {Dir}) \ {PrgInode}]
  BY DEF HostInv, FileTypes
<1>2. TreeType
  BY <1>1 DEF TreeType
<1>3. ASSUME tree' = tree PROVE TreeType'
  BY <1>1, <1>3 DEF TreeType
<1>4. ASSUME NEW p, tree' = Without(p) PROVE TreeType'
  BY <1>1, <1>4 DEF Without, TreeType
<1>5. ASSUME NEW p, tree' = Adding(p, Dir) PROVE TreeType'
  <2>1. Dir \in (Inodes \cup {Dir}) \ {PrgInode}
    BY FileNumbers
  <2> QED BY <1>1, <1>5, <2>1 DEF Adding, TreeType
<1>6. ASSUME NEW p, NEW q, tree' = Rename(p, q) PROVE TreeType'
  <2> DEFINE M(y) == Moved(y, p, q)
  <2>1. tree' = [x \in {M(y) : y \in DOMAIN tree} |->
                    tree[CHOOSE y \in DOMAIN tree : M(y) = x]]
    BY <1>6 DEF Rename
  <2> HIDE DEF M
  <2>2. ASSUME NEW x \in {M(y) : y \in DOMAIN tree}
        PROVE  tree[CHOOSE y \in DOMAIN tree : M(y) = x] \in (Inodes \cup {Dir}) \ {PrgInode}
    <3>1. (CHOOSE y \in DOMAIN tree : M(y) = x) \in DOMAIN tree
      BY <2>2
    <3> QED BY <1>1, <3>1
  <2> QED BY <2>1, <2>2 DEF TreeType
<1> DEFINE c == toks[1]
<1>7. \/ tree' = tree \/ \E p : tree' = Without(p) \/ tree' = Adding(p, Dir)
      \/ \E p, q : tree' = Rename(p, q)
  <2>1. CASE toks = <<>>
    BY <2>1 DEF Command
  <2>2. CASE toks # <<>>
    <3>1. \/ tree' = tree \/ ChangeDir(c) \/ MakeDir(c) \/ RemoveDir(c) \/ Scratch(c)
          \/ RenameFile(c) \/ Seek(c) \/ Tell(c) \/ ChangeUnit(c)
      BY <2>2 DEF Command
    <3>2. ASSUME ChangeDir(c) \/ Seek(c) \/ Tell(c) \/ ChangeUnit(c) PROVE tree' = tree
      BY <3>2 DEF ChangeDir, Seek, Tell, ChangeUnit
    <3>3. ASSUME MakeDir(c) PROVE tree' = tree \/ \E p : tree' = Adding(p, Dir)
      BY <3>3 DEF MakeDir
    <3>4. ASSUME RemoveDir(c) \/ Scratch(c) PROVE tree' = tree \/ \E p : tree' = Without(p)
      BY <3>4 DEF RemoveDir, Scratch
    <3>5. ASSUME RenameFile(c) PROVE tree' = tree \/ \E p, q : tree' = Rename(p, q)
      BY <3>5 DEF RenameFile
    <3> QED BY <3>1, <3>2, <3>3, <3>4, <3>5
  <2> QED BY <2>1, <2>2
<1> QED BY <1>3, <1>4, <1>5, <1>6, <1>7

\* Of the commands, only a seek touches a handle, and spoils its log.
LEMMA DosCommandHolds ==
    ASSUME HostInv, CallTypes', NEW toks \in Seq(Commands \cup {CR}), Command(toks),
           UNCHANGED <<data, read, write, f, hmode, prg_consumed>>
    PROVE  HostInv'
<1>1. TreeType'
  BY CommandTree
<1>2. CASE UNCHANGED <<pos, log>>
  BY <1>1, <1>2, HandlesKept DEF TreeType, handles
<1>3. CASE ~ UNCHANGED <<pos, log>>
  <2> DEFINE c == toks[1]
  <2>1. toks # <<>> /\ c # CR /\ c.op = "P" /\ Seek(c)
    BY <1>3 DEF Command, TakesName
  <2>2. c \in Commands
    <3>1. toks[1] \in Commands \cup {CR}
      <4>1. 1 \in 1 .. Len(toks)
        BY <2>1, EmptySeq
      <4> QED BY <4>1, ElementOfSeq
    <3> QED BY <2>1, <3>1
  <2>3. c.n \in Channels /\ c.to \in Nat
    BY <2>1, <2>2, HostAssumption DEF HostAssumption
  <2>4. pos' = [pos EXCEPT ![c.n] = c.to] /\ log' = [log EXCEPT ![c.n].plain = FALSE]
    BY <1>3, <2>1 DEF Seek
  <2> HIDE DEF c
  <2>5. [log[c.n] EXCEPT !.plain = FALSE] \in Logs
    BY <2>3 DEF HostInv, FileTypes, Logs
  <2>6. FileTypes'
    BY <1>1, <2>3, <2>4, <2>5 DEF HostInv, FileTypes, TreeType
  <2>7. HandlesApart'
    BY DEF HostInv, HandlesApart
  <2>8. HandleHolds(c.n)'
    <3>1. ~ log'[c.n].plain
      BY <2>3, <2>4 DEF HostInv, FileTypes, Logs
    <3> QED BY <3>1 DEF HandleHolds, IsOpen
  <2>9. \A d \in Channels \ {c.n} : pos'[d] = pos[d] /\ log'[d] = log[d]
    BY <2>3, <2>4 DEF HostInv, FileTypes
  <2> QED BY <2>3, <2>6, <2>7, <2>8, <2>9, OneHandle
<1> QED BY <1>2, <1>3

\* UNLISTEN
LEMMA UnlistenHolds ==
    ASSUME HostInv, UNLSN PROVE HostInv'
<1> DEFINE named == IF namelen = 0 THEN <<>> ELSE name[channel]
<1> DEFINE toks == IF opening THEN named ELSE cmd
<1>1. /\ channel \in Channels /\ channel' = channel
      /\ name' = IF opening THEN [name EXCEPT ![channel] = named] ELSE name
  BY DEF UNLSN, HostInv, CallTypes
<1>2. /\ name \in [Channels -> {<<>>} \cup {<<t>> : t \in Tokens}]
      /\ name[15] # <<>> => name[15][1] \in Commands
      /\ cmd \in Seq(Commands \cup {CR})
  BY DEF HostInv, CallTypes
<1>3. named \in {<<>>} \cup {<<t>> : t \in Tokens}
  BY <1>1, <1>2
<1>4. cmd' = cmd \/ cmd' = <<>>
  BY DEF UNLSN, cmds, rest
<1>5. CallTypes'
  <2>1. cmd' \in Seq(Commands \cup {CR})
    BY <1>2, <1>4, EmptySeq
  <2>2. name' \in [Channels -> {<<>>} \cup {<<t>> : t \in Tokens}]
    BY <1>1, <1>2, <1>3
  <2>3. 15 \in Channels
    BY HostAssumption DEF HostAssumption
  <2>4. name'[15] = name[15] \/ name'[15] = <<>>
    BY <1>1, <1>2, <2>3
  <2> QED BY <1>1, <1>2, <2>1, <2>2, <2>4 DEF CallTypes
<1>6. CASE opening /\ channel # 15
  <2>1. PoliteOpen(channel, named) /\ Copen(channel, named)
    BY <1>6 DEF UNLSN
  <2> QED BY <1>1, <1>5, <2>1, CopenHolds
<1>7. CASE channel = 15
  <2>1. Command(toks) /\ UNCHANGED <<data, read, write, f, hmode, prg_consumed>>
    BY <1>7 DEF UNLSN
  <2>2. toks \in Seq(Commands \cup {CR})
    <3>1. CASE toks = <<>>
      BY <3>1, EmptySeq
    <3>2. CASE toks # <<>> /\ ~opening
      BY <1>2, <3>2
    <3>3. CASE toks # <<>> /\ opening
      <4>1. toks = name[15] /\ name[15][1] \in Commands
        BY <1>2, <1>7, <3>3
      <4>2. PICK t \in Tokens : toks = <<t>>
        BY <1>3, <3>3
      <4> HIDE DEF toks
      <4>3. t \in Commands
        BY <4>1, <4>2
      <4> QED BY <4>2, <4>3
    <3> QED BY <3>1, <3>2, <3>3
  <2> HIDE DEF toks
  <2> QED BY <1>5, <2>1, <2>2, DosCommandHolds
<1>8. CASE ~opening /\ channel # 15
  <2>1. UNCHANGED <<handles, prg_consumed, tree>>
    BY <1>8 DEF UNLSN, rest, files, handles
  <2>2. UNCHANGED handles /\ prg_consumed' = prg_consumed /\ tree' = tree
    BY <2>1
  <2> QED BY <1>5, <2>2, HandlesKept DEF HostInv, FileTypes
<1> QED BY <1>6, <1>7, <1>8

\* CIOUT and MCIOUT
LEMMA NameByteHolds ==
    ASSUME HostInv, NEW tok \in Tokens, NameByte(tok) PROVE HostInv'
<1>1. /\ UNCHANGED handles /\ prg_consumed' = prg_consumed /\ tree' = tree /\ cmd' = cmd
      /\ channel' = channel /\ name' = [name EXCEPT ![channel] = <<tok>>]
      /\ (channel = 15) = (tok \in Commands)
  BY DEF NameByte, rest, files, cmds, handles
<1>2. CallTypes'
  <2>1. 15 \in Channels
    BY HostAssumption DEF HostAssumption
  <2>2. name' \in [Channels -> {<<>>} \cup {<<t>> : t \in Tokens}]
    BY <1>1 DEF HostInv, CallTypes
  <2>3. name'[15] # <<>> => name'[15][1] \in Commands
    <3>1. CASE channel = 15
      <4>1. name'[15] = <<tok>> /\ tok \in Commands
        BY <1>1, <2>1, <3>1 DEF HostInv, CallTypes
      <4> QED BY <4>1
    <3>2. CASE channel # 15
      BY <1>1, <2>1, <3>2 DEF HostInv, CallTypes
    <3> QED BY <3>1, <3>2
  <2> QED BY <1>1, <2>2, <2>3 DEF HostInv, CallTypes
<1> QED BY <1>1, <1>2, HandlesKept DEF HostInv, FileTypes

\* A byte of a command, which a carriage return may end.
LEMMA CommandByteHolds ==
    ASSUME HostInv, NEW tok \in Commands \cup {CR}, CommandByte(tok) PROVE HostInv'
<1>1. UNCHANGED <<data, read, write, f, hmode, prg_consumed, channel, name>>
  BY DEF CommandByte, bus
<1>2. cmd \in Seq(Commands \cup {CR})
  BY DEF HostInv, CallTypes
<1>3. cmd' = <<>> \/ cmd' = Append(cmd, tok)
  BY DEF CommandByte
<1>4. CallTypes'
  <2>1. cmd' \in Seq(Commands \cup {CR})
    <3>1. Append(cmd, tok) \in Seq(Commands \cup {CR})
      BY <1>2, AppendProperties
    <3> QED BY <1>3, <3>1, EmptySeq
  <2> QED BY <1>1, <2>1 DEF HostInv, CallTypes
<1>5. Command(cmd) \/ UNCHANGED <<tree, pos, log>>
  BY DEF CommandByte
<1>6. CASE Command(cmd)
  BY <1>1, <1>2, <1>4, <1>6, DosCommandHolds
<1>7. CASE UNCHANGED <<tree, pos, log>>
  <2>1. UNCHANGED handles /\ tree' = tree /\ prg_consumed' = prg_consumed
    BY <1>1, <1>7 DEF handles
  <2> QED BY <1>4, <2>1, HandlesKept DEF HostInv, FileTypes
<1> QED BY <1>5, <1>6, <1>7

\* The bytes reach the file that the channel has open, and no other.
LEMMA PutBytesHolds ==
    ASSUME HostInv, NEW ch \in Channels, NEW s \in Cells, PutBytes(ch, s),
           write[ch], f[ch] # NoFile, hmode[ch] = "rb" => s = <<>>
    PROVE  HostInv'
<1> DEFINE file == data[f[ch]]
<1> DEFINE m == hmode[ch]
<1> DEFINE place == IF m = "ab" THEN Len(file) ELSE pos[ch]
<1> DEFINE then == IF s = <<>> THEN file ELSE Overlay(file, place, s)
<1> DEFINE x == [log[ch] EXCEPT !.put = @ \o s, !.plain = @ /\ m # "rw"]
<1>1. /\ f[ch] \in Inodes /\ file \in Cells /\ m \in HostModes /\ pos[ch] \in Nat
      /\ read[ch] \in BOOLEAN /\ log[ch] \in Logs /\ write[ch] = TRUE
  BY DEF HostInv, FileTypes
<1>2. IsOpen(log[ch], file, m, pos[ch], read[ch], TRUE)
  <2>1. HandleHolds(ch)
    BY DEF HostInv
  <2> QED BY <1>1, <2>1 DEF HandleHolds
<1>3. /\ data' = [data EXCEPT ![f[ch]] = then] /\ pos' = [pos EXCEPT ![ch] = place + Len(s)]
      /\ log' = [log EXCEPT ![ch] = x]
      /\ UNCHANGED <<tree, channel, cmd, name, read, write, f, hmode, prg_consumed>>
  BY <1>1 DEF PutBytes, HostInv, FileTypes, bus, cmds
<1>4. /\ x \in Logs /\ then \in Cells /\ place + Len(s) \in Nat
      /\ IsOpen(x, then, m, place + Len(s), read[ch], TRUE)
  <2>1. PutOn(log[ch], file, m, pos[ch], read[ch], s)
    BY <1>1, <1>2, PutHolds
  <2> QED BY <2>1 DEF PutOn
<1> HIDE DEF x, then, place
<1>5. CallTypes'
  BY <1>3 DEF HostInv, CallTypes
<1>6. FileTypes'
  BY <1>1, <1>3, <1>4 DEF HostInv, FileTypes
<1>7. HandlesApart'
  BY <1>3 DEF HostInv, HandlesApart
<1>8. HandleHolds(ch)'
  <2>1. data'[f[ch]] = then /\ pos'[ch] = place + Len(s) /\ log'[ch] = x
    BY <1>1, <1>3 DEF HostInv, FileTypes
  <2> QED BY <1>1, <1>3, <1>4, <2>1 DEF HandleHolds
<1>9. \A c \in Channels \ {ch} :
         /\ pos'[c] = pos[c] /\ log'[c] = log[c]
         /\ f[c] # NoFile => data'[f[c]] = data[f[c]]
  BY <1>3 DEF HostInv, FileTypes, HandlesApart
<1> QED BY <1>3, <1>5, <1>6, <1>7, <1>8, <1>9, OneHandle

\* ACPTR and MACPTR
LEMMA TakeBytesHolds ==
    ASSUME HostInv, NEW ch \in Channels, NEW n \in Nat \ {0}, TakeBytes(ch, n), read[ch],
           UNCHANGED <<tree, data, channel, cmd, write, hmode, prg_consumed>>
    PROVE  HostInv'
<1> DEFINE left == IF f[ch] = NoFile THEN <<>> ELSE Left(data[f[ch]], hmode[ch], pos[ch])
<1> DEFINE take == FirstOnes(left, n)
<1> DEFINE last == take # <<>> /\ take = left
<1> DEFINE e == IF last THEN "eoi" ELSE IF take = <<>> THEN "none" ELSE "no"
<1> DEFINE x == [log[ch] EXCEPT !.seen = @ \o take, !.end = e]
<1>1. /\ pos' = [pos EXCEPT ![ch] = @ + Len(take)]
      /\ log' = [log EXCEPT ![ch].seen = @ \o take, ![ch].end = e]
      /\ IF last THEN Closed(ch) /\ read' = [read EXCEPT ![ch] = FALSE]
                 ELSE UNCHANGED <<name, f, read>>
  <2>1. left = Rest(ch)
    BY DEF Rest, Left, Part
  <2>2. take = SubSeq(Rest(ch), 1, IF n < Len(Rest(ch)) THEN n ELSE Len(Rest(ch)))
    BY <2>1 DEF FirstOnes, Part
  <2> HIDE DEF left, take
  <2> QED BY <2>1, <2>2 DEF TakeBytes
<1>2. /\ log[ch] \in Logs /\ pos[ch] \in Nat /\ hmode[ch] \in HostModes /\ read[ch] = TRUE
      /\ f[ch] \in Inodes \cup {NoFile} /\ write[ch] \in BOOLEAN
      /\ f[ch] # NoFile => data[f[ch]] \in Cells
  BY DEF HostInv, FileTypes
<1>3. /\ x \in Logs /\ pos[ch] + Len(take) \in Nat
      /\ last /\ x.plain => x.seen = x.old
      /\ f[ch] # NoFile => IsOpen(x, data[f[ch]], hmode[ch], pos[ch] + Len(take), TRUE, write[ch])
      /\ f[ch] = NoFile => ~last /\ (x.plain => x.seen = x.old)
  <2>1. HandleHolds(ch)
    BY DEF HostInv
  <2>2. CASE f[ch] # NoFile
    <3> DEFINE file == data[f[ch]]
    <3> DEFINE there == Left(file, hmode[ch], pos[ch])
    <3>1. IsOpen(log[ch], file, hmode[ch], pos[ch], TRUE, write[ch]) /\ file \in Cells
      BY <1>2, <2>1, <2>2 DEF HandleHolds
    <3>2. left = there /\ EndIs(FirstOnes(there, n), there, e)
      BY <2>2 DEF EndIs
    <3>3. TakeOn(log[ch], file, hmode[ch], pos[ch], write[ch], n, e)
      <4> HIDE DEF file, e
      <4> QED BY <1>2, <3>1, <3>2, TakeHolds
    <3> QED BY <2>2, <3>2, <3>3 DEF TakeOn
  <2>3. CASE f[ch] = NoFile
    <3>1. take = <<>>
      <4>1. left = <<>> /\ n \in Nat /\ Len(left) = 0 /\ left \in Cells
        BY <2>3, EmptyCells
      <4> HIDE DEF left
      <4>2. take \in Cells /\ Len(take) = IF n < Len(left) THEN n ELSE Len(left)
        BY <4>1, FirstOnesIs
      <4> HIDE DEF take
      <4>3. Len(take) = 0 /\ take \in Seq(Nat)
        BY <4>1, <4>2 DEF Cells
      <4> QED BY <4>3, EmptySeq
    <3>2. ~last /\ e = "none" /\ Len(take) = 0
      BY <3>1, EmptyCells
    <3> HIDE DEF take, last, e
    <3>3. log[ch].seen \o take = log[ch].seen
      <4>1. log[ch].seen \in Seq(Nat)
        BY <1>2 DEF Logs, Cells
      <4> QED BY <3>1, <4>1, ConcatEmptySeq
    <3>4. /\ x \in Logs /\ x.seen = log[ch].seen /\ x.old = log[ch].old
          /\ x.plain = log[ch].plain
      BY <1>2, <3>2, <3>3 DEF Logs
    <3> HIDE DEF x
    <3> QED BY <1>2, <2>1, <2>3, <3>2, <3>4 DEF HandleHolds
  <2> QED BY <2>2, <2>3
<1>4. log' = [log EXCEPT ![ch] = x]
  BY <1>1, <1>2 DEF HostInv, FileTypes
<1> HIDE DEF left, take, last, e, x
<1>5. CASE last
  <2>1. /\ f' = [f EXCEPT ![ch] = NoFile] /\ name' = [name EXCEPT ![ch] = <<>>]
        /\ read' = [read EXCEPT ![ch] = FALSE]
    BY <1>1, <1>5 DEF Closed
  <2>2. CallTypes'
    BY <2>1 DEF HostInv, CallTypes
  <2>3. FileTypes'
    BY <1>1, <1>3, <1>4, <2>1 DEF HostInv, FileTypes
  <2>4. HandlesApart'
    BY <2>1, FileNumbers DEF HostInv, FileTypes, HandlesApart
  <2>5. HandleHolds(ch)'
    BY <1>3, <1>4, <1>5, <2>1 DEF HostInv, FileTypes, HandleHolds
  <2>6. \A c \in Channels \ {ch} :
           read'[c] = read[c] /\ f'[c] = f[c] /\ pos'[c] = pos[c] /\ log'[c] = log[c]
    BY <1>1, <1>4, <2>1 DEF HostInv, FileTypes
  <2> QED BY <2>2, <2>3, <2>4, <2>5, <2>6, OneHandle
<1>6. CASE ~ last
  <2>1. UNCHANGED <<name, f, read>>
    BY <1>1, <1>6
  <2>2. CallTypes'
    BY <2>1 DEF HostInv, CallTypes
  <2>3. FileTypes'
    BY <1>1, <1>3, <1>4, <2>1 DEF HostInv, FileTypes
  <2>4. HandlesApart'
    BY <2>1 DEF HostInv, HandlesApart
  <2>5. HandleHolds(ch)'
    <3>1. log'[ch] = x /\ pos'[ch] = pos[ch] + Len(take) /\ f'[ch] = f[ch]
      BY <1>1, <1>4, <2>1 DEF HostInv, FileTypes
    <3>2. read'[ch] = TRUE /\ write'[ch] = write[ch] /\ hmode'[ch] = hmode[ch] /\ data' = data
      BY <1>2, <2>1
    <3> QED BY <1>3, <3>1, <3>2 DEF HandleHolds
  <2>6. \A c \in Channels \ {ch} : pos'[c] = pos[c] /\ log'[c] = log[c]
    BY <1>1, <1>4 DEF HostInv, FileTypes
  <2> QED BY <2>1, <2>2, <2>3, <2>4, <2>5, <2>6, OneHandle
<1> QED BY <1>5, <1>6

\* CIOUT and MCIOUT of a file's bytes, of which the host may take fewer.
LEMMA DataBytesHolds ==
    ASSUME HostInv, NEW n \in Nat \ {0}, DataBytes(n) PROVE HostInv'
<1>1. PICK b \in Bytes, taken \in Taken(channel, n) : PutBytes(channel, [k \in 1 .. taken |-> b])
  BY DEF DataBytes
<1>2. write[channel] /\ f[channel] # NoFile /\ channel \in Channels
  BY DEF DataBytes, HostInv, CallTypes
<1>3. taken \in Nat /\ (hmode[channel] = "rb" => taken = 0)
  BY DEF Taken
<1>4. b \in Nat
  BY HostAssumption DEF HostAssumption
<1> DEFINE s == [k \in 1 .. taken |-> b]
<1>5. s \in Cells
  BY <1>3, <1>4 DEF Cells
<1>6. taken = 0 => s = <<>>
  BY <1>5, EmptySeq DEF Cells
<1> HIDE DEF s
<1>7. PutBytes(channel, s)
  BY <1>1 DEF s
<1> QED BY <1>2, <1>3, <1>5, <1>6, <1>7, PutBytesHolds

\* The bytes of one channel, which is the one talking.
LEMMA FileBytesHolds ==
    ASSUME HostInv, NEW n \in Nat \ {0}, FileBytes(n), UNCHANGED <<naming, bus, write, hmode, cmds, prg_consumed>>
    PROVE  HostInv'
<1>1. TakeBytes(channel, n) /\ read[channel] /\ channel \in Channels
  BY DEF FileBytes, HostInv, CallTypes
<1>2. UNCHANGED <<tree, data, channel, cmd, write, hmode, prg_consumed>>
  BY DEF FileBytes, files, bus, cmds
<1> QED BY <1>1, <1>2, TakeBytesHolds

\* A reset closes every channel.
LEMMA ResetHolds == ASSUME HostInv, Reset PROVE HostInv'
<1>1. /\ name' = [c \in Channels |-> <<>>] /\ f' = [c \in Channels |-> NoFile]
      /\ log' = [c \in Channels |-> Fresh(<<>>)]
      /\ UNCHANGED <<tree, data, channel, cmd, read, write, hmode, pos, prg_consumed>>
  BY DEF Reset, files, cmds
<1>2. Fresh(<<>>) \in Logs /\ Fresh(<<>>).seen = Fresh(<<>>).old
  BY FreshIs, EmptyCells
<1>3. CallTypes'
  BY <1>1, HostAssumption DEF HostInv, CallTypes, HostAssumption
<1>4. FileTypes'
  BY <1>1, <1>2 DEF HostInv, FileTypes
<1>5. HandlesApart'
  BY <1>1, FileNumbers DEF HandlesApart
<1>6. \A c \in Channels : HandleHolds(c)'
  BY <1>1, <1>2 DEF HandleHolds
<1> QED BY <1>3, <1>4, <1>5, <1>6 DEF HostInv

\* No channel is open at the start.
LEMMA HostInitHolds == ASSUME Init PROVE HostInv
<1>1. /\ tree = StartTree /\ data = StartData /\ channel = 0
      /\ name = [c \in Channels |-> <<>>] /\ cmd = <<>>
      /\ read = [c \in Channels |-> FALSE] /\ write = [c \in Channels |-> FALSE]
      /\ f = [c \in Channels |-> NoFile]
      /\ hmode = [c \in Channels |-> "rb"] /\ pos = [c \in Channels |-> 0]
      /\ log = [c \in Channels |-> Fresh(<<>>)]
  BY DEF Init
<1>2. /\ 0 \in Channels /\ 15 \in Channels /\ StartData \in [Inodes -> Seq(Nat)]
      /\ StartTree \in [DOMAIN StartTree -> (Inodes \cup {Dir}) \ {PrgInode}]
  BY HostAssumption DEF HostAssumption
<1>3. Fresh(<<>>) \in Logs /\ Fresh(<<>>).seen = Fresh(<<>>).old
  BY FreshIs, EmptyCells
<1>4. CallTypes
  BY <1>1, <1>2, EmptySeq DEF CallTypes
<1>5. FileTypes
  BY <1>1, <1>2, <1>3 DEF FileTypes, HostModes, Cells
<1>6. HandlesApart
  BY <1>1, FileNumbers DEF HandlesApart
<1>7. \A c \in Channels : HandleHolds(c)
  BY <1>1, <1>3 DEF HandleHolds
<1> QED BY <1>4, <1>5, <1>6, <1>7 DEF HostInv

\* Every call keeps the invariant.
LEMMA HostStep == ASSUME HostInv, [Next]_vars PROVE HostInv'
<1>1. ASSUME NEW u \in Units, LISTEN(u) \/ TALK(u) PROVE HostInv'
  <2>1. 0 \in Channels
    BY HostAssumption DEF HostAssumption
  <2> QED BY <1>1, <2>1, TalkHolds
<1>2. ASSUME NEW ch \in Channels, TKSA(ch) PROVE HostInv'
  BY <1>2, TalkHolds
<1>3. ASSUME NEW ch \in Channels, NEW kind, SECOND(kind, ch) PROVE HostInv'
  BY <1>3, CloseHolds
<1>4. ASSUME UNTLK PROVE HostInv'
  <2>1. 0 \in Channels
    BY HostAssumption DEF HostAssumption
  <2> QED BY <1>4, <2>1, TalkHolds
<1>5. ASSUME CIOUT PROVE HostInv'
  <2>1. ASSUME NEW tok \in Tokens, NameByte(tok) PROVE HostInv'
    BY <2>1, NameByteHolds
  <2>2. ASSUME NEW tok \in Commands \cup {CR}, CommandByte(tok) PROVE HostInv'
    BY <2>2, CommandByteHolds
  <2>3. ASSUME DataBytes(1) PROVE HostInv'
    BY <2>3, DataBytesHolds
  <2> QED BY <1>5, <2>1, <2>2, <2>3 DEF CIOUT, Tokens
<1>6. ASSUME MCIOUT PROVE HostInv'
  <2>1. PICK n \in Counts \ {0} : DataBytes(n)
    BY <1>6 DEF MCIOUT
  <2>2. n \in Nat \ {0}
    BY HostAssumption DEF HostAssumption
  <2> QED BY <2>1, <2>2, DataBytesHolds
<1>7. ASSUME ACPTR PROVE HostInv'
  <2>1. UNCHANGED <<naming, bus, write, hmode, cmds, prg_consumed>>
    BY <1>7 DEF ACPTR
  <2>2. CASE ErrorByte \/ ListingByte
    <3>1. UNCHANGED <<handles, prg_consumed, tree, channel, name, cmd>>
      BY <2>1, <2>2 DEF ErrorByte, ListingByte, files, bus, cmds, handles
    <3>2. CallTypes'
      BY <3>1 DEF HostInv, CallTypes
    <3>3. UNCHANGED handles /\ prg_consumed' = prg_consumed /\ tree' = tree
      BY <3>1
    <3> QED BY <3>2, <3>3, HandlesKept DEF HostInv, FileTypes
  <2>3. CASE FileBytes(1)
    BY <2>1, <2>3, FileBytesHolds
  <2> QED BY <1>7, <2>2, <2>3 DEF ACPTR
<1>8. ASSUME MACPTR PROVE HostInv'
  <2>1. UNCHANGED <<naming, bus, write, hmode, cmds, prg_consumed>>
    BY <1>8 DEF MACPTR
  <2>2. PICK n \in Counts : FileBytes(IF n = 0 THEN MaxLen + 1 ELSE n)
    BY <1>8 DEF MACPTR
  <2>3. PICK k \in Nat \ {0} : k = (IF n = 0 THEN MaxLen + 1 ELSE n)
    BY HostAssumption DEF HostAssumption
  <2> QED BY <2>1, <2>2, <2>3, FileBytesHolds
<1>9. ASSUME UNCHANGED vars PROVE HostInv'
  <2>1. UNCHANGED <<handles, prg_consumed, tree, channel, name, cmd>>
    BY <1>9 DEF vars, files, bus, chans, cmds, handles
  <2>2. CallTypes'
    BY <2>1 DEF HostInv, CallTypes
  <2>3. UNCHANGED handles /\ prg_consumed' = prg_consumed /\ tree' = tree
    BY <2>1
  <2> QED BY <2>2, <2>3, HandlesKept DEF HostInv, FileTypes
<1> QED BY <1>1, <1>2, <1>3, <1>4, <1>5, <1>6, <1>7, <1>8, <1>9, UnlistenHolds, ResetHolds DEF Next

\* The invariant says of each channel what the property says.
LEMMA FilesFollow == ASSUME HostInv PROVE FilesAreKept
<1> SUFFICES ASSUME NEW c \in Channels, log[c].plain
             PROVE  /\ IsPrefix(log[c].seen, log[c].old)
                    /\ log[c].end # "no" => log[c].seen = log[c].old
                    /\ f[c] # NoFile /\ hmode[c] \in {"wb", "ab"} =>
                          data[f[c]] = log[c].old \o log[c].put
  BY DEF FilesAreKept, ReadsInOrder, StoredAsWritten
<1> DEFINE l == log[c]
<1>1. l \in Logs /\ l.old \in Cells /\ l.seen \in Cells /\ l.put \in Cells
  BY DEF HostInv, FileTypes, Logs
<1>2. HandleHolds(c) /\ read[c] \in BOOLEAN /\ hmode[c] \in HostModes
  BY DEF HostInv, FileTypes
<1>3. /\ <<>> \o l.put = l.put
      /\ \A a \in Cells : IsPrefix(a, a) /\ IsPrefix(<<>>, a)
  <2>1. <<>> \o l.put = l.put
    BY <1>1, ConcatEmptySeq DEF Cells
  <2>2. ASSUME NEW a \in Seq(Nat) PROVE IsPrefix(a, a) /\ IsPrefix(<<>>, a)
    <3>1. Len(a) \in Nat /\ Len(<<>>) = 0
      BY LenProperties, EmptySeq
    <3>2. SubSeq(<<>>, 1, 0) = <<>> /\ SubSeq(a, 1, 0) = <<>>
      BY SubSeqEmpty
    <3> QED BY <3>1, <3>2 DEF IsPrefix
  <2> QED BY <2>1, <2>2 DEF Cells
<1>4. ASSUME NEW at \in Nat, SoFar(l, at) PROVE IsPrefix(l.seen, l.old)
  <2>1. at <= Len(l.old) /\ l.seen = Part(l.old, 0, at) /\ 0 <= at /\ 0 \in Nat
    BY <1>4 DEF SoFar
  <2>2. Len(l.seen) = at - 0
    BY <1>1, <2>1, PartIs
  <2>3. Len(l.seen) = at
    BY <2>2
  <2>4. SubSeq(l.seen, 1, at) = l.seen
    BY <1>1, <2>3, SubSeqFull DEF Cells
  <2>5. SubSeq(l.old, 1, at) = l.seen
    BY <2>1 DEF Part
  <2> QED BY <2>1, <2>3, <2>4, <2>5 DEF IsPrefix
<1>5. CASE f[c] = NoFile
  <2>1. l.seen = l.old
    BY <1>2, <1>5 DEF HandleHolds
  <2> QED BY <1>1, <1>3, <1>5, <2>1
<1>6. CASE f[c] # NoFile
  <2>1. IsOpen(l, data[f[c]], hmode[c], pos[c], read[c], write[c]) /\ pos[c] \in Nat
    BY <1>2, <1>6 DEF HandleHolds, HostInv, FileTypes
  <2> QED BY <1>1, <1>2, <1>3, <1>4, <1>6, <2>1 DEF IsOpen, HostModes, SoFar
<1> QED BY <1>5, <1>6

\* For every tree, every file and every order of a guest's calls, on any number
\* of channels: what a channel read is the file from its start, to its end if the
\* guest was told so, and a file written holds what the host took, in order
\* (ACPTR, MACPTR, CIOUT, MCIOUT, copen and cclose of ieee.c).
THEOREM FilesCorrect == Spec => []FilesAreKept
<1>1. Spec => []HostInv
  BY HostInitHolds, HostStep, PTL DEF Spec
<1> QED BY <1>1, FilesFollow, PTL

-----------------------------------------------------------------------------
(* The host file system: the listing. *)

\* The first of some entries comes before each of the others.
LEMMA FirstIs ==
    ASSUME NEW S \in SUBSET Entries, S # {}
    PROVE  /\ FirstOf(S) \in S /\ \A n \in Entries : Order(n) \in Nat
           /\ \A n \in S : n # FirstOf(S) => Order(n) > Order(FirstOf(S))
<1>1. \A n \in Entries : Order(n) \in Nat /\ Names[Order(n)] = n
  <2> SUFFICES ASSUME NEW n \in Entries PROVE Order(n) \in Nat /\ Names[Order(n)] = n
    OBVIOUS
  <2>1. \E k \in DOMAIN Names : Names[k] = n
    BY DEF Entries, ToSet
  <2>2. Order(n) \in DOMAIN Names /\ Names[Order(n)] = n
    BY <2>1 DEF Order
  <2>3. DOMAIN Names \subseteq Nat
    BY HostAssumption DEF HostAssumption
  <2> QED BY <2>2, <2>3
<1> DEFINE T == {Order(n) : n \in S}
<1>2. T \subseteq Nat /\ T # {}
  BY <1>1
<1>3. PICK k \in T : \A j \in T : k <= j
  <2> HIDE DEF T
  <2> QED BY <1>2, LeastElement
<1>4. PICK m \in S : \A o \in S : Order(m) <= Order(o)
  BY <1>3
<1>5. FirstOf(S) \in S /\ \A o \in S : Order(FirstOf(S)) <= Order(o)
  BY <1>4 DEF FirstOf
<1>6. ASSUME NEW n \in S, n # FirstOf(S) PROVE Order(n) > Order(FirstOf(S))
  <2>1. FirstOf(S) \in Entries /\ n \in Entries
    BY <1>5
  <2>2. Order(n) # Order(FirstOf(S))
    BY <1>1, <1>6, <2>1
  <2>3. Order(n) \in Nat /\ Order(FirstOf(S)) \in Nat /\ Order(FirstOf(S)) <= Order(n)
    BY <1>1, <1>5, <2>1
  <2> QED BY <2>2, <2>3
<1> QED BY <1>1, <1>5, <1>6

\* One more entry told.
LEMMA TellOne ==
    ASSUME NEW told \in Seq(Entries), IsInjective(told), NEW n \in Entries, n \notin ToSet(told)
    PROVE  /\ told \o <<n>> \in Seq(Entries) /\ IsInjective(told \o <<n>>)
           /\ ToSet(told \o <<n>>) = ToSet(told) \cup {n}
<1> DEFINE more == told \o <<n>>
<1>1. PICK k \in Nat : k = Len(told) /\ DOMAIN told = 1 .. k
  BY LenProperties
<1>2. /\ more \in Seq(Entries) /\ Len(more) = k + 1 /\ DOMAIN more = 1 .. k + 1
      /\ \A i \in 1 .. k : more[i] = told[i]
      /\ more[k + 1] = n
  <2>1. <<n>> \in Seq(Entries) /\ Len(<<n>>) = 1 /\ <<n>>[1] = n
    OBVIOUS
  <2>2. PICK one : one = <<n>>
    OBVIOUS
  <2>3. one \in Seq(Entries) /\ Len(one) = 1 /\ one[1] = n
    BY <2>1, <2>2
  <2>4. /\ told \o one \in Seq(Entries) /\ Len(told \o one) = Len(told) + Len(one)
        /\ \A i \in 1 .. Len(told) + Len(one) :
              (told \o one)[i] = IF i <= Len(told) THEN told[i] ELSE one[i - Len(told)]
    BY <2>3, ConcatProperties
  <2>5. Len(told) + Len(one) = k + 1
    BY <1>1, <2>3
  <2>6. \A i \in 1 .. k + 1 : (told \o one)[i] = IF i <= k THEN told[i] ELSE one[i - k]
    BY <1>1, <2>4, <2>5
  <2>7. ASSUME NEW i \in 1 .. k PROVE (told \o one)[i] = told[i]
    <3>1. i \in 1 .. k + 1 /\ i <= k
      OBVIOUS
    <3> QED BY <2>6, <3>1
  <2>8. (told \o one)[k + 1] = n
    <3>1. k + 1 \in 1 .. k + 1 /\ ~(k + 1 <= k) /\ (k + 1) - k = 1
      OBVIOUS
    <3> QED BY <2>3, <2>6, <3>1
  <2>9. more = told \o one
    BY <2>2
  <2>10. DOMAIN (told \o one) = 1 .. k + 1
    BY <2>4, <2>5, LenProperties
  <2> QED BY <2>4, <2>5, <2>7, <2>8, <2>9, <2>10
<1> HIDE DEF more
<1>3. ToSet(more) = ToSet(told) \cup {n}
  BY <1>1, <1>2 DEF ToSet
<1>4. \A i \in 1 .. k : told[i] # n
  BY <1>1 DEF ToSet
<1>5. IsInjective(more)
  BY <1>1, <1>2, <1>4 DEF IsInjective
<1> QED BY <1>2, <1>3, <1>5 DEF more

ListType(d) ==
    d \in [chunk : Seq(Entries), pos : {0, 1}, eof : BOOLEAN, left : SUBSET Entries,
           type : {d.type}, listed : Seq(Entries), whole : SUBSET Entries, clean : BOOLEAN]

\* What has been put in the buffer so far.
Told(d) == IF d.pos = 0 THEN d.listed \o d.chunk ELSE d.listed

Remaining == {n \in dirlist.left : Shown(n)}

\* What has been told and what remains make the whole, each once; what is left
\* is still there, and at the end nothing remains.
ListHolds ==
    /\ IsInjective(Told(dirlist))
    /\ ToSet(Told(dirlist)) \cup Remaining = dirlist.whole
    /\ ToSet(Told(dirlist)) \cap dirlist.left = {}
    /\ \A n \in dirlist.left : Append(hostfscwd, n) \in DOMAIN tree
    /\ dirlist.eof => Remaining = {}

ListInv == ListType(dirlist) /\ (dirlist.clean => ListHolds)

\* At the end, the whole has been told.
LEMMA ListFollows == ASSUME ListInv PROVE ListingIsWhole
  BY DEF ListInv, ListHolds, ListingIsWhole, Told

\* Steps that add to the tree, and those that spoil the listing.
LEMMA ListKept ==
    ASSUME ListInv, NEW x \in BOOLEAN, dirlist' = [dirlist EXCEPT !.clean = x],
           x => dirlist.clean /\ OnlyAdded
    PROVE  ListInv'
<1>1. /\ ListType(dirlist)' /\ dirlist'.clean = x
      /\ dirlist'.left = dirlist.left /\ dirlist'.type = dirlist.type
      /\ dirlist'.whole = dirlist.whole /\ dirlist'.eof = dirlist.eof
      /\ dirlist'.pos = dirlist.pos /\ dirlist'.listed = dirlist.listed
      /\ dirlist'.chunk = dirlist.chunk
  BY DEF ListInv, ListType
<1>2. ASSUME x PROVE ListHolds'
  <2>1. ListHolds /\ OnlyAdded
    BY <1>2 DEF ListInv
  <2>2. Told(dirlist)' = Told(dirlist)
    BY <1>1 DEF Told
  <2>3. \A n \in dirlist.left :
          Append(hostfscwd, n) \in DOMAIN tree /\ Append(hostfscwd, n) \in DOMAIN tree'
          /\ tree'[Append(hostfscwd, n)] = tree[Append(hostfscwd, n)]
    BY <2>1 DEF ListHolds, OnlyAdded
  <2>4. \A n \in dirlist.left : Shown(n)' <=> Shown(n)
    BY <1>1, <2>1, <2>3 DEF Shown, OfType, IsDir, IsFile, OnlyAdded
  <2>5. Remaining' = Remaining
    BY <1>1, <2>4 DEF Remaining
  <2>6. hostfscwd' = hostfscwd
    BY <2>1 DEF OnlyAdded
  <2> QED BY <1>1, <2>1, <2>2, <2>3, <2>5, <2>6 DEF ListHolds
<1> QED BY <1>1, <1>2 DEF ListInv

\* A step that is about something else.
LEMMA ListAlone ==
    ASSUME ListInv, UNCHANGED <<tree, hostfscwd, dirlist>> PROVE ListInv'
<1>1. dirlist' = [dirlist EXCEPT !.clean = dirlist.clean] /\ dirlist.clean \in BOOLEAN
  BY DEF ListInv, ListType
<1>2. OnlyAdded
  BY DEF OnlyAdded
<1> QED BY <1>1, <1>2, ListKept

\* The listing opened.
LEMMA ListOpened ==
    ASSUME NEW tok, OpenListing(tok), UNCHANGED <<tree, hostfscwd>> PROVE ListInv'
<1> DEFINE here == {n \in Entries : Append(hostfscwd, n) \in DOMAIN tree}
<1> DEFINE d == [chunk |-> <<>>, pos |-> 0, eof |-> FALSE, left |-> here, type |-> tok.type,
                 listed |-> <<>>, clean |-> TRUE,
                 whole |-> {n \in here : OfType(Append(hostfscwd, n), tok.type)}]
<1>1. dirlist' = PathListing(tok) \/ dirlist' = d
  BY DEF OpenListing, PathListing
<1>2. <<>> \in Seq(Entries)
  BY EmptySeq
<1>3. CASE dirlist' = PathListing(tok)
  BY <1>2, <1>3 DEF PathListing, ListInv, ListType
<1>4. CASE dirlist' = d
  <2>1. ListType(dirlist)'
    BY <1>2, <1>4 DEF ListType
  <2>2. <<>> \o <<>> = <<>> /\ ToSet(<<>>) = {} /\ IsInjective(<<>>)
    <3>1. <<>> \o <<>> = <<>>
      BY <1>2, ConcatEmptySeq
    <3>2. DOMAIN <<>> = {}
      OBVIOUS
    <3>3. ToSet(<<>>) = {} /\ IsInjective(<<>>)
      BY <3>2 DEF ToSet, IsInjective
    <3> QED BY <3>1, <3>3
  <2>3. Told(dirlist)' = <<>>
    BY <1>4, <2>2 DEF Told
  <2>4. dirlist'.left = here /\ dirlist'.type = tok.type /\ dirlist'.eof = FALSE
        /\ dirlist'.whole = {n \in here : OfType(Append(hostfscwd, n), tok.type)}
    BY <1>4
  <2>5. \A n \in here : Shown(n)' <=> OfType(Append(hostfscwd, n), tok.type)
    BY <2>4 DEF Shown, OfType, IsDir, IsFile
  <2>6. Remaining' = dirlist'.whole
    BY <2>4, <2>5 DEF Remaining
  <2>7. ListHolds'
    BY <2>2, <2>3, <2>4, <2>6 DEF ListHolds
  <2> QED BY <2>1, <2>7 DEF ListInv
<1> QED BY <1>1, <1>3, <1>4

\* A byte of the listing.
LEMMA ListByte ==
    ASSUME ListInv, ListingByte, UNCHANGED <<tree, hostfscwd>> PROVE ListInv'
<1> DEFINE told == Told(dirlist)
<1> DEFINE ok == {n \in dirlist.left : Shown(n)}
<1>1. /\ dirlist.chunk \in Seq(Entries) /\ dirlist.listed \in Seq(Entries)
      /\ dirlist.left \in SUBSET Entries /\ dirlist.eof \in BOOLEAN
      /\ ListType(dirlist) /\ dirlist.clean \in BOOLEAN
  BY DEF ListInv, ListType
<1>2. told \in Seq(Entries)
  <2>1. dirlist.listed \o dirlist.chunk \in Seq(Entries)
    BY <1>1, ConcatProperties
  <2> QED BY <1>1, <2>1 DEF Told
<1>3. dirlist' = IF dirlist.eof THEN [dirlist EXCEPT !.pos = 1, !.listed = told]
                 ELSE [NextChunk EXCEPT !.listed = told]
  BY DEF ListingByte, Told
<1>4. ok \in SUBSET Entries /\ ok = Remaining
  BY <1>1 DEF Remaining
<1>5. <<>> \in Seq(Entries) /\ told \o <<>> = told
  BY <1>2, EmptySeq, ConcatEmptySeq
<1> HIDE DEF told, ok
<1>6. ASSUME ListType(dirlist)', dirlist'.left \subseteq dirlist.left,
             dirlist'.type = dirlist.type, dirlist'.clean = dirlist.clean
      PROVE  /\ \A n \in dirlist'.left : Shown(n)' <=> Shown(n)
             /\ Remaining' = {n \in dirlist'.left : Shown(n)}
  <2>1. \A n \in dirlist'.left : Shown(n)' <=> Shown(n)
    BY <1>6 DEF Shown, OfType, IsDir, IsFile
  <2> QED BY <2>1 DEF Remaining
<1>7. CASE dirlist.eof
  <2>1. /\ dirlist' = [dirlist EXCEPT !.pos = 1, !.listed = told]
    BY <1>3, <1>7
  <2>2. /\ dirlist'.left = dirlist.left /\ dirlist'.type = dirlist.type
        /\ dirlist'.whole = dirlist.whole /\ dirlist'.eof = dirlist.eof
        /\ dirlist'.clean = dirlist.clean /\ dirlist'.pos = 1 /\ dirlist'.listed = told
        /\ dirlist'.chunk = dirlist.chunk
    BY <1>1, <2>1 DEF ListType
  <2>4. ListType(dirlist)'
    BY <1>1, <1>2, <2>1 DEF ListType
  <2>5. Told(dirlist)' = told
    BY <2>2 DEF Told
  <2>3. Remaining' = Remaining
    BY <1>6, <2>2, <2>4 DEF Remaining
  <2> QED BY <2>2, <2>3, <2>4, <2>5 DEF ListInv, ListHolds, told
<1>8. CASE ~dirlist.eof /\ ok = {}
  <2>1. NextChunk = LastChunk
    BY <1>8 DEF NextChunk, ok
  <2>2. dirlist' = [dirlist EXCEPT !.chunk = <<>>, !.pos = 0, !.eof = TRUE, !.listed = told]
    BY <1>1, <1>3, <1>8, <2>1 DEF LastChunk, ListType
  <2>3. /\ ListType(dirlist)' /\ Told(dirlist)' = told
        /\ dirlist'.left = dirlist.left /\ dirlist'.type = dirlist.type
        /\ dirlist'.whole = dirlist.whole /\ dirlist'.clean = dirlist.clean
    BY <1>1, <1>2, <1>5, <2>2 DEF ListType, Told
  <2>4. Remaining' = Remaining
    BY <1>6, <2>3 DEF Remaining
  <2> QED BY <1>4, <1>8, <2>3, <2>4 DEF ListInv, ListHolds, told
<1>9. CASE ~dirlist.eof /\ ok # {}
  <2>1. PICK n : n = FirstOf(ok)
    OBVIOUS
  <2>2. n \in ok /\ \A o \in ok : o # n => Order(o) > Order(n)
    BY <1>4, <1>9, <2>1, FirstIs
  <2>3. PICK after : after = {o \in dirlist.left : Order(o) > Order(n)}
    OBVIOUS
  <2>4. NextChunk = [dirlist EXCEPT !.chunk = <<n>>, !.pos = 0, !.left = after]
    BY <1>9, <2>1, <2>3 DEF NextChunk, ok
  <2>5. dirlist' = [dirlist EXCEPT !.chunk = <<n>>, !.pos = 0, !.left = after, !.listed = told]
    BY <1>1, <1>3, <1>9, <2>4 DEF ListType
  <2>6. n \in Entries /\ <<n>> \in Seq(Entries) /\ after \subseteq dirlist.left
    BY <1>4, <2>2, <2>3
  <2>7. /\ ListType(dirlist)' /\ Told(dirlist)' = told \o <<n>>
        /\ dirlist'.left = after /\ dirlist'.type = dirlist.type
        /\ dirlist'.whole = dirlist.whole /\ dirlist'.clean = dirlist.clean
        /\ dirlist'.eof = FALSE
    BY <1>1, <1>2, <1>9, <2>5, <2>6 DEF ListType, Told
  <2>8. Remaining' = {o \in after : Shown(o)}
    BY <1>6, <2>6, <2>7
  <2>9. Remaining = {n} \cup Remaining'
    <3>1. ok = {o \in dirlist.left : Shown(o)}
      BY DEF ok
    <3>2. ASSUME NEW o \in ok, o # n PROVE o \in Remaining'
      BY <2>2, <2>3, <2>8, <3>1, <3>2
    <3>3. Remaining' \subseteq ok
      BY <2>3, <2>8, <3>1
    <3> QED BY <1>4, <2>2, <3>2, <3>3
  <2>10. n \notin after
    <3>1. ~(Order(n) > Order(n))
      <4>1. \A i \in Nat : ~(i > i)
        OBVIOUS
      <4>2. Order(n) \in Nat
        BY <2>6, FirstIs
      <4> QED BY <4>1, <4>2
    <3> QED BY <2>3, <3>1
  <2>11. ASSUME dirlist.clean PROVE ListHolds'
    <3>1. /\ IsInjective(told) /\ ToSet(told) \cup Remaining = dirlist.whole
          /\ ToSet(told) \cap dirlist.left = {}
          /\ \A o \in dirlist.left : Append(hostfscwd, o) \in DOMAIN tree
      BY <2>11 DEF ListInv, ListHolds, told
    <3>2. n \in dirlist.left /\ n \notin ToSet(told)
      BY <2>2, <3>1 DEF ok
    <3>3. IsInjective(told \o <<n>>) /\ ToSet(told \o <<n>>) = ToSet(told) \cup {n}
      BY <1>2, <2>6, <3>1, <3>2, TellOne
    <3>4. PICK more : more = told \o <<n>>
      OBVIOUS
    <3>5. IsInjective(more) /\ ToSet(more) = ToSet(told) \cup {n} /\ Told(dirlist)' = more
      BY <2>7, <3>3, <3>4
    <3> QED BY <2>6, <2>7, <2>9, <2>10, <3>1, <3>5 DEF ListHolds
  <2> QED BY <2>7, <2>11 DEF ListInv
<1> QED BY <1>1, <1>7, <1>8, <1>9

\* The tree with one more entry.
LEMMA EntryAdded ==
    ASSUME NEW p, NEW i, p \notin DOMAIN tree, tree' = Adding(p, i), hostfscwd' = hostfscwd
    PROVE  OnlyAdded
  BY DEF Adding, OnlyAdded

\* OPEN
LEMMA ListCopen ==
    ASSUME ListInv, NEW ch, NEW named, Copen(ch, named), hostfscwd' = hostfscwd
    PROVE  ListInv'
<1>1. UNCHANGED <<tree, dirlist>> \/ (UNCHANGED dirlist /\ \E tok, r : OpenAt(ch, tok, r))
      \/ \E tok : OpenListing(tok) /\ UNCHANGED tree
  BY DEF Copen, files
<1>2. ASSUME NEW tok, NEW r, OpenAt(ch, tok, r) PROVE OnlyAdded
  <2>1. tree' = tree \/ \E i : r.path \notin DOMAIN tree /\ tree' = Adding(r.path, i)
    BY <1>2 DEF OpenAt
  <2>2. CASE tree' = tree
    BY <2>2 DEF OnlyAdded
  <2> QED BY <2>1, <2>2, EntryAdded
<1>3. ASSUME UNCHANGED dirlist, OnlyAdded PROVE ListInv'
  <2>1. dirlist' = [dirlist EXCEPT !.clean = dirlist.clean] /\ dirlist.clean \in BOOLEAN
    BY <1>3 DEF ListInv, ListType
  <2> QED BY <1>3, <2>1, ListKept
<1> QED BY <1>1, <1>2, <1>3, ListAlone, ListOpened

\* A command, which may add to the tree or spoil the listing.
LEMMA ListCommand ==
    ASSUME ListInv, NEW toks, Command(toks) PROVE ListInv'
<1>1. CASE toks = <<>>
  <2>1. UNCHANGED <<tree, hostfscwd, dirlist>>
    BY <1>1 DEF Command, naming
  <2> QED BY <2>1, ListAlone
<1>2. CASE toks # <<>>
  <2>1. dirlist' = [dirlist EXCEPT !.clean = @ /\ OnlyAdded]
    BY <1>2 DEF Command
  <2>2. PICK x \in BOOLEAN : x <=> dirlist.clean /\ OnlyAdded
    BY Zenon
  <2>3. dirlist' = [dirlist EXCEPT !.clean = x]
    BY <2>1, <2>2 DEF ListInv, ListType
  <2> QED BY <2>2, <2>3, ListKept
<1> QED BY <1>1, <1>2

\* A reset, which changes to the root.
LEMMA ListReset == ASSUME ListInv, Reset PROVE ListInv'
<1>1. /\ dirlist' = [dirlist EXCEPT !.clean = @ /\ hostfscwd = <<>>]
      /\ hostfscwd' = <<>> /\ tree' = tree
  BY DEF Reset, files
<1>2. PICK x \in BOOLEAN : x <=> dirlist.clean /\ hostfscwd = <<>>
  BY Zenon
<1>3. dirlist' = [dirlist EXCEPT !.clean = x]
  BY <1>1, <1>2 DEF ListInv, ListType
<1>4. x => dirlist.clean /\ OnlyAdded
  BY <1>1, <1>2 DEF OnlyAdded
<1> QED BY <1>3, <1>4, ListKept

\* No listing has been opened at the start.
LEMMA ListInitHolds == ASSUME Init PROVE ListInv
<1>1. dirlist = PathListing([type |-> ""]) /\ <<>> \in Seq(Entries)
  BY EmptySeq DEF Init
<1> QED BY <1>1 DEF PathListing, ListInv, ListType

\* Every call keeps the invariant.
LEMMA ListStep == ASSUME ListInv, [Next]_vars PROVE ListInv'
<1>1. ASSUME NEW u, LISTEN(u) \/ TALK(u) PROVE ListInv'
  BY <1>1, ListAlone DEF LISTEN, TALK, rest, files, naming
<1>2. ASSUME NEW ch, TKSA(ch) PROVE ListInv'
  BY <1>2, ListAlone DEF TKSA, rest, files, naming
<1>3. ASSUME NEW kind, NEW ch, SECOND(kind, ch) PROVE ListInv'
  BY <1>3, ListAlone DEF SECOND, rest, files, naming
<1>4. ASSUME UNTLK PROVE ListInv'
  BY <1>4, ListAlone DEF UNTLK, rest, files, naming
<1>5. ASSUME UNLSN PROVE ListInv'
  <2>1. \/ \E named : Copen(channel, named) /\ UNCHANGED naming
        \/ \E toks : Command(toks)
        \/ UNCHANGED rest
    BY <1>5 DEF UNLSN
  <2>2. CASE \E named : Copen(channel, named) /\ UNCHANGED naming
    BY <2>2, ListCopen DEF naming
  <2>3. CASE UNCHANGED rest
    BY <2>3, ListAlone DEF rest, files, naming
  <2> QED BY <2>1, <2>2, <2>3, ListCommand
<1>6. ASSUME CIOUT PROVE ListInv'
  <2>1. \/ \E tok : NameByte(tok)
        \/ \E tok : CommandByte(tok)
        \/ DataBytes(1)
    BY <1>6 DEF CIOUT
  <2>2. ASSUME NEW tok, NameByte(tok) PROVE ListInv'
    BY <2>2, ListAlone DEF NameByte, rest, files, naming
  <2>3. ASSUME NEW tok, CommandByte(tok) PROVE ListInv'
    <3>1. Command(cmd) \/ UNCHANGED <<tree, naming, dirlist>>
      BY <2>3 DEF CommandByte
    <3> QED BY <3>1, ListCommand, ListAlone DEF naming
  <2>4. ASSUME DataBytes(1) PROVE ListInv'
    BY <2>4, ListAlone DEF DataBytes, PutBytes, naming
  <2> QED BY <2>1, <2>2, <2>3, <2>4
<1>7. ASSUME MCIOUT PROVE ListInv'
  BY <1>7, ListAlone DEF MCIOUT, DataBytes, PutBytes, naming
<1>8. ASSUME ACPTR PROVE ListInv'
  <2>1. UNCHANGED hostfscwd
    BY <1>8 DEF ACPTR, naming
  <2>2. CASE ErrorByte \/ FileBytes(1)
    BY <2>1, <2>2, ListAlone DEF ErrorByte, FileBytes, files
  <2>3. CASE ListingByte
    <3>1. UNCHANGED tree
      BY <2>3 DEF ListingByte, files
    <3> QED BY <2>1, <2>3, <3>1, ListByte
  <2> QED BY <1>8, <2>2, <2>3 DEF ACPTR
<1>9. ASSUME MACPTR PROVE ListInv'
  BY <1>9, ListAlone DEF MACPTR, FileBytes, files, naming
<1>10. ASSUME UNCHANGED vars PROVE ListInv'
  BY <1>10, ListAlone DEF vars, files, naming
<1> QED BY <1>1, <1>2, <1>3, <1>4, <1>5, <1>6, <1>7, <1>8, <1>9, <1>10, ListReset DEF Next

\* For every directory, of any number of entries, and every order of a guest's
\* calls: a listing read to its end shows each entry asked for once
\* (create_directory_listing and continue_directory_listing of ieee.c).
THEOREM ListingCorrect == Spec => []ListingIsWhole
<1>1. Spec => []ListInv
  BY ListInitHolds, ListStep, PTL DEF Spec
<1> QED BY <1>1, ListFollows, PTL
=============================================================================
