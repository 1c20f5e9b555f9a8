------------------------------ MODULE SvodProofs ------------------------------
(***************************************************************************)
(* Proofs about the folder iso2svod leaves behind, for any geometry, any   *)
(* set of images and any number of processes that fail or are killed: what *)
(* is in the files, what their header counts, what a reader gets of them,  *)
(* and that iso2svod implements the abstract package.                      *)
(***************************************************************************)
EXTENDS SvodProperties, FiniteSetTheorems, SequenceTheorems, TLAPS

-------------------------------------------------------------------------------
(***************************************************************************)
(* The arithmetic of SvodLayout: what the rounded-up divisions of          *)
(* calcDataFileSizes count, how full each block and file is, and that one  *)
(* turn of writeIsoBody's loop fills a block as counted.                   *)
(***************************************************************************)

(* Blocks and files are counted from the start of the image: block g is    *)
(* the one that units g * UnitsPerBlock and up are in.                     *)
BlockIndex(f, b) == (f - 1) * BlocksPerFile + (b - 1)

(* Units of block g, and blocks of file f. *)
Fill(s, g) ==
  IF g + 1 < DataBlocks(s) THEN UnitsPerBlock ELSE DataUnits(s) - g * UnitsPerBlock
BlocksIn(s, f) ==
  IF f < DataFiles(s) THEN BlocksPerFile
  ELSE DataBlocks(s) - (f - 1) * BlocksPerFile

(* Sectors not yet read after d blocks, and units in memory before. *)
Left(s, d) ==
  IF d = 0 THEN s
  ELSE IF d < DataBlocks(s) THEN 2 * (DataUnits(s) - d * UnitsPerBlock) ELSE 0
Ahead(d) == IF d = 0 THEN 1 ELSE 0

Sizes == {s \in Nat : s > 0 /\ s % 2 = 0}

-------------------------------------------------------------------------------
(* Division with a remainder, and that it is unique. *)
LEMMA Division ==
  ASSUME NEW x \in Int, NEW n \in Nat \ {0}
  PROVE  x = n * (x \div n) + (x % n) /\ x % n \in 0..(n - 1) /\ x \div n \in Int
OBVIOUS

(* Quotient and remainder are the only ones. *)
LEMMA DivisionUnique ==
  ASSUME NEW n \in Nat \ {0}, NEW q \in Int, NEW r \in 0..(n - 1)
  PROVE  (q * n + r) \div n = q /\ (q * n + r) % n = r
OBVIOUS

(* A product with a positive factor grows with the other. *)
LEMMA Scaled ==
  ASSUME NEW x \in Int, NEW y \in Int, NEW n \in Nat \ {0}
  PROVE  /\ x * n \in Int /\ (x + 1) * n = x * n + n
         /\ x < y <=> x * n < y * n
         /\ x < y => x * n + n <= y * n
OBVIOUS

(* Division by a product. *)
LEMMA DivisionTwice ==
  ASSUME NEW k \in Nat, NEW m \in Nat \ {0}, NEW n \in Nat \ {0}
  PROVE  (k \div m) \div n = k \div (m * n)
<1> DEFINE q == k \div m
           r == k % m
           p == q \div n
           s == q % n
<1>1. k = m * q + r /\ r \in 0..(m - 1) /\ q \in Int
  BY Division
<1>2. q = n * p + s /\ s \in 0..(n - 1) /\ p \in Int
  BY <1>1, Division
<1> HIDE DEF q, r, p, s
<1>3. k = p * (m * n) + (m * s + r)
  BY <1>1, <1>2
<1>4. m * s + r \in 0..(m * n - 1)
  BY <1>1, <1>2
<1>5. m * n \in Nat \ {0}
  OBVIOUS
<1>6. k \div (m * n) = p
  BY <1>2, <1>3, <1>4, <1>5, DivisionUnique
<1> QED BY <1>6 DEF p, q

(* What lies below a rounded-up quotient. *)
LEMMA CeilDivBelow ==
  ASSUME NEW x \in Nat, NEW n \in Nat \ {0}, NEW g \in Int
  PROVE  CeilDiv(x, n) \in Nat /\ (g < CeilDiv(x, n) <=> g * n < x)
<1> DEFINE q == x \div n
           r == x % n
<1>1. x = q * n + r /\ r \in 0..(n - 1) /\ q \in Int
  BY Division
<1>2. CeilDiv(x, n) = IF r = 0 THEN q ELSE q + 1
  BY <1>1 DEF CeilDiv
<1> HIDE DEF q, r
<1>3. q \in Nat
  BY <1>1
<1>4. CASE r = 0
  <2>1. g < q <=> g * n < q * n
    BY <1>1, Scaled
  <2> QED BY <1>1, <1>2, <1>3, <1>4, <2>1
<1>5. CASE r # 0
  <2>1. g < q + 1 => g * n <= q * n
    BY <1>1, Scaled
  <2>2. ~(g < q + 1) => (q + 1) * n <= g * n
    BY <1>1, Scaled
  <2>3. (q + 1) * n = q * n + n /\ q * n \in Int /\ g * n \in Int
    BY <1>1, Scaled
  <2> QED BY <1>1, <1>2, <1>3, <1>5, <2>1, <2>2, <2>3
<1> QED BY <1>4, <1>5

-------------------------------------------------------------------------------
(* An image of s sectors has s / 2 + 1 units. *)
LEMMA Units ==
  ASSUME NEW s \in Sizes
  PROVE  DataUnits(s) \in Nat /\ DataUnits(s) > 1 /\ s = 2 * (DataUnits(s) - 1)
BY DEF Sizes, DataUnits

(* Counts are positive, and a block or a file is there iff it is needed. *)
LEMMA Counts ==
  ASSUME NEW s \in Sizes
  PROVE  /\ DataBlocks(s) \in Nat \ {0} /\ DataFiles(s) \in Nat \ {0}
         /\ \A g \in Int : g < DataBlocks(s) <=> g * UnitsPerBlock < DataUnits(s)
         /\ \A f \in Int : f < DataFiles(s) <=> f * BlocksPerFile < DataBlocks(s)
<1>1. UnitsPerBlock \in Nat \ {0} /\ BlocksPerFile \in Nat \ {0}
  BY LayoutAssumption
<1>2. DataUnits(s) \in Nat /\ DataUnits(s) > 0
  BY Units
<1>3. /\ DataBlocks(s) \in Nat
      /\ \A g \in Int : g < DataBlocks(s) <=> g * UnitsPerBlock < DataUnits(s)
  BY <1>1, <1>2, CeilDivBelow DEF DataBlocks
<1>4. 0 < DataBlocks(s)
  <2>1. 0 * UnitsPerBlock = 0
    BY <1>1
  <2> QED BY <2>1, <1>2, <1>3
<1>5. /\ DataFiles(s) \in Nat
      /\ \A f \in Int : f < DataFiles(s) <=> f * BlocksPerFile < DataBlocks(s)
  <2>1. DataFiles(s) = CeilDiv(DataBlocks(s), BlocksPerFile)
    BY DEF DataFiles
  <2>2. \A f \in Int : /\ CeilDiv(DataBlocks(s), BlocksPerFile) \in Nat
                       /\ f < CeilDiv(DataBlocks(s), BlocksPerFile)
                            <=> f * BlocksPerFile < DataBlocks(s)
    BY <1>1, <1>3, CeilDivBelow
  <2> QED BY <2>1, <2>2
<1>6. 0 < DataFiles(s)
  <2>1. 0 * BlocksPerFile = 0
    BY <1>1
  <2> QED BY <2>1, <1>4, <1>5
<1> QED BY <1>3, <1>4, <1>5, <1>6

(* Every block has units, and every block but the last is full. *)
LEMMA FillFacts ==
  ASSUME NEW s \in Sizes, NEW g \in 0..(DataBlocks(s) - 1)
  PROVE  /\ Fill(s, g) \in 1..UnitsPerBlock
         /\ Fill(s, g) <= DataUnits(s) - g * UnitsPerBlock
         /\ g + 1 < DataBlocks(s) =>
              Fill(s, g) = UnitsPerBlock /\ (g + 1) * UnitsPerBlock < DataUnits(s)
         /\ g + 1 = DataBlocks(s) => Fill(s, g) = DataUnits(s) - g * UnitsPerBlock
<1>1. /\ UnitsPerBlock \in Nat \ {0} /\ DataUnits(s) \in Nat
      /\ DataBlocks(s) \in Nat \ {0} /\ g \in Int
      /\ g * UnitsPerBlock \in Int /\ (g + 1) * UnitsPerBlock = g * UnitsPerBlock + UnitsPerBlock
  BY LayoutAssumption, Units, Counts, Scaled
<1>2. g * UnitsPerBlock < DataUnits(s)
  BY <1>1, Counts
<1>3. g + 1 < DataBlocks(s) <=> (g + 1) * UnitsPerBlock < DataUnits(s)
  BY <1>1, Counts
<1> QED BY <1>1, <1>2, <1>3 DEF Fill

(* Every file has blocks, and every file but the last is full. *)
LEMMA BlocksInFacts ==
  ASSUME NEW s \in Sizes, NEW f \in 1..DataFiles(s)
  PROVE  /\ BlocksIn(s, f) \in 1..BlocksPerFile
         /\ \A b \in 1..BlocksPerFile : b <= BlocksIn(s, f) <=> BlockIndex(f, b) < DataBlocks(s)
         /\ \A b \in 1..BlocksPerFile : BlockIndex(f, b) \in Nat
<1>1. /\ BlocksPerFile \in Nat \ {0} /\ DataFiles(s) \in Nat /\ DataBlocks(s) \in Nat /\ f \in Int
      /\ f - 1 \in Nat /\ (f - 1) * BlocksPerFile \in Int
      /\ f * BlocksPerFile = (f - 1) * BlocksPerFile + BlocksPerFile
  BY LayoutAssumption, Counts, Scaled
<1>2. (f - 1) * BlocksPerFile < DataBlocks(s)
  <2>1. f - 1 \in Int /\ f - 1 < DataFiles(s)
    BY <1>1
  <2>2. \A k \in Int : k < DataFiles(s) <=> k * BlocksPerFile < DataBlocks(s)
    BY Counts
  <2> QED BY <2>1, <2>2
<1>3. f < DataFiles(s) <=> f * BlocksPerFile < DataBlocks(s)
  BY <1>1, Counts
<1>4. (f - 1) * BlocksPerFile \in Nat
  BY <1>1
<1> QED BY <1>1, <1>2, <1>3, <1>4 DEF BlocksIn, BlockIndex

(* One turn of the loop: what SectorsToRead and FillBlock compute from the *)
(* sectors left behind d blocks is the fill of block d.                    *)
LEMMA FillStep ==
  ASSUME NEW s \in Sizes, NEW d \in 0..(DataBlocks(s) - 1)
  PROVE  LET room == 2 * (UnitsPerBlock - Ahead(d))
             read == IF Left(s, d) >= room THEN room ELSE Left(s, d)
         IN  /\ ((read + 1) \div 2) + Ahead(d) = Fill(s, d)
             /\ Left(s, d) - read = Left(s, d + 1)
             /\ ((s - Left(s, d)) \div 2) + 1 = d * UnitsPerBlock + Ahead(d)
<1> DEFINE U == UnitsPerBlock
           N == DataUnits(s)
           T == DataBlocks(s)
           P == d * UnitsPerBlock
           Q == (d + 1) * UnitsPerBlock
<1>1. /\ U \in Nat /\ U > 1 /\ N \in Nat /\ N > 1 /\ T \in Nat \ {0} /\ d \in Nat
      /\ P \in Int /\ Q = P + U /\ s = 2 * (N - 1)
  BY LayoutAssumption, Units, Counts, Scaled
<1>2. /\ d + 1 < T => Fill(s, d) = U /\ Q < N
      /\ d + 1 = T => Fill(s, d) = N - P
      /\ Fill(s, d) \in 1..U
  BY FillFacts
<1>3. d = 0 => P = 0
  BY <1>1
<1>4. /\ Left(s, d) = IF d = 0 THEN s ELSE 2 * (N - P)
      /\ Left(s, d + 1) = IF d + 1 < T THEN 2 * (N - Q) ELSE 0
  BY <1>1 DEF Left
<1>5. Left(s, d) = 2 * (N - P - Ahead(d))
  BY <1>1, <1>3, <1>4 DEF Ahead
<1>6. ((s - Left(s, d)) \div 2) + 1 = P + Ahead(d)
  <2> HIDE DEF U, N, T, P, Q
  <2> QED BY <1>1, <1>3, <1>5 DEF Ahead
<1> DEFINE room == 2 * (U - Ahead(d))
           read == IF Left(s, d) >= room THEN room ELSE Left(s, d)
<1>7. ((read + 1) \div 2) + Ahead(d) = Fill(s, d) /\ Left(s, d) - read = Left(s, d + 1)
  <2>1. Ahead(d) \in {0, 1}
    BY DEF Ahead
  <2>2. d + 1 < T \/ d + 1 = T
    BY <1>1
  <2> HIDE DEF U, N, T, P, Q
  <2>3. read = 2 * (Fill(s, d) - Ahead(d))
    BY <1>1, <1>2, <1>5, <2>1, <2>2
  <2> HIDE DEF read
  <2>4. Fill(s, d) \in Int
    BY <1>1, <1>2
  <2>5. ((read + 1) \div 2) + Ahead(d) = Fill(s, d)
    BY <2>1, <2>3, <2>4
  <2>6. Left(s, d) - read = Left(s, d + 1)
    BY <1>1, <1>2, <1>4, <1>5, <2>1, <2>2, <2>3
  <2> QED BY <2>5, <2>6
<1> QED BY <1>6, <1>7

(* The number of sectors left tells whether blocks are left. *)
LEMMA LeftFacts ==
  ASSUME NEW s \in Sizes, NEW d \in 0..DataBlocks(s)
  PROVE  Left(s, d) \in 0..s /\ (Left(s, d) = 0 <=> d = DataBlocks(s))
<1>1. /\ UnitsPerBlock \in Nat /\ DataUnits(s) \in Nat /\ DataUnits(s) > 1 /\ s = 2 * (DataUnits(s) - 1)
      /\ DataBlocks(s) \in Nat \ {0} /\ d \in Nat /\ s \in Nat
      /\ d * UnitsPerBlock \in Int /\ UnitsPerBlock > 1
  BY LayoutAssumption, Units, Counts, Scaled DEF Sizes
<1>2. CASE d # 0 /\ d < DataBlocks(s)
  <2>1. d * UnitsPerBlock < DataUnits(s)
    BY <1>1, <1>2, Counts
  <2>2. d * UnitsPerBlock >= UnitsPerBlock
    BY <1>1, <1>2
  <2> QED BY <1>1, <1>2, <2>1, <2>2 DEF Left
<1>3. CASE d = 0
  BY <1>1, <1>3 DEF Left
<1>4. CASE d = DataBlocks(s)
  BY <1>1, <1>4 DEF Left
<1> QED BY <1>1, <1>2, <1>3, <1>4

(* The file whose last block is the last one is the last file. *)
LEMMA LastFile ==
  ASSUME NEW s \in Sizes, NEW f \in Nat, NEW b \in 1..BlocksPerFile,
         f * BlocksPerFile + b = DataBlocks(s)
  PROVE  f + 1 = DataFiles(s) /\ BlocksIn(s, f + 1) = b
<1>1. /\ BlocksPerFile \in Nat \ {0} /\ DataFiles(s) \in Nat /\ f * BlocksPerFile \in Int
      /\ (f + 1) * BlocksPerFile = f * BlocksPerFile + BlocksPerFile
  BY LayoutAssumption, Counts, Scaled
<1>2. f < DataFiles(s) <=> f * BlocksPerFile < DataBlocks(s)
  BY Counts
<1>3. f + 1 < DataFiles(s) <=> (f + 1) * BlocksPerFile < DataBlocks(s)
  BY Counts
<1>4. f + 1 = DataFiles(s)
  BY <1>1, <1>2, <1>3
<1> QED BY <1>1, <1>4 DEF BlocksIn

(* A file followed by another block has all its blocks. *)
LEMMA FullFile ==
  ASSUME NEW s \in Sizes, NEW f \in Nat, (f + 1) * BlocksPerFile < DataBlocks(s)
  PROVE  f + 1 \in 1..DataFiles(s) /\ f + 1 < DataFiles(s) /\ BlocksIn(s, f + 1) = BlocksPerFile
<1>1. f + 1 < DataFiles(s) /\ DataFiles(s) \in Nat
  BY Counts
<1> QED BY <1>1 DEF BlocksIn

(* Where a reader looks for unit k, by arithmetic alone, it is. *)
LEMMA UnitPlace ==
  ASSUME NEW s \in Sizes, NEW k \in 0..(DataUnits(s) - 1)
  PROVE  LET f == (k \div (UnitsPerBlock * BlocksPerFile)) + 1
             b == ((k \div UnitsPerBlock) % BlocksPerFile) + 1
             u == (k % UnitsPerBlock) + 1
         IN  /\ f \in 1..DataFiles(s) /\ b \in 1..BlocksIn(s, f)
             /\ BlockIndex(f, b) \in 0..(DataBlocks(s) - 1)
             /\ u \in 1..Fill(s, BlockIndex(f, b))
             /\ BlockIndex(f, b) * UnitsPerBlock + u - 1 = k
<1> DEFINE g == k \div UnitsPerBlock
           f == (k \div (UnitsPerBlock * BlocksPerFile)) + 1
           b == (g % BlocksPerFile) + 1
           u == (k % UnitsPerBlock) + 1
<1>1. /\ UnitsPerBlock \in Nat \ {0} /\ BlocksPerFile \in Nat \ {0} /\ DataUnits(s) \in Nat
      /\ DataBlocks(s) \in Nat /\ DataFiles(s) \in Nat /\ k \in Nat /\ k < DataUnits(s)
  BY LayoutAssumption, Units, Counts
<1>2. k = UnitsPerBlock * g + (u - 1) /\ u - 1 \in 0..(UnitsPerBlock - 1) /\ g \in Int /\ u \in Int
  BY <1>1, Division
<1>3. /\ g = BlocksPerFile * (f - 1) + (b - 1) /\ b - 1 \in 0..(BlocksPerFile - 1)
      /\ f \in Int /\ b \in Int
  <2>1. k \div (UnitsPerBlock * BlocksPerFile) = g \div BlocksPerFile
    BY <1>1, DivisionTwice
  <2>2. /\ g = BlocksPerFile * (g \div BlocksPerFile) + (g % BlocksPerFile)
        /\ g % BlocksPerFile \in 0..(BlocksPerFile - 1) /\ g \div BlocksPerFile \in Int
    BY <1>1, <1>2, Division
  <2>3. f - 1 = g \div BlocksPerFile /\ f \in Int
    BY <2>1, <2>2
  <2>4. b - 1 = g % BlocksPerFile /\ b \in Int
    BY <2>2
  <2> HIDE DEF f, b
  <2> QED BY <2>2, <2>3, <2>4
<1> HIDE DEF g, f, b, u
<1>4. g \in Nat
  BY <1>1, <1>2
<1>5. g * UnitsPerBlock \in Int /\ g * UnitsPerBlock = UnitsPerBlock * g
  BY <1>1, <1>2
<1>6. g < DataBlocks(s)
  <2>1. g * UnitsPerBlock < DataUnits(s)
    BY <1>1, <1>2, <1>5
  <2> QED BY <2>1, <1>2, Counts
<1>7. BlockIndex(f, b) = g
  BY <1>1, <1>3 DEF BlockIndex
<1>8. f \in 1..DataFiles(s)
  <2>1. f - 1 \in Nat
    BY <1>1, <1>3, <1>4
  <2>2. (f - 1) * BlocksPerFile < DataBlocks(s)
    BY <1>1, <1>3, <1>6
  <2>3. f - 1 < DataFiles(s)
    BY <2>1, <2>2, Counts
  <2> QED BY <1>1, <1>3, <2>1, <2>3
<1>9. b \in 1..BlocksIn(s, f)
  <2>1. b \in 1..BlocksPerFile
    BY <1>1, <1>3
  <2>2. BlocksIn(s, f) \in Nat /\ (b <= BlocksIn(s, f) <=> BlockIndex(f, b) < DataBlocks(s))
    BY <1>8, <2>1, BlocksInFacts
  <2> QED BY <2>1, <2>2, <1>6, <1>7
<1>10. u \in 1..Fill(s, g)
  <2>1. g \in 0..(DataBlocks(s) - 1)
    BY <1>1, <1>4, <1>6
  <2>2. /\ Fill(s, g) \in Nat
        /\ g + 1 < DataBlocks(s) => Fill(s, g) = UnitsPerBlock
        /\ g + 1 = DataBlocks(s) => Fill(s, g) = DataUnits(s) - g * UnitsPerBlock
    BY <2>1, FillFacts
  <2> QED BY <1>1, <1>2, <1>5, <2>1, <2>2
<1>11. BlockIndex(f, b) * UnitsPerBlock + u - 1 = k /\ BlockIndex(f, b) \in 0..(DataBlocks(s) - 1)
  BY <1>1, <1>2, <1>4, <1>5, <1>6, <1>7
<1> QED BY <1>7, <1>8, <1>9, <1>10, <1>11 DEF f, b, u, g

-------------------------------------------------------------------------------
(***************************************************************************)
(* The folder: the inductive invariant, in its two parts.                  *)
(***************************************************************************)

(* Faults the program acts on, or that leave no header: the results of all *)
(* other calls are not looked at.                                          *)
NoFaultIgnored == Faults \cap {"headread", "write", "rewrite", "reopen"} = {}

(* NumberOfDataBlocks has 24 bits. *)
ImagesFit == \A s \in ImageSizes : s \div 2 < 16777216

-------------------------------------------------------------------------------
(* What a unit of hashes, a block, a table and the header must hold, as    *)
(* functions of the image's size alone.                                    *)
GoodHashes(s, g) ==
  [u \in 1..UnitsPerBlock |->
     IF u <= Fill(s, g) THEN Sha(g * UnitsPerBlock + u - 1) ELSE Blank]
GoodBlock(s, g) ==
  [hashes |-> GoodHashes(s, g),
   data   |-> [u \in 1..Fill(s, g) |-> g * UnitsPerBlock + u - 1]]
GoodEntries(s, f, m) ==
  [b \in 1..BlocksPerFile |->
     IF b <= m THEN Sha(GoodHashes(s, BlockIndex(f, b))) ELSE Blank]
GoodMeta(s, hash) ==
  [DataFiles |-> DataFiles(s), DataFilesSize |-> DataFilesSize(s),
   NumberOfDataBlocks |-> NumberOfDataBlocks(s), FirstFragmentHash |-> hash]

IsSeq(s) == s \in Seq({s[k] : k \in DOMAIN s})

IsFile(file) ==
  /\ file = [table |-> [entries |-> file.table.entries, next |-> file.table.next],
             blocks |-> file.blocks]
  /\ IsSeq(file.blocks)

(* The first m blocks of file f. *)
GoodBlocks(file, s, f, m) ==
  /\ Len(file.blocks) = m
  /\ \A b \in 1..m : file.blocks[b] = GoodBlock(s, BlockIndex(f, b))

GoodFile(file, s, f) ==
  /\ IsFile(file)
  /\ GoodBlocks(file, s, f, BlocksIn(s, f))
  /\ file.table.entries = GoodEntries(s, f, BlocksIn(s, f))

(* The tables of the files from f on are chained, up to the last one. *)
ChainedFrom(fs, f) ==
  /\ \A k \in f..(Len(fs) - 1) : fs[k].table.next = Sha(fs[k + 1].table)
  /\ fs[Len(fs)].table.next = Blank

WholeBody(fs, s) ==
  Len(fs) = DataFiles(s) /\ \A f \in 1..DataFiles(s) : GoodFile(fs[f], s, f)

-------------------------------------------------------------------------------
(* Control: where the process is in the image, whatever its data are. *)

Writing == {"newfile", "fill", "write", "seal", "fix", "dump"}
Body == {"newfile", "fill", "write", "seal"}

(* Blocks filled so far. *)
Done == curFileNum * BlocksPerFile + curBlock

FolderControl ==
  /\ IsSeq(files)
  /\ ~outDir => files = << >> /\ package = NoPackage
  /\ pc \in Writing => outDir /\ package = NoPackage

FreshControl ==
  pc \in {"open", "prepare"} => curFileNum = 0 /\ curBlock = 0 /\ curOff = 1

BodyControl ==
  pc \in Body =>
    /\ Done \in 0..DataBlocks(sectors)
    /\ sectorsRem = Left(sectors, Done)
    /\ Len(files) = IF pc = "newfile" THEN curFileNum ELSE curFileNum + 1
    /\ pc \in {"newfile", "fill"} => Done < DataBlocks(sectors) /\ curOff = Ahead(Done)
    /\ pc \in {"write", "seal"} =>
         curBlock > 0 /\ curOff = 0 /\ sectorsToHash = Fill(sectors, Done - 1)
    /\ pc = "newfile" => curBlock = 0
    /\ pc = "fill" => curBlock < BlocksPerFile
    /\ pc = "seal" => curBlock = BlocksPerFile \/ Done = DataBlocks(sectors)

FixControl ==
  /\ pc \in {"fix", "dump"} => Len(files) = DataFiles(sectors) /\ curFileNum + 1 = DataFiles(sectors)
  /\ pc = "fix" => fixNum \in -1..curFileNum

Control ==
  /\ TypeOK
  /\ pc # "idle" => sectors \in ImageSizes
  /\ FolderControl /\ FreshControl /\ BodyControl /\ FixControl

-------------------------------------------------------------------------------
(* Content: what the files, the buffers and the header hold. *)

MetaContent ==
  /\ pc = "open" => xMeta = ZeroMeta
  /\ pc \in {"prepare", "fix"} \cup Body => xMeta = GoodMeta(sectors, Blank)
  /\ pc = "dump" => xMeta = GoodMeta(sectors, Sha(files[1].table))

BufferContent ==
  /\ pc \in {"open", "prepare", "newfile", "seal"} => datablock = ZeroBlock
  /\ pc = "fill" => datablock = IF Done = 0 THEN [ZeroBlock EXCEPT !.data[1] = 0] ELSE ZeroBlock
  /\ pc = "write" => BlockOnDisk = GoodBlock(sectors, Done - 1)
  /\ pc \in {"fill", "write", "seal"} =>
       lv1hash = [entries |-> GoodEntries(sectors, curFileNum + 1, curBlock), next |-> Blank]

BodyContent ==
  /\ pc \in Body => \A f \in 1..curFileNum :
       GoodFile(files[f], sectors, f) /\ files[f].table.next = Blank
  /\ pc \in {"fill", "write", "seal"} =>
       /\ IsFile(files[Last])
       /\ files[Last].table.next = Blank
       /\ GoodBlocks(files[Last], sectors, Last, IF pc = "write" THEN curBlock - 1 ELSE curBlock)

FixContent ==
  /\ pc \in {"fix", "dump"} => WholeBody(files, sectors)
  /\ pc \in {"open", "prepare"} \cup Body => hashInfo = Blank
  /\ pc = "fix" =>
       /\ ChainedFrom(files, fixNum + 2)
       /\ hashInfo = IF fixNum = curFileNum THEN Blank ELSE Sha(files[fixNum + 2].table)
  /\ pc = "dump" => ChainedFrom(files, 1)

PackageContent ==
  Published =>
    \E s \in ImageSizes :
      /\ package = GoodMeta(s, Sha(files[1].table))
      /\ WholeBody(files, s) /\ ChainedFrom(files, 1)

Content == MetaContent /\ BufferContent /\ BodyContent /\ FixContent /\ PackageContent

-------------------------------------------------------------------------------
(* Sequences of anything. *)
LEMMA SeqFacts ==
  ASSUME NEW s, IsSeq(s)
  PROVE  Len(s) \in Nat /\ DOMAIN s = 1..Len(s)
BY DEF IsSeq

(* The empty file. *)
LEMMA EmptyIsSeq == IsSeq(<< >>) /\ Len(<< >>) = 0
BY DEF IsSeq

(* A function on 1..n is a sequence of n. *)
LEMMA FunctionIsSeq ==
  ASSUME NEW n \in Nat, NEW s, DOMAIN s = 1..n, s = [k \in 1..n |-> s[k]]
  PROVE  IsSeq(s) /\ Len(s) = n
<1> DEFINE S == {s[k] : k \in DOMAIN s}
<1>1. s \in [1..n -> S]
  OBVIOUS
<1> HIDE DEF S
<1>2. s \in Seq(S) /\ Len(s) = n
  BY <1>1
<1> QED BY <1>2 DEF IsSeq, S

(* A sequence over some set is one. *)
LEMMA TypedIsSeq ==
  ASSUME NEW S, NEW s \in Seq(S)
  PROVE  IsSeq(s)
<1>1. Len(s) \in Nat /\ DOMAIN s = 1..Len(s) /\ s = [k \in 1..Len(s) |-> s[k]]
  OBVIOUS
<1> QED BY <1>1, FunctionIsSeq

(* A block more, of whatever kind. *)
LEMMA AppendAny ==
  ASSUME NEW s, IsSeq(s), NEW e
  PROVE  /\ IsSeq(Append(s, e)) /\ Len(Append(s, e)) = Len(s) + 1
         /\ Append(s, e)[Len(s) + 1] = e
         /\ \A k \in 1..Len(s) : Append(s, e)[k] = s[k]
<1> DEFINE S == {s[k] : k \in DOMAIN s} \cup {e}
<1>1. s \in Seq(S) /\ e \in S
  BY DEF IsSeq
<1> HIDE DEF S
<1>2. Append(s, e) \in Seq(S)
  BY <1>1
<1>3. /\ Len(Append(s, e)) = Len(s) + 1
      /\ Append(s, e)[Len(s) + 1] = e
      /\ \A k \in 1..Len(s) : Append(s, e)[k] = s[k]
  BY <1>1
<1>4. IsSeq(Append(s, e))
  BY <1>2, TypedIsSeq
<1> QED BY <1>3, <1>4

(* A block overwritten. *)
LEMMA ExceptAny ==
  ASSUME NEW s, IsSeq(s), NEW j \in 1..Len(s), NEW e
  PROVE  /\ IsSeq([s EXCEPT ![j] = e]) /\ Len([s EXCEPT ![j] = e]) = Len(s)
         /\ [s EXCEPT ![j] = e][j] = e
         /\ \A k \in 1..Len(s) : k # j => [s EXCEPT ![j] = e][k] = s[k]
<1> DEFINE t == [s EXCEPT ![j] = e]
           S == {s[k] : k \in DOMAIN s} \cup {e}
<1>1. s \in Seq(S) /\ e \in S
  BY DEF IsSeq
<1>2. Len(s) \in Nat /\ DOMAIN s = 1..Len(s)
  BY SeqFacts
<1> HIDE DEF S
<1>3. t \in Seq(S) /\ Len(t) = Len(s)
  BY <1>1, <1>2
<1>4. t[j] = e /\ \A k \in 1..Len(s) : k # j => t[k] = s[k]
  BY <1>2
<1>5. IsSeq(t)
  BY <1>3, TypedIsSeq
<1> QED BY <1>3, <1>4, <1>5

(* The first blocks. *)
LEMMA SubSeqAny ==
  ASSUME NEW s, IsSeq(s), NEW n \in 1..Len(s)
  PROVE  SubSeq(s, 1, n) = [k \in 1..n |-> s[k]]
<1> DEFINE S == {s[k] : k \in DOMAIN s}
<1>1. s \in Seq(S)
  BY DEF IsSeq
<1> HIDE DEF S
<1> QED BY <1>1

(* The sizes of the images are sizes. *)
LEMMA ImageSizesTyped == ASSUME NEW s \in ImageSizes PROVE s \in Sizes
BY WriterAssumption DEF Sizes

(* The constants of the layout are positive. *)
LEMMA PositiveLayout ==
  /\ UnitsPerBlock \in Nat \ {0} /\ UnitsPerBlock > 1
  /\ BlocksPerFile \in Nat \ {0} /\ MaxRuns \in Nat
BY LayoutAssumption, WriterAssumption

-------------------------------------------------------------------------------
(* Control is invariant, whatever fails. *)

(* Before the program runs. *)
LEMMA ControlInit == Init => Control
<1> SUFFICES ASSUME Init PROVE Control
  OBVIOUS
<1>1. TypeOK
  <2>1. runs \in 0..MaxRuns /\ curBlock \in 0..BlocksPerFile /\ sectorsToHash \in 0..UnitsPerBlock
    BY PositiveLayout DEF Init
  <2>2. sectors = 0 /\ sectorsRem \in 0..0
    BY DEF Init
  <2>3. outDir \in BOOLEAN
    BY DEF Init
  <2>4. pc = "idle" /\ retVal = "none" /\ curFileNum = 0 /\ curOff = 1 /\ fixNum = 0
    BY DEF Init
  <2> QED BY <2>1, <2>2, <2>3, <2>4 DEF TypeOK
<1>2. FolderControl
  BY EmptyIsSeq DEF Init, FolderControl, Writing
<1> QED BY <1>1, <1>2 DEF Init, Control, FreshControl, BodyControl, FixControl, Body

(* The program is started. *)
LEMMA ControlStart == ASSUME Control, Start PROVE Control'
BY PositiveLayout, ImageSizesTyped
DEF Start, Goto, folder, Control, TypeOK, FolderControl, FreshControl, BodyControl, FixControl,
    Writing, Body, Sizes

(* The image is opened. *)
LEMMA ControlOpen == ASSUME Control, OpenIsoFile PROVE Control'
BY DEF OpenIsoFile, Goto, Exit, folder, body, fix, Control, TypeOK, FolderControl, FreshControl,
    BodyControl, FixControl, Writing, Body

(* A process that ends leaves the folder as it is. *)
LEMMA ControlExit ==
  ASSUME Control, pc' = "idle", UNCHANGED <<folder, runs, sectors, sectorsRem, curFileNum, curBlock,
                                            curOff, sectorsToHash, fixNum>>,
         retVal' \in {"ok", "failed", "killed"}
  PROVE  Control'
BY DEF folder, Control, TypeOK, FolderControl, FreshControl, BodyControl, FixControl, Writing, Body

(* The folders are made. *)
LEMMA ControlPrepare == ASSUME Control, PrepareOutputPath PROVE Control'
<1>1. /\ pc = "prepare" /\ curFileNum = 0 /\ curBlock = 0 /\ curOff = 1 /\ sectors \in ImageSizes
      /\ UNCHANGED <<files, package, runs, sectors, curFileNum, curBlock, curOff, sectorsToHash, fixNum>>
  BY DEF PrepareOutputPath, Control, FreshControl, fix
<1>2. CASE pc' = "idle"
  <2>1. retVal' = "failed" /\ UNCHANGED <<outDir, sectorsRem>>
    BY <1>2 DEF PrepareOutputPath, Goto, Exit
  <2> QED BY <1>1, <1>2, <2>1, ControlExit DEF folder
<1>3. CASE pc' # "idle"
  <2>1. ~outDir /\ outDir' = TRUE /\ sectorsRem' = sectors /\ pc' = "newfile" /\ retVal' = retVal
    BY <1>3 DEF PrepareOutputPath, Goto, Exit
  <2>2. Done' = 0 /\ DataBlocks(sectors) \in Nat \ {0} /\ sectors \in Sizes
    BY <1>1, PositiveLayout, ImageSizesTyped, Counts DEF Done
  <2>3. TypeOK'
    BY <1>1, <2>1, <2>2 DEF Control, TypeOK, Sizes
  <2>4. FolderControl' /\ files = << >>
    BY <1>1, <2>1 DEF Control, FolderControl, Writing
  <2>5. BodyControl'
    BY <1>1, <2>1, <2>2, <2>4 DEF BodyControl, Left, Ahead, Body
  <2> QED BY <1>1, <2>1, <2>3, <2>4, <2>5 DEF Control, FreshControl, FixControl
<1> QED BY <1>2, <1>3

(* A data file is begun. *)
LEMMA ControlNewFile == ASSUME Control, StartNewFile PROVE Control'
<1>1. /\ pc = "newfile" /\ Len(files) = curFileNum /\ curBlock = 0 /\ sectors \in ImageSizes /\ IsSeq(files)
      /\ UNCHANGED <<outDir, package, runs, sectors, sectorsRem, curFileNum, curBlock, curOff,
                     sectorsToHash, fixNum>>
  BY DEF StartNewFile, Control, BodyControl, FolderControl, Body, fix
<1>2. CASE pc' = "idle"
  <2>1. retVal' = "failed" /\ UNCHANGED files
    BY <1>2 DEF StartNewFile, Goto, Exit
  <2> QED BY <1>1, <1>2, <2>1, ControlExit DEF folder
<1>3. CASE pc' # "idle"
  <2>1. /\ files' = Append(files, [table |-> ZeroTable, blocks |-> << >>])
        /\ pc' = "fill" /\ retVal' = retVal
    BY <1>3 DEF StartNewFile, Goto, Exit
  <2>2. IsSeq(files)' /\ Len(files)' = curFileNum + 1
    BY <1>1, <2>1, AppendAny
  <2>3. TypeOK'
    BY <1>1, <2>1 DEF Control, TypeOK
  <2>4. FolderControl'
    BY <1>1, <2>1, <2>2 DEF Control, FolderControl, Writing
  <2>5. BodyControl'
    BY <1>1, <2>1, <2>2, PositiveLayout DEF Control, BodyControl, Body, Done
  <2> QED BY <1>1, <2>1, <2>3, <2>4, <2>5 DEF Control, FreshControl, FixControl
<1> QED BY <1>2, <1>3

(* What FillBlock computes from the sectors left is the fill of the block. *)
LEMMA FillSize ==
  ASSUME Control, pc = "fill"
  PROVE  /\ sectors \in Sizes /\ Done \in 0..(DataBlocks(sectors) - 1) /\ DataBlocks(sectors) \in Nat
         /\ ((SectorsToRead + 1) \div 2) + curOff = Fill(sectors, Done)
         /\ sectorsRem - SectorsToRead = Left(sectors, Done + 1)
         /\ NextUnit = Done * UnitsPerBlock + curOff
         /\ curOff = Ahead(Done)
<1>1. /\ sectors \in Sizes /\ Done \in 0..DataBlocks(sectors) /\ Done < DataBlocks(sectors)
      /\ sectorsRem = Left(sectors, Done) /\ curOff = Ahead(Done)
  BY ImageSizesTyped DEF Control, BodyControl, Body
<1>2. DataBlocks(sectors) \in Nat
  BY <1>1, Counts
<1>3. Done \in 0..(DataBlocks(sectors) - 1)
  BY <1>1, <1>2
<1> QED BY <1>1, <1>2, <1>3, FillStep DEF SectorsToRead, NextUnit

(* A block is read. *)
LEMMA ControlFill == ASSUME Control, FillBlock PROVE Control'
<1>1. /\ pc = "fill" /\ curBlock \in 0..BlocksPerFile /\ curBlock < BlocksPerFile /\ sectors \in ImageSizes
      /\ curFileNum \in Nat /\ Len(files) = curFileNum + 1
      /\ UNCHANGED <<folder, runs, sectors, curFileNum, fixNum>>
  BY DEF FillBlock, Control, BodyControl, TypeOK, Body, fix
<1>2. CASE pc' = "idle"
  <2>1. retVal' = "failed" /\ UNCHANGED <<sectorsToHash, curOff, curBlock, sectorsRem>>
    BY <1>2 DEF FillBlock, Goto, Exit
  <2> QED BY <1>1, <1>2, <2>1, ControlExit
<1>3. CASE pc' # "idle"
  <2>1. /\ sectorsToHash' = ((SectorsToRead + 1) \div 2) + curOff
        /\ curOff' = 0 /\ curBlock' = curBlock + 1 /\ sectorsRem' = sectorsRem - SectorsToRead
        /\ pc' = "write" /\ retVal' = retVal
    BY <1>3 DEF FillBlock, Goto, Exit
  <2>2. /\ sectors \in Sizes /\ Done \in 0..(DataBlocks(sectors) - 1) /\ DataBlocks(sectors) \in Nat
        /\ sectorsToHash' = Fill(sectors, Done) /\ sectorsRem' = Left(sectors, Done + 1)
    BY <1>1, <2>1, FillSize
  <2>3. Done' = Done + 1
    BY <1>1, <2>1, PositiveLayout DEF Done
  <2>4. Fill(sectors, Done) \in 0..UnitsPerBlock /\ Left(sectors, Done + 1) \in 0..sectors
    <3>1. Fill(sectors, Done) \in 1..UnitsPerBlock
      BY <2>2, FillFacts
    <3>2. Done + 1 \in 0..DataBlocks(sectors)
      BY <2>2
    <3>3. Left(sectors, Done + 1) \in 0..sectors
      BY <2>2, <3>2, LeftFacts
    <3> QED BY <3>1, <3>3
  <2>5. TypeOK'
    BY <1>1, <2>1, <2>2, <2>4, PositiveLayout DEF Control, TypeOK, folder
  <2>6. FolderControl'
    BY <1>1, <2>1 DEF Control, FolderControl, Writing, folder
  <2>7. BodyControl'
    BY <1>1, <2>1, <2>2, <2>3 DEF BodyControl, Body, folder
  <2> QED BY <1>1, <2>1, <2>5, <2>6, <2>7 DEF Control, FreshControl, FixControl
<1> QED BY <1>2, <1>3

(* A block is written. *)
LEMMA ControlWrite == ASSUME Control, WriteBlockToFile PROVE Control'
<1>1. /\ pc = "write" /\ IsSeq(files) /\ Len(files) = curFileNum + 1 /\ curFileNum \in Nat
      /\ sectors \in Sizes /\ Done \in 0..DataBlocks(sectors) /\ sectorsRem = Left(sectors, Done)
      /\ curBlock \in 0..BlocksPerFile /\ curBlock > 0
      /\ UNCHANGED <<outDir, package, retVal, runs, sectors, sectorsRem, curFileNum, curBlock, curOff,
                     sectorsToHash, fixNum>>
  BY ImageSizesTyped DEF WriteBlockToFile, Control, BodyControl, FolderControl, TypeOK, Body, fix
<1>2. IsSeq(files)' /\ Len(files)' = Len(files)
  <2>1. PICK x : files' = [files EXCEPT ![Last].blocks = x]
    BY DEF WriteBlockToFile
  <2>2. files' = [files EXCEPT ![Last] = [files[Last] EXCEPT !.blocks = x]]
    BY <2>1
  <2>3. Last \in 1..Len(files)
    BY <1>1 DEF Last
  <2> QED BY <1>1, <2>2, <2>3, ExceptAny
<1>3. pc' = IF curBlock = BlocksPerFile \/ sectorsRem = 0 THEN "seal" ELSE "fill"
  BY DEF WriteBlockToFile, Goto
<1>4. sectorsRem = 0 <=> Done = DataBlocks(sectors)
  BY <1>1, LeftFacts
<1>5. Done' = Done /\ DataBlocks(sectors) \in Nat \ {0}
  BY <1>1, Counts DEF Done
<1>6. TypeOK'
  BY <1>1, <1>3 DEF Control, TypeOK
<1>7. FolderControl'
  BY <1>1, <1>2, <1>3 DEF Control, FolderControl, Writing
<1>8. BodyControl'
  <2>1. curOff = 0 /\ sectorsToHash = Fill(sectors, Done - 1)
    BY <1>1 DEF Control, BodyControl, Body
  <2>2. Done # 0
    BY <1>1, PositiveLayout DEF Done
  <2> QED BY <1>1, <1>2, <1>3, <1>4, <1>5, <2>1, <2>2, PositiveLayout DEF BodyControl, Body, Ahead
<1> QED BY <1>1, <1>3, <1>6, <1>7, <1>8 DEF Control, FreshControl, FixControl

(* A file is closed and hashed. *)
LEMMA ControlSeal == ASSUME Control, SealFile PROVE Control'
<1>1. /\ pc = "seal" /\ IsSeq(files) /\ Len(files) = curFileNum + 1 /\ curFileNum \in Nat
      /\ sectors \in Sizes /\ Done \in 0..DataBlocks(sectors) /\ sectorsRem = Left(sectors, Done)
      /\ curBlock \in 0..BlocksPerFile /\ curBlock > 0 /\ curOff = 0
      /\ curBlock = BlocksPerFile \/ Done = DataBlocks(sectors)
      /\ UNCHANGED <<outDir, package, runs, sectors, sectorsRem, curOff, sectorsToHash>>
      /\ curBlock' = 0
  BY ImageSizesTyped DEF SealFile, Control, BodyControl, FolderControl, TypeOK, Body
<1>2. IsSeq(files)' /\ Len(files)' = Len(files)
  <2>1. CASE files' = files
    BY <1>1, <2>1
  <2>2. CASE files' = [files EXCEPT ![Last].table = lv1hash]
    <3>1. files' = [files EXCEPT ![Last] = [files[Last] EXCEPT !.table = lv1hash]]
      BY <2>2
    <3>2. Last \in 1..Len(files)
      BY <1>1 DEF Last
    <3> QED BY <1>1, <3>1, <3>2, ExceptAny
  <2> QED BY <2>1, <2>2 DEF SealFile
<1>3. (sectorsRem = 0 <=> Done = DataBlocks(sectors)) /\ DataBlocks(sectors) \in Nat \ {0}
  BY <1>1, LeftFacts, Counts
<1>4. FolderControl'
  BY <1>1, <1>2 DEF Control, FolderControl, Writing, SealFile, Goto, Exit
<1>5. CASE sectorsRem # 0
  <2>1. curFileNum' = curFileNum + 1 /\ pc' = "newfile" /\ UNCHANGED <<retVal, fixNum>>
    BY <1>5 DEF SealFile, Goto
  <2>2. Done' = Done /\ Done # 0
    <3>1. curBlock = BlocksPerFile
      BY <1>1, <1>3, <1>5
    <3>2. (curFileNum + 1) * BlocksPerFile = curFileNum * BlocksPerFile + BlocksPerFile
          /\ curFileNum * BlocksPerFile \in Nat
      BY <1>1, PositiveLayout
    <3> QED BY <1>1, <2>1, <3>1, <3>2, PositiveLayout DEF Done
  <2>3. TypeOK'
    BY <1>1, <2>1, PositiveLayout DEF Control, TypeOK
  <2>4. BodyControl'
    BY <1>1, <1>2, <1>3, <1>5, <2>1, <2>2 DEF BodyControl, Body, Ahead
  <2> QED BY <1>1, <1>4, <2>1, <2>3, <2>4 DEF Control, FreshControl, FixControl
<1>6. CASE sectorsRem = 0
  <2>1. curFileNum' = curFileNum /\ pc' \in {"fix", "idle"}
        /\ (pc' = "fix" => fixNum' = curFileNum /\ retVal' = retVal)
        /\ (pc' = "idle" => fixNum' = fixNum /\ retVal' = "failed")
    BY <1>6 DEF SealFile, Goto, Exit
  <2>2. curFileNum + 1 = DataFiles(sectors)
    <3>1. curFileNum * BlocksPerFile + curBlock = DataBlocks(sectors) /\ curBlock \in 1..BlocksPerFile
      BY <1>1, <1>3, <1>6 DEF Done
    <3> QED BY <1>1, <3>1, LastFile
  <2>3. TypeOK'
    BY <1>1, <2>1, PositiveLayout DEF Control, TypeOK
  <2> QED
    BY <1>1, <1>2, <1>4, <2>1, <2>2, <2>3 DEF Control, FreshControl, BodyControl, FixControl, Body
<1> QED BY <1>5, <1>6

(* The hash files are chained, the header is written. *)
LEMMA ControlFix == ASSUME Control, FixHeader \/ FixDone \/ DumpHeader PROVE Control'
<1>1. /\ pc \in {"fix", "dump"} /\ IsSeq(files) /\ Len(files) = curFileNum + 1 /\ curFileNum \in Nat
      /\ Len(files) = DataFiles(sectors) /\ sectors \in ImageSizes /\ outDir /\ package = NoPackage
      /\ UNCHANGED <<outDir, runs, sectors, sectorsRem, curFileNum, curBlock, curOff, sectorsToHash>>
  BY DEF FixHeader, FixDone, DumpHeader, body, folder, Control, FolderControl, FixControl, TypeOK, Writing
<1>2. CASE FixHeader
  <2>1. /\ pc = "fix" /\ fixNum \in 0..curFileNum /\ UNCHANGED <<package, retVal>>
        /\ \/ pc' = "fix" /\ fixNum' = fixNum - 1
           \/ pc' = "dump" /\ fixNum' = fixNum
    BY <1>1, <1>2 DEF FixHeader, Goto, FileBefore, Control, FixControl
  <2>2. IsSeq(files)' /\ Len(files)' = Len(files)
    <3>1. CASE files' = files
      BY <1>1, <3>1
    <3>2. CASE files' # files
      <4>1. PICK x : files' = [files EXCEPT ![fixNum + 1].table = x]
        BY <1>2, <3>2 DEF FixHeader
      <4>2. files' = [files EXCEPT ![fixNum + 1] = [files[fixNum + 1] EXCEPT !.table = x]]
        BY <4>1
      <4>3. fixNum + 1 \in 1..Len(files)
        BY <1>1, <2>1
      <4> QED BY <1>1, <4>2, <4>3, ExceptAny
    <3> QED BY <3>1, <3>2
  <2>3. TypeOK'
    BY <1>1, <2>1 DEF Control, TypeOK
  <2>4. FolderControl'
    BY <1>1, <2>1, <2>2 DEF FolderControl, Writing
  <2> QED BY <1>1, <2>1, <2>2, <2>3, <2>4 DEF Control, FreshControl, BodyControl, FixControl, Body
<1>3. CASE FixDone
  <2>1. pc' = "dump" /\ UNCHANGED <<files, package, retVal, fixNum>>
    BY <1>3 DEF FixDone, Goto, folder, fix
  <2> QED
    BY <1>1, <2>1 DEF Control, TypeOK, FolderControl, FreshControl, BodyControl, FixControl, Body, Writing
<1>4. CASE DumpHeader
  <2>1. pc' = "idle" /\ retVal' = "ok" /\ UNCHANGED <<files, fixNum>>
    BY <1>4 DEF DumpHeader, Exit, fix
  <2> QED
    BY <1>1, <2>1 DEF Control, TypeOK, FolderControl, FreshControl, BodyControl, FixControl, Body, Writing
<1> QED BY <1>2, <1>3, <1>4

(* The program is killed, the output removed. *)
LEMMA ControlOutside == ASSUME Control, Kill \/ RemoveOutput \/ UNCHANGED vars PROVE Control'
BY EmptyIsSeq
DEF Kill, RemoveOutput, vars, Exit, folder, body, fix, Control, TypeOK, FolderControl, FreshControl,
    BodyControl, FixControl, Writing, Body, Done

(* The type invariant: counters stay within the geometry whatever fails    *)
(* and wherever a process is killed.                                       *)
LEMMA ControlInvariant == Spec => []Control
<1>1. Control /\ [Next]_vars => Control'
  BY ControlStart, ControlOpen, ControlPrepare, ControlNewFile, ControlFill, ControlWrite,
     ControlSeal, ControlFix, ControlOutside DEF Next, Program
<1> QED BY <1>1, ControlInit, PTL DEF Spec

(* Every state of the conversion, whatever the image, the faults and the runs
   before it, has the types the program counts on. *)
THEOREM TypeCorrect == Spec => []TypeOK
<1>1. Control => TypeOK
  BY DEF Control
<1> QED BY <1>1, ControlInvariant, PTL

-------------------------------------------------------------------------------
(* Content is invariant, if no fault is ignored. *)

(* What a good conversion writes is neither nothing nor torn. *)
LEMMA NotRecords ==
  /\ \A s, hash : GoodMeta(s, hash) # NoPackage
  /\ \A s, g : GoodBlock(s, g) # Torn
<1>1. DOMAIN << >> = {}
  OBVIOUS
<1>2. ASSUME NEW s, NEW hash PROVE GoodMeta(s, hash) # << >>
  <2>1. "DataFiles" \in DOMAIN GoodMeta(s, hash)
    BY DEF GoodMeta
  <2> QED BY <1>1, <2>1
<1>3. ASSUME NEW s, NEW g PROVE GoodBlock(s, g) # << >>
  <2>1. "data" \in DOMAIN GoodBlock(s, g)
    BY DEF GoodBlock
  <2> QED BY <1>1, <2>1
<1> QED BY <1>2, <1>3 DEF NoPackage, Torn

(* While a process writes there is no package; a process that ends, or has *)
(* not begun to write, leaves what is there.                               *)
LEMMA ContentExit ==
  ASSUME Content, pc' = "idle", UNCHANGED <<files, package>>
  PROVE  Content'
BY DEF Content, MetaContent, BufferContent, BodyContent, FixContent, PackageContent, Published, Body

(* Before the program runs nothing is in the folder. *)
LEMMA ContentInit == Init => Content
<1> SUFFICES ASSUME Init PROVE Content
  OBVIOUS
<1>1. pc = "idle" /\ package = NoPackage
  BY DEF Init
<1> QED
  BY <1>1 DEF Content, MetaContent, BufferContent, BodyContent, FixContent, PackageContent, Published, Body

(* The program is started. *)
LEMMA ContentStart == ASSUME Content, Start PROVE Content'
<1>1. /\ pc' = "open" /\ xMeta' = ZeroMeta /\ datablock' = ZeroBlock /\ hashInfo' = Blank
      /\ UNCHANGED <<files, package>>
  BY DEF Start, Goto, folder
<1> QED
  BY <1>1 DEF Content, MetaContent, BufferContent, BodyContent, FixContent, PackageContent, Published, Body

(* The image is opened. *)
LEMMA ContentOpen == ASSUME Content, OpenIsoFile PROVE Content'
<1>1. pc = "open" /\ xMeta = ZeroMeta /\ UNCHANGED <<files, package, sectors, datablock, hashInfo>>
  BY DEF OpenIsoFile, folder, body, fix, Content, MetaContent
<1>2. CASE pc' = "idle"
  BY <1>1, <1>2, ContentExit
<1>3. CASE pc' # "idle"
  <2>1. /\ pc' = "prepare"
        /\ xMeta' = [xMeta EXCEPT !.DataFiles = DataFiles(sectors),
                                  !.DataFilesSize = DataFilesSize(sectors),
                                  !.NumberOfDataBlocks = NumberOfDataBlocks(sectors)]
    BY <1>3 DEF OpenIsoFile, Goto, Exit
  <2>2. xMeta' = GoodMeta(sectors, Blank)
    BY <1>1, <2>1 DEF ZeroMeta, GoodMeta
  <2> QED
    BY <1>1, <2>1, <2>2
    DEF Content, MetaContent, BufferContent, BodyContent, FixContent, PackageContent, Published, Body
<1> QED BY <1>2, <1>3

(* The folders are made or found. *)
LEMMA ContentPrepare == ASSUME Control, Content, PrepareOutputPath PROVE Content'
<1>1. /\ pc = "prepare" /\ curFileNum = 0
      /\ UNCHANGED <<files, package, sectors, curFileNum, datablock, hashInfo, xMeta>>
  BY DEF PrepareOutputPath, folder, fix, Control, FreshControl
<1>2. CASE pc' = "idle"
  BY <1>1, <1>2, ContentExit
<1>3. CASE pc' # "idle"
  <2>1. pc' = "newfile"
    BY <1>3 DEF PrepareOutputPath, Goto, Exit
  <2> QED
    BY <1>1, <2>1
    DEF Content, MetaContent, BufferContent, BodyContent, FixContent, PackageContent, Published, Body
<1> QED BY <1>2, <1>3

(* A data file is begun: it is truncated. *)
LEMMA ContentNewFile == ASSUME NoFaultIgnored, Control, Content, StartNewFile PROVE Content'
<1>1. /\ pc = "newfile" /\ Len(files) = curFileNum /\ curFileNum \in Nat /\ curBlock = 0 /\ IsSeq(files)
      /\ package = NoPackage
      /\ UNCHANGED <<package, sectors, curFileNum, curBlock, hashInfo, xMeta>>
  BY DEF StartNewFile, Control, TypeOK, BodyControl, FolderControl, Body, Writing, fix
<1>2. CASE pc' = "idle"
  <2>1. files' = files
    BY <1>2 DEF StartNewFile, Goto
  <2> QED BY <1>1, <1>2, <2>1, ContentExit
<1>3. CASE pc' # "idle"
  <2> DEFINE file == [table |-> ZeroTable, blocks |-> << >>]
  <2>1. /\ files' = Append(files, file) /\ pc' = "fill" /\ lv1hash' = ZeroTable
        /\ datablock' = IF curFileNum = 0 THEN [datablock EXCEPT !.data[1] = 0] ELSE datablock
    <3>1. Outcomes("headread") = {TRUE}
      BY DEF NoFaultIgnored, Outcomes
    <3> QED BY <1>3, <3>1 DEF StartNewFile, Goto, Exit
  <2>2. /\ Last' = curFileNum + 1 /\ files'[Last'] = file
        /\ \A f \in 1..curFileNum : files'[f] = files[f]
    BY <1>1, <2>1, AppendAny DEF Last
  <2>3. datablock = ZeroBlock
    BY <1>1 DEF Content, BufferContent
  <2>4. Done' = 0 <=> curFileNum = 0
    <3>1. Done' = curFileNum * BlocksPerFile
      BY <1>1, PositiveLayout DEF Done
    <3> QED BY <1>1, <3>1, PositiveLayout, Scaled
  <2>5. ZeroTable = [entries |-> GoodEntries(sectors, curFileNum + 1, 0), next |-> Blank]
    <3>1. \A b \in 1..BlocksPerFile : ~(b <= 0)
      BY PositiveLayout
    <3>2. GoodEntries(sectors, curFileNum + 1, 0) = [b \in 1..BlocksPerFile |-> Blank]
      BY <3>1 DEF GoodEntries
    <3> QED BY <3>2 DEF ZeroTable
  <2>6. file.table.next = Blank /\ IsFile(file)
    <3>1. file.table.next = Blank /\ file.blocks = << >> /\ file.table = ZeroTable
      BY DEF ZeroTable
    <3>2. ZeroTable = [entries |-> ZeroTable.entries, next |-> ZeroTable.next]
      BY DEF ZeroTable
    <3> QED BY <3>1, <3>2, EmptyIsSeq DEF IsFile
  <2>7. GoodBlocks(file, sectors, curFileNum + 1, 0)
    BY EmptyIsSeq DEF GoodBlocks
  <2> HIDE DEF file
  <2>8. BufferContent'
    BY <1>1, <2>1, <2>3, <2>4, <2>5 DEF BufferContent
  <2>9. BodyContent'
    BY <1>1, <2>1, <2>2, <2>6, <2>7 DEF Content, BodyContent, Body
  <2> QED
    BY <1>1, <2>1, <2>8, <2>9
    DEF Content, MetaContent, FixContent, PackageContent, Published, Body
<1> QED BY <1>2, <1>3

(* A block that is filled holds the units of its place. *)
LEMMA FilledBlock ==
  ASSUME Control, Content, FillBlock, pc' # "idle"
  PROVE  /\ BlockOnDisk' = GoodBlock(sectors, Done)
         /\ lv1hash' = [entries |-> GoodEntries(sectors, curFileNum + 1, curBlock + 1), next |-> Blank]
<1> DEFINE n == Fill(sectors, Done)
           data == [u \in 1..UnitsPerBlock |->
                     IF u > curOff /\ u <= n THEN NextUnit + (u - curOff - 1) ELSE datablock.data[u]]
           hash == [u \in 1..UnitsPerBlock |-> IF u <= n THEN Sha(data[u]) ELSE datablock.hashes[u]]
<1>1. /\ pc = "fill" /\ curBlock \in 0..BlocksPerFile /\ curBlock < BlocksPerFile /\ curFileNum \in Nat
      /\ datablock = IF Done = 0 THEN [ZeroBlock EXCEPT !.data[1] = 0] ELSE ZeroBlock
      /\ lv1hash = [entries |-> GoodEntries(sectors, curFileNum + 1, curBlock), next |-> Blank]
  BY DEF FillBlock, Control, BodyControl, TypeOK, Body, Content, BufferContent
<1>2. /\ sectors \in Sizes /\ Done \in 0..(DataBlocks(sectors) - 1) /\ DataBlocks(sectors) \in Nat
      /\ ((SectorsToRead + 1) \div 2) + curOff = n
      /\ NextUnit = Done * UnitsPerBlock + curOff /\ curOff = Ahead(Done)
  BY <1>1, FillSize
<1>3. /\ sectorsToHash' = n /\ datablock' = [data |-> data, hashes |-> hash]
      /\ lv1hash' = [lv1hash EXCEPT !.entries[curBlock + 1] = Sha(hash)]
  BY <1>2 DEF FillBlock, Exit
<1>4. n \in 1..UnitsPerBlock /\ UnitsPerBlock \in Nat /\ Done * UnitsPerBlock \in Int
  BY <1>2, FillFacts, PositiveLayout
<1>5. ASSUME NEW u \in 1..n PROVE data[u] = Done * UnitsPerBlock + u - 1
  <2>1. CASE u > curOff
    BY <1>2, <1>4, <2>1 DEF Ahead
  <2>2. CASE ~(u > curOff)
    <3>1. Done = 0 /\ u = 1
      BY <1>2, <1>4, <2>2 DEF Ahead
    <3>2. datablock.data[1] = 0
      BY <1>1, <1>4, <3>1 DEF ZeroBlock
    <3> QED BY <1>4, <2>2, <3>1, <3>2
  <2> QED BY <2>1, <2>2
<1>6. \A u \in 1..UnitsPerBlock : datablock.hashes[u] = Blank
  BY <1>1 DEF ZeroBlock
<1>7. hash = GoodHashes(sectors, Done)
  <2> HIDE DEF data, n
  <2> SUFFICES ASSUME NEW u \in 1..UnitsPerBlock
               PROVE  (IF u <= n THEN Sha(data[u]) ELSE datablock.hashes[u])
                        = IF u <= n THEN Sha(Done * UnitsPerBlock + u - 1) ELSE Blank
    BY DEF GoodHashes, n
  <2>1. u <= n => u \in 1..n
    BY <1>4
  <2> QED BY <1>5, <1>6, <2>1
<1>8. SubSeq(data, 1, n) = [u \in 1..n |-> Done * UnitsPerBlock + u - 1]
  <2>1. IsSeq(data) /\ Len(data) = UnitsPerBlock
    BY <1>4, FunctionIsSeq
  <2> HIDE DEF data, n
  <2>2. SubSeq(data, 1, n) = [u \in 1..n |-> data[u]]
    BY <1>4, <2>1, SubSeqAny
  <2> QED BY <1>5, <2>2
<1>9. BlockOnDisk' = GoodBlock(sectors, Done)
  <2> HIDE DEF data, hash
  <2> QED BY <1>3, <1>7, <1>8 DEF BlockOnDisk, GoodBlock
<1>10. BlockIndex(curFileNum + 1, curBlock + 1) = Done
  BY <1>1, PositiveLayout DEF BlockIndex, Done
<1>11. lv1hash' = [entries |-> GoodEntries(sectors, curFileNum + 1, curBlock + 1), next |-> Blank]
  <2> HIDE DEF data, hash
  <2>1. lv1hash' = [entries |-> [GoodEntries(sectors, curFileNum + 1, curBlock)
                                   EXCEPT ![curBlock + 1] = Sha(hash)],
                    next |-> Blank]
    BY <1>1, <1>3
  <2>2. [GoodEntries(sectors, curFileNum + 1, curBlock) EXCEPT ![curBlock + 1] = Sha(hash)]
          = GoodEntries(sectors, curFileNum + 1, curBlock + 1)
    BY <1>1, <1>7, <1>10, PositiveLayout DEF GoodEntries
  <2> QED BY <2>1, <2>2
<1> QED BY <1>9, <1>11

(* A block is read. *)
LEMMA ContentFill == ASSUME Control, Content, FillBlock PROVE Content'
<1>1. /\ pc = "fill" /\ curBlock \in 0..BlocksPerFile /\ package = NoPackage
      /\ UNCHANGED <<files, package, sectors, curFileNum, hashInfo, xMeta>>
  BY DEF FillBlock, Control, FolderControl, TypeOK, folder, fix, Writing
<1>2. CASE pc' = "idle"
  BY <1>1, <1>2, ContentExit
<1>3. CASE pc' # "idle"
  <2>1. pc' = "write" /\ curBlock' = curBlock + 1
    BY <1>3 DEF FillBlock, Goto, Exit
  <2>2. Done' - 1 = Done
    BY <1>1, <2>1, PositiveLayout DEF Done, Control, TypeOK
  <2>3. BufferContent'
    BY <1>1, <1>3, <2>1, <2>2, FilledBlock DEF BufferContent
  <2>4. BodyContent'
    <3>1. /\ \A f \in 1..curFileNum : GoodFile(files[f], sectors, f) /\ files[f].table.next = Blank
          /\ IsFile(files[Last]) /\ files[Last].table.next = Blank
          /\ GoodBlocks(files[Last], sectors, Last, curBlock)
      BY <1>1 DEF Content, BodyContent, Body
    <3>2. curBlock' - 1 = curBlock /\ Last' = Last
      BY <1>1, <2>1, PositiveLayout DEF Last
    <3> QED BY <1>1, <2>1, <3>1, <3>2 DEF BodyContent
  <2> QED
    BY <1>1, <2>1, <2>3, <2>4
    DEF Content, MetaContent, FixContent, PackageContent, Published, Body
<1> QED BY <1>2, <1>3

(* What a process is doing when it writes a block or a table. *)
LEMMA AtLast ==
  ASSUME Control, Content, pc \in {"write", "seal"}
  PROVE  /\ IsSeq(files) /\ Last = curFileNum + 1 /\ Last \in 1..Len(files) /\ curFileNum \in Nat
         /\ curBlock \in 1..BlocksPerFile /\ package = NoPackage /\ sectors \in Sizes
         /\ Done = curFileNum * BlocksPerFile + curBlock
         /\ Done \in 1..DataBlocks(sectors) /\ BlockIndex(Last, curBlock) = Done - 1
         /\ IsFile(files[Last]) /\ files[Last].table.next = Blank
         /\ \A f \in 1..curFileNum : GoodFile(files[f], sectors, f) /\ files[f].table.next = Blank
         /\ lv1hash = [entries |-> GoodEntries(sectors, Last, curBlock), next |-> Blank]
         /\ GoodBlocks(files[Last], sectors, Last, IF pc = "write" THEN curBlock - 1 ELSE curBlock)
         /\ hashInfo = Blank /\ xMeta = GoodMeta(sectors, Blank)
<1>1. /\ IsSeq(files) /\ Len(files) = curFileNum + 1 /\ curFileNum \in Nat /\ package = NoPackage
      /\ curBlock \in 0..BlocksPerFile /\ curBlock > 0 /\ sectors \in Sizes
      /\ Done \in 0..DataBlocks(sectors) /\ BlocksPerFile \in Nat
  BY ImageSizesTyped, PositiveLayout DEF Control, FolderControl, BodyControl, TypeOK, Body, Writing
<1>2. Last = curFileNum + 1 /\ Last \in 1..Len(files) /\ curBlock \in 1..BlocksPerFile
  BY <1>1 DEF Last
<1>3. /\ Done = curFileNum * BlocksPerFile + curBlock /\ Done # 0 /\ DataBlocks(sectors) \in Nat
      /\ BlockIndex(Last, curBlock) = Done - 1
  <2>1. curFileNum * BlocksPerFile \in Nat
    BY <1>1
  <2>2. Done = curFileNum * BlocksPerFile + curBlock
    BY DEF Done
  <2>3. BlockIndex(Last, curBlock) = (Last - 1) * BlocksPerFile + (curBlock - 1)
    BY DEF BlockIndex
  <2>4. Last - 1 = curFileNum
    BY <1>1, <1>2
  <2>5. DataBlocks(sectors) \in Nat
    BY <1>1, Counts
  <2> HIDE DEF Done
  <2> QED BY <1>1, <2>1, <2>2, <2>3, <2>4, <2>5
<1>4. Done \in 1..DataBlocks(sectors)
  BY <1>1, <1>3
<1>5. /\ IsFile(files[Last]) /\ files[Last].table.next = Blank
      /\ \A f \in 1..curFileNum : GoodFile(files[f], sectors, f) /\ files[f].table.next = Blank
      /\ GoodBlocks(files[Last], sectors, Last, IF pc = "write" THEN curBlock - 1 ELSE curBlock)
  BY DEF Content, BodyContent, Body
<1>6. lv1hash = [entries |-> GoodEntries(sectors, Last, curBlock), next |-> Blank]
  BY <1>2 DEF Content, BufferContent
<1>7. hashInfo = Blank /\ xMeta = GoodMeta(sectors, Blank)
  BY DEF Content, FixContent, MetaContent, Body
<1> QED BY <1>1, <1>2, <1>3, <1>4, <1>5, <1>6, <1>7

(* A block is written behind the last. *)
LEMMA ContentWrite == ASSUME NoFaultIgnored, Control, Content, WriteBlockToFile PROVE Content'
<1> DEFINE block == GoodBlock(sectors, Done - 1)
           file == [files[Last] EXCEPT !.blocks = Append(files[Last].blocks, block)]
<1>1. /\ pc = "write" /\ pc' \in {"fill", "seal"} /\ datablock' = ZeroBlock
      /\ UNCHANGED <<package, sectors, curFileNum, curBlock, lv1hash, hashInfo, xMeta>>
  BY DEF WriteBlockToFile, Goto, DatablockAfterWrite, fix
<1>2. files' = [files EXCEPT ![Last] = file]
  <2>1. Outcomes("write") = {TRUE}
    BY DEF NoFaultIgnored, Outcomes
  <2>2. BlockOnDisk = block
    BY <1>1 DEF Content, BufferContent
  <2> HIDE DEF block
  <2>3. files' = [files EXCEPT ![Last].blocks = Append(@, block)]
    BY <2>1, <2>2 DEF WriteBlockToFile
  <2> QED BY <2>3
<1>3. Last' = Last /\ files'[Last] = file /\ \A f \in 1..curFileNum : files'[f] = files[f]
  <2> HIDE DEF file
  <2>1. Len(files') = Len(files) /\ files'[Last] = file
        /\ \A k \in 1..Len(files) : k # Last => files'[k] = files[k]
    BY <1>1, <1>2, AtLast, ExceptAny
  <2> QED BY <1>1, <2>1, AtLast DEF Last
<1>4. /\ file = [table |-> files[Last].table, blocks |-> Append(files[Last].blocks, block)]
      /\ IsSeq(files[Last].blocks) /\ Len(files[Last].blocks) = curBlock - 1
      /\ files[Last].table = [entries |-> files[Last].table.entries, next |-> files[Last].table.next]
      /\ \A b \in 1..(curBlock - 1) : files[Last].blocks[b] = GoodBlock(sectors, BlockIndex(Last, b))
  <2>1. IsFile(files[Last]) /\ GoodBlocks(files[Last], sectors, Last, curBlock - 1)
    BY <1>1, AtLast
  <2>2. files[Last] = [table |-> [entries |-> files[Last].table.entries,
                                  next    |-> files[Last].table.next],
                       blocks |-> files[Last].blocks]
    BY <2>1 DEF IsFile
  <2>3. file = [table |-> files[Last].table, blocks |-> Append(files[Last].blocks, block)]
    <3> HIDE DEF block
    <3> QED BY <2>2
  <2>4. files[Last].table = [entries |-> files[Last].table.entries, next |-> files[Last].table.next]
    BY <2>2
  <2> HIDE DEF file
  <2> QED BY <2>1, <2>3, <2>4 DEF IsFile, GoodBlocks
<1>5. /\ IsSeq(file.blocks) /\ Len(file.blocks) = curBlock /\ file.blocks[curBlock] = block
      /\ \A b \in 1..(curBlock - 1) : file.blocks[b] = files[Last].blocks[b]
      /\ file.table = files[Last].table
  <2> HIDE DEF block
  <2>1. curBlock \in Nat
    BY <1>1, AtLast, PositiveLayout
  <2> QED BY <1>4, <2>1, AppendAny
<1>6. IsFile(file)
  BY <1>4, <1>5 DEF IsFile
<1>7. GoodBlocks(file, sectors, Last, curBlock)
  <2> HIDE DEF block, file
  <2>1. block = GoodBlock(sectors, BlockIndex(Last, curBlock))
    BY <1>1, AtLast DEF block
  <2>2. curBlock \in Nat \ {0}
    BY <1>1, AtLast, PositiveLayout
  <2> QED BY <1>4, <1>5, <2>1, <2>2 DEF GoodBlocks
<1>8. Done' = Done /\ Done # 0
  BY <1>1, AtLast DEF Done
<1>9. BufferContent'
  BY <1>1, <1>8, AtLast DEF BufferContent
<1>10. BodyContent'
  <2> HIDE DEF file
  <2> QED BY <1>1, <1>3, <1>5, <1>6, <1>7, AtLast DEF BodyContent
<1> QED
  BY <1>1, <1>9, <1>10, AtLast
  DEF Content, MetaContent, FixContent, PackageContent, Published, Body

(* A file is closed: its tables hold the hashes of its blocks. *)
LEMMA ContentSeal == ASSUME NoFaultIgnored, Control, Content, SealFile PROVE Content'
<1> DEFINE file == [files[Last] EXCEPT !.table = lv1hash]
<1>1. pc = "seal" /\ curBlock' = 0 /\ UNCHANGED <<package, sectors, datablock, hashInfo, xMeta>>
  BY DEF SealFile
<1>2. files' = [files EXCEPT ![Last] = file]
  <2>1. Outcomes("rewrite") = {TRUE}
    BY DEF NoFaultIgnored, Outcomes
  <2>2. files' = [files EXCEPT ![Last].table = lv1hash]
    BY <2>1 DEF SealFile
  <2> QED BY <2>2
<1>3. /\ IsSeq(files') /\ Len(files') = Last /\ files'[Last] = file
      /\ \A f \in 1..curFileNum : files'[f] = files[f]
  <2> HIDE DEF file
  <2>1. IsSeq(files) /\ Last \in 1..Len(files)
    BY <1>1, AtLast
  <2> DEFINE t == [files EXCEPT ![Last] = file]
  <2>3. /\ IsSeq(t) /\ Len(t) = Len(files) /\ t[Last] = file
        /\ \A k \in 1..Len(files) : k # Last => t[k] = files[k]
    BY <2>1, ExceptAny
  <2> HIDE DEF t
  <2>2. /\ IsSeq(files') /\ Len(files') = Len(files) /\ files'[Last] = file
        /\ \A k \in 1..Len(files) : k # Last => files'[k] = files[k]
    BY <1>2, <2>3 DEF t
  <2> QED BY <1>1, <2>2, AtLast DEF Last
<1>4. file = [table |-> lv1hash, blocks |-> files[Last].blocks]
  <2>1. IsFile(files[Last])
    BY <1>1, AtLast
  <2> QED BY <2>1 DEF IsFile
<1>5. IsFile(file) /\ file.table.next = Blank /\ file.table.entries = GoodEntries(sectors, Last, curBlock)
  <2>1. lv1hash = [entries |-> GoodEntries(sectors, Last, curBlock), next |-> Blank]
        /\ IsSeq(files[Last].blocks)
    BY <1>1, AtLast DEF IsFile
  <2>2. file.table = lv1hash /\ file.blocks = files[Last].blocks
    BY <1>4
  <2>3. /\ lv1hash.entries = GoodEntries(sectors, Last, curBlock) /\ lv1hash.next = Blank
        /\ lv1hash = [entries |-> lv1hash.entries, next |-> lv1hash.next]
    BY <2>1
  <2>4. file = [table |-> [entries |-> file.table.entries, next |-> file.table.next],
                blocks |-> file.blocks]
    BY <1>4, <2>2, <2>3
  <2> HIDE DEF file
  <2> QED BY <2>1, <2>2, <2>3, <2>4 DEF IsFile
<1>6. GoodBlocks(file, sectors, Last, curBlock)
  BY <1>1, <1>4, AtLast DEF GoodBlocks
<1>7. BlocksIn(sectors, Last) = curBlock => GoodFile(file, sectors, Last)
  <2> HIDE DEF file
  <2> QED BY <1>5, <1>6 DEF GoodFile
<1>8. /\ sectorsRem = 0 <=> Done = DataBlocks(sectors)
      /\ curBlock = BlocksPerFile \/ Done = DataBlocks(sectors)
  BY <1>1, ImageSizesTyped, LeftFacts DEF Control, BodyControl, Body
<1> HIDE DEF file
<1>9. CASE sectorsRem # 0
  <2>1. pc' = "newfile" /\ curFileNum' = curFileNum + 1
    BY <1>9 DEF SealFile, Goto
  <2>2. BlocksIn(sectors, Last) = curBlock
    <3>1. curBlock = BlocksPerFile /\ DataBlocks(sectors) \in Nat
      BY <1>1, <1>8, <1>9, AtLast, Counts
    <3>2. (curFileNum + 1) * BlocksPerFile = curFileNum * BlocksPerFile + BlocksPerFile
      BY <1>1, AtLast, PositiveLayout
    <3>3. (curFileNum + 1) * BlocksPerFile < DataBlocks(sectors)
      BY <1>1, <1>8, <1>9, <3>1, <3>2, AtLast
    <3> QED BY <1>1, <3>1, <3>3, AtLast, FullFile
  <2>3. \A f \in 1..curFileNum' : GoodFile(files'[f], sectors, f) /\ files'[f].table.next = Blank
    BY <1>1, <1>3, <1>5, <1>7, <2>1, <2>2, AtLast
  <2>4. datablock = ZeroBlock
    BY <1>1 DEF Content, BufferContent
  <2> QED
    BY <1>1, <2>1, <2>3, <2>4, AtLast
    DEF Content, MetaContent, BufferContent, BodyContent, FixContent, PackageContent, Published, Body
<1>10. CASE sectorsRem = 0
  <2>1. /\ pc' \in {"fix", "idle"} /\ curFileNum' = curFileNum
        /\ pc' = "fix" => fixNum' = curFileNum
    BY <1>10 DEF SealFile, Goto, Exit
  <2>2. Last = DataFiles(sectors) /\ BlocksIn(sectors, Last) = curBlock
    <3>1. curFileNum * BlocksPerFile + curBlock = DataBlocks(sectors)
      BY <1>1, <1>8, <1>10, AtLast
    <3> QED BY <1>1, <3>1, AtLast, LastFile
  <2>3. WholeBody(files', sectors)
    BY <1>1, <1>3, <1>7, <2>2, AtLast DEF WholeBody
  <2>4. ChainedFrom(files', curFileNum + 2)
    <3>1. (curFileNum + 2)..(Len(files') - 1) = {}
      BY <1>1, <1>3, AtLast
    <3> QED BY <1>3, <1>5, <3>1 DEF ChainedFrom
  <2> QED
    BY <1>1, <2>1, <2>3, <2>4, AtLast
    DEF Content, MetaContent, BufferContent, BodyContent, FixContent, PackageContent, Published, Body
<1> QED BY <1>9, <1>10

(* One turn of fixIsoHeaders keeps the body and extends the chain.         *)
LEMMA ContentFixHeader == ASSUME NoFaultIgnored, Control, Content, FixHeader PROVE Content'
<1> DEFINE n == fixNum + 1
           table == Chained(files[n].table)
<1>1. /\ pc = "fix" /\ fixNum \in 0..curFileNum /\ curFileNum \in Nat /\ IsSeq(files)
      /\ Len(files) = curFileNum + 1 /\ Len(files) = DataFiles(sectors) /\ package = NoPackage
      /\ WholeBody(files, sectors) /\ ChainedFrom(files, fixNum + 2)
      /\ hashInfo = IF fixNum = curFileNum THEN Blank ELSE Sha(files[fixNum + 2].table)
      /\ xMeta = GoodMeta(sectors, Blank)
      /\ UNCHANGED <<package, sectors, curFileNum, xMeta>>
  <2>1. pc = "fix" /\ fixNum >= 0 /\ UNCHANGED <<package, sectors, curFileNum, xMeta>>
    BY DEF FixHeader
  <2> QED
    BY <2>1
    DEF Control, FixControl, FolderControl, TypeOK, Writing, Content, FixContent, MetaContent
<1>2. /\ pc' = "fix" /\ fixNum' = fixNum - 1 /\ hashInfo' = Sha(table)
      /\ files' = IF fixNum # curFileNum THEN [files EXCEPT ![n].table = table] ELSE files
  <2>1. Outcomes("reopen") = {TRUE} /\ Outcomes("rewrite") = {TRUE}
    BY DEF NoFaultIgnored, Outcomes
  <2> QED BY <1>1, <2>1 DEF FixHeader, FileBefore
<1>3. n \in 1..Len(files) /\ n \in Nat
  BY <1>1
<1>4. /\ IsSeq(files') /\ Len(files') = Len(files) /\ files'[n].table = table
      /\ \A k \in 1..Len(files) : k # n => files'[k] = files[k]
      /\ WholeBody(files', sectors)
  <2>1. CASE fixNum = curFileNum
    BY <1>1, <1>2, <2>1 DEF Chained
  <2>2. CASE fixNum # curFileNum
    <3> DEFINE file == [files[n] EXCEPT !.table = table]
    <3>1. files' = [files EXCEPT ![n] = file]
      BY <1>2, <2>2
    <3>2. GoodFile(files[n], sectors, n)
      BY <1>1, <1>3 DEF WholeBody
    <3>3. files[n] = [table |-> [entries |-> files[n].table.entries, next |-> files[n].table.next],
                      blocks |-> files[n].blocks]
      BY <3>2 DEF GoodFile, IsFile
    <3>4. table = [entries |-> files[n].table.entries, next |-> hashInfo]
      BY <2>2, <3>3 DEF Chained
    <3>5. file = [table |-> table, blocks |-> files[n].blocks]
      <4> HIDE DEF table
      <4> QED BY <3>3
    <3>6. GoodFile(file, sectors, n)
      <4>1. /\ file.table = table /\ file.blocks = files[n].blocks
            /\ file.table.entries = files[n].table.entries /\ file.table.next = hashInfo
        BY <3>4, <3>5
      <4>2. file = [table |-> [entries |-> file.table.entries, next |-> file.table.next],
                    blocks |-> file.blocks]
        BY <3>4, <3>5, <4>1
      <4> HIDE DEF file
      <4> QED BY <3>2, <4>1, <4>2 DEF GoodFile, IsFile, GoodBlocks
    <3>7. file.table = table
      BY <3>5
    <3> HIDE DEF file, table, n
    <3>8. /\ IsSeq(files') /\ Len(files') = Len(files) /\ files'[n] = file
          /\ \A k \in 1..Len(files) : k # n => files'[k] = files[k]
      <4>1. IsSeq(files) /\ n \in 1..Len(files)
        BY <1>1, <1>3
      <4> DEFINE t == [files EXCEPT ![n] = file]
      <4>2. /\ IsSeq(t) /\ Len(t) = Len(files) /\ t[n] = file
            /\ \A k \in 1..Len(files) : k # n => t[k] = files[k]
        BY <4>1, ExceptAny
      <4>3. files' = t
        BY <3>1
      <4> HIDE DEF t
      <4> QED BY <4>2, <4>3
    <3>9. WholeBody(files', sectors)
      BY <1>1, <3>6, <3>8 DEF WholeBody
    <3> QED BY <3>7, <3>8, <3>9
  <2> QED BY <2>1, <2>2
<1>5. ChainedFrom(files', n)
  <2>1. CASE fixNum = curFileNum
    <3>1. n..(Len(files') - 1) = {} /\ files' = files
      BY <1>1, <1>2, <2>1
    <3> QED BY <1>1, <3>1 DEF ChainedFrom
  <2>2. CASE fixNum # curFileNum
    <3>1. table.next = Sha(files[n + 1].table)
      <4>1. GoodFile(files[n], sectors, n)
        BY <1>1, <1>3 DEF WholeBody
      <4>2. table.next = hashInfo
        BY <2>2, <4>1 DEF Chained, GoodFile, IsFile
      <4>3. n + 1 = fixNum + 2
        BY <1>1
      <4> QED BY <1>1, <2>2, <4>2, <4>3
    <3> HIDE DEF table
    <3>2. n + 1 \in 1..Len(files) /\ n # Len(files) /\ n + 1 # n
      BY <1>1, <2>2
    <3>3. files'[n].table.next = Sha(files'[n + 1].table)
      BY <1>4, <3>1, <3>2
    <3>4. ASSUME NEW k \in (n + 1)..(Len(files) - 1) PROVE files'[k].table.next = Sha(files'[k + 1].table)
      <4>1. k \in 1..Len(files) /\ k + 1 \in 1..Len(files) /\ k # n /\ k + 1 # n /\ n + 1 = fixNum + 2
        BY <1>1
      <4> QED BY <1>1, <1>4, <4>1 DEF ChainedFrom
    <3>5. files'[Len(files)].table.next = Blank
      <4>1. Len(files) \in 1..Len(files)
        BY <1>1
      <4> QED BY <1>1, <1>4, <3>2, <4>1 DEF ChainedFrom
    <3>6. \A k \in n..(Len(files) - 1) : k = n \/ k \in (n + 1)..(Len(files) - 1)
      BY <1>1
    <3> QED BY <1>4, <3>3, <3>4, <3>5, <3>6 DEF ChainedFrom
  <2> QED BY <2>1, <2>2
<1>6. FixContent'
  <2>1. fixNum' + 2 = n /\ fixNum' # curFileNum
    BY <1>1, <1>2
  <2> HIDE DEF table, n
  <2> QED BY <1>1, <1>2, <1>4, <1>5, <2>1 DEF FixContent, Body
<1> QED
  BY <1>1, <1>2, <1>6
  DEF Content, MetaContent, BufferContent, BodyContent, PackageContent, Published, Body

(* All files are chained. *)
LEMMA ContentFixDone == ASSUME Control, Content, FixDone PROVE Content'
<1>1. /\ pc = "fix" /\ pc' = "dump" /\ xMeta' = [xMeta EXCEPT !.FirstFragmentHash = hashInfo]
      /\ UNCHANGED <<files, package, sectors, curFileNum>>
      /\ fixNum = -1 /\ curFileNum \in Nat /\ package = NoPackage
  BY DEF FixDone, Goto, folder, body, Control, FixControl, FolderControl, TypeOK, Writing
<1>2. /\ WholeBody(files, sectors) /\ ChainedFrom(files, 1) /\ hashInfo = Sha(files[1].table)
      /\ xMeta = GoodMeta(sectors, Blank)
  BY <1>1 DEF Content, FixContent, MetaContent
<1>3. xMeta' = GoodMeta(sectors, Sha(files[1].table))
  BY <1>1, <1>2 DEF GoodMeta
<1> QED
  BY <1>1, <1>2, <1>3
  DEF Content, MetaContent, BufferContent, BodyContent, FixContent, PackageContent, Published, Body

(* The header is published. *)
LEMMA ContentDump == ASSUME Control, Content, DumpHeader PROVE Content'
<1>1. /\ pc = "dump" /\ pc' = "idle" /\ UNCHANGED files /\ package' \in {xMeta, package}
      /\ sectors \in ImageSizes
  BY DEF DumpHeader, Exit, Outcomes, Control
<1>2. CASE package' = package
  BY <1>1, <1>2, ContentExit
<1>3. CASE package' = xMeta
  BY <1>1, <1>3
  DEF Content, MetaContent, BufferContent, BodyContent, FixContent, PackageContent, Published, Body
<1> QED BY <1>1, <1>2, <1>3

(* The program is killed, the output removed. *)
LEMMA ContentOutside == ASSUME Control, Content, Kill \/ RemoveOutput \/ UNCHANGED vars PROVE Content'
<1>1. CASE Kill
  BY <1>1, ContentExit DEF Kill, Exit, folder
<1>2. CASE RemoveOutput
  BY <1>2
  DEF RemoveOutput, Content, MetaContent, BufferContent, BodyContent, FixContent, PackageContent,
      Published, Body
<1>3. CASE UNCHANGED vars
  BY <1>3
  DEF vars, folder, body, fix, Content, MetaContent, BufferContent, BodyContent, FixContent,
      PackageContent, Published, Body, BlockOnDisk, Done, Last
<1> QED BY <1>1, <1>2, <1>3

(* Both invariants hold in every state. *)
LEMMA ContentInvariant == ASSUME NoFaultIgnored PROVE Spec => [](Control /\ Content)
<1>1. Control /\ Content /\ [Next]_vars => Content'
  BY ContentStart, ContentOpen, ContentPrepare, ContentNewFile, ContentFill, ContentWrite, ContentSeal,
     ContentFixHeader, ContentFixDone, ContentDump, ContentOutside DEF Next, Program
<1> QED BY <1>1, ContentInit, ControlInvariant, PTL DEF Spec

-------------------------------------------------------------------------------
(* A whole body, file by file and block by block. *)
LEMMA FileShape ==
  ASSUME NEW s \in Sizes, NEW fs, WholeBody(fs, s), NEW f \in 1..DataFiles(s)
  PROVE  /\ DOMAIN fs[f].blocks = 1..BlocksIn(s, f) /\ Len(fs[f].blocks) = BlocksIn(s, f)
         /\ BlocksIn(s, f) \in 1..BlocksPerFile
         /\ fs[f].table.entries = GoodEntries(s, f, BlocksIn(s, f))
<1>1. GoodFile(fs[f], s, f)
  BY DEF WholeBody
<1>2. BlocksIn(s, f) \in 1..BlocksPerFile
  BY BlocksInFacts
<1> QED BY <1>1, <1>2, SeqFacts DEF GoodFile, GoodBlocks, IsFile

(* What a block is follows from its place. *)
LEMMA BlockShape ==
  ASSUME NEW s \in Sizes, NEW fs, WholeBody(fs, s), NEW f \in 1..DataFiles(s), NEW b \in 1..BlocksIn(s, f)
  PROVE  /\ BlockIndex(f, b) \in 0..(DataBlocks(s) - 1)
         /\ Fill(s, BlockIndex(f, b)) \in 1..UnitsPerBlock
         /\ fs[f].blocks[b] # Torn
         /\ fs[f].blocks[b].hashes = GoodHashes(s, BlockIndex(f, b))
         /\ \A u \in 1..Fill(s, BlockIndex(f, b)) :
              fs[f].blocks[b].data[u] = BlockIndex(f, b) * UnitsPerBlock + u - 1
         /\ Len(fs[f].blocks[b].data) = Fill(s, BlockIndex(f, b))
<1> DEFINE g == BlockIndex(f, b)
<1>1. fs[f].blocks[b] = GoodBlock(s, g)
  BY DEF WholeBody, GoodFile, GoodBlocks
<1>2. BlocksIn(s, f) \in 1..BlocksPerFile /\ BlocksPerFile \in Nat /\ DataBlocks(s) \in Nat
  BY BlocksInFacts, PositiveLayout, Counts
<1>3. g \in 0..(DataBlocks(s) - 1)
  <2>1. b \in 1..BlocksPerFile /\ b <= BlocksIn(s, f)
    BY <1>2
  <2>2. g \in Nat /\ g < DataBlocks(s)
    BY <2>1, BlocksInFacts
  <2> QED BY <1>2, <2>2
<1>4. Fill(s, g) \in 1..UnitsPerBlock /\ UnitsPerBlock \in Nat
  BY <1>3, FillFacts, PositiveLayout
<1> HIDE DEF g
<1>5. fs[f].blocks[b].data = [u \in 1..Fill(s, g) |-> g * UnitsPerBlock + u - 1]
      /\ fs[f].blocks[b].hashes = GoodHashes(s, g)
  BY <1>1 DEF GoodBlock
<1>6. Len([u \in 1..Fill(s, g) |-> g * UnitsPerBlock + u - 1]) = Fill(s, g)
  BY <1>4, FunctionIsSeq
<1>7. fs[f].blocks[b] # Torn
  BY <1>1, NotRecords
<1>8. \A u \in 1..Fill(s, g) : fs[f].blocks[b].data[u] = g * UnitsPerBlock + u - 1
  BY <1>5
<1>9. Len(fs[f].blocks[b].data) = Fill(s, g)
  BY <1>5, <1>6
<1> QED BY <1>3, <1>4, <1>5, <1>7, <1>8, <1>9 DEF g

(* A published package is the image of some size, whole and chained.       *)
LEMMA PublishedBody ==
  ASSUME Control, Content, Published
  PROVE  \E s \in ImageSizes :
           /\ package = GoodMeta(s, Sha(files[1].table))
           /\ WholeBody(files, s) /\ ChainedFrom(files, 1)
           /\ s \in Sizes /\ Len(files) = DataFiles(s) /\ DOMAIN files = 1..DataFiles(s)
           /\ DataFiles(s) \in Nat \ {0}
<1>1. PICK s \in ImageSizes :
        /\ package = GoodMeta(s, Sha(files[1].table))
        /\ WholeBody(files, s) /\ ChainedFrom(files, 1)
  BY DEF Content, PackageContent
<1>2. s \in Sizes /\ IsSeq(files) /\ DataFiles(s) \in Nat \ {0}
  BY ImageSizesTyped, Counts DEF Control, FolderControl
<1>3. Len(files) = DataFiles(s) /\ DOMAIN files = 1..DataFiles(s)
  BY <1>1, <1>2, SeqFacts DEF WholeBody
<1> QED BY <1>1, <1>2, <1>3

(* The slots the reused buffers do not need are blank in every package:    *)
(* what the memsets of datablock and lv1hash in writeIsoBody are for.      *)
THEOREM NothingLeftBehind == ASSUME NoFaultIgnored PROVE Spec => []UnusedSlotsBlank
<1>1. Control /\ Content => UnusedSlotsBlank
  <2> SUFFICES ASSUME Control, Content, Published PROVE UnusedSlotsBlank
    BY DEF UnusedSlotsBlank
  <2>1. PICK s \in Sizes : WholeBody(files, s) /\ ChainedFrom(files, 1) /\ DOMAIN files = 1..DataFiles(s)
    BY PublishedBody
  <2>2. ASSUME NEW f \in DOMAIN files, NEW b \in (Len(files[f].blocks) + 1)..BlocksPerFile
        PROVE  files[f].table.entries[b] = Blank
    <3>1. f \in 1..DataFiles(s)
      BY <2>1
    <3>2. /\ Len(files[f].blocks) = BlocksIn(s, f) /\ BlocksIn(s, f) \in 1..BlocksPerFile
          /\ files[f].table.entries = GoodEntries(s, f, BlocksIn(s, f))
      BY <2>1, <3>1, FileShape
    <3>3. b \in 1..BlocksPerFile /\ ~(b <= BlocksIn(s, f))
      BY <3>2, PositiveLayout
    <3> QED BY <3>2, <3>3 DEF GoodEntries
  <2>3. ASSUME NEW f \in DOMAIN files, NEW b \in DOMAIN files[f].blocks,
               NEW u \in (Len(files[f].blocks[b].data) + 1)..UnitsPerBlock
        PROVE  files[f].blocks[b].hashes[u] = Blank
    <3> DEFINE n == Fill(s, BlockIndex(f, b))
    <3>1. f \in 1..DataFiles(s) /\ b \in 1..BlocksIn(s, f)
      BY <2>1, FileShape
    <3>2. /\ Len(files[f].blocks[b].data) = n /\ n \in 1..UnitsPerBlock
          /\ files[f].blocks[b].hashes = GoodHashes(s, BlockIndex(f, b))
      BY <2>1, <3>1, BlockShape
    <3> HIDE DEF n
    <3>3. u \in 1..UnitsPerBlock /\ ~(u <= n)
      BY <3>2, PositiveLayout
    <3> QED BY <3>2, <3>3 DEF GoodHashes, n
  <2>4. files[Len(files)].table.next = Blank
    BY <2>1 DEF ChainedFrom
  <2> QED BY <2>2, <2>3, <2>4 DEF UnusedSlotsBlank
<1> QED BY <1>1, ContentInvariant, PTL

-------------------------------------------------------------------------------
(***************************************************************************)
(* What a reader gets of a published package.                              *)
(***************************************************************************)

(* The units of a whole package: tables, hash units and data units. *)
Tables(s) == {<<f, 0, 0>> : f \in 1..DataFiles(s)}
HashUnits(s) == UNION {{<<f, b, 0>> : b \in 1..BlocksIn(s, f)} : f \in 1..DataFiles(s)}
DataPlaces(s) ==
  UNION {UNION {{<<f, b, u>> : u \in 1..Fill(s, BlockIndex(f, b))}
                : b \in 1..BlocksIn(s, f)} : f \in 1..DataFiles(s)}

(* Counting with a numbering. *)
LEMMA Counted ==
  ASSUME NEW n \in Nat, NEW S, NEW p \in [0..(n - 1) -> S],
         \A i, j \in 0..(n - 1) : p[i] = p[j] => i = j,
         \A x \in S : \E i \in 0..(n - 1) : p[i] = x
  PROVE  IsFiniteSet(S) /\ Cardinality(S) = n
<1>1. p \in Bijection(0..(n - 1), S)
  BY DEF Bijection, Injection, Surjection, IsInjective
<1>2. IsFiniteSet(0..(n - 1)) /\ Cardinality(0..(n - 1)) = n
  BY FS_Interval
<1> QED BY <1>1, <1>2, FS_Bijection DEF ExistsBijection

(* Each file has one table. *)
LEMMA TableCount ==
  ASSUME NEW s \in Sizes
  PROVE  IsFiniteSet(Tables(s)) /\ Cardinality(Tables(s)) = DataFiles(s)
<1> DEFINE p == [i \in 0..(DataFiles(s) - 1) |-> <<i + 1, 0, 0>>]
<1>1. DataFiles(s) \in Nat
  BY Counts
<1>2. p \in [0..(DataFiles(s) - 1) -> Tables(s)]
  BY <1>1 DEF Tables
<1>3. \A i, j \in 0..(DataFiles(s) - 1) : p[i] = p[j] => i = j
  OBVIOUS
<1>4. ASSUME NEW x \in Tables(s) PROVE \E i \in 0..(DataFiles(s) - 1) : p[i] = x
  <2>1. PICK f \in 1..DataFiles(s) : x = <<f, 0, 0>>
    BY DEF Tables
  <2>2. f - 1 \in 0..(DataFiles(s) - 1) /\ (f - 1) + 1 = f
    BY <1>1
  <2>3. p[f - 1] = x
    BY <2>1, <2>2
  <2> QED BY <2>2, <2>3
<1> HIDE DEF p
<1> QED BY <1>1, <1>2, <1>3, <1>4, Counted

(* Where block g is. *)
LEMMA BlockPlace ==
  ASSUME NEW s \in Sizes, NEW g \in 0..(DataBlocks(s) - 1)
  PROVE  LET f == (g \div BlocksPerFile) + 1
             b == (g % BlocksPerFile) + 1
         IN  f \in 1..DataFiles(s) /\ b \in 1..BlocksIn(s, f) /\ BlockIndex(f, b) = g
<1> DEFINE q == g \div BlocksPerFile
           r == g % BlocksPerFile
<1>1. BlocksPerFile \in Nat \ {0} /\ DataBlocks(s) \in Nat /\ DataFiles(s) \in Nat /\ g \in Int
  BY PositiveLayout, Counts
<1>2. g = BlocksPerFile * q + r /\ r \in 0..(BlocksPerFile - 1) /\ q \in Int
  BY <1>1, Division
<1>3. q \in Nat
  BY <1>1
<1> HIDE DEF q, r
<1>4. q * BlocksPerFile \in Int /\ q * BlocksPerFile = BlocksPerFile * q
  BY <1>1, <1>3
<1>5. q < DataFiles(s)
  <2>1. q * BlocksPerFile < DataBlocks(s)
    BY <1>1, <1>2, <1>4
  <2> QED BY <1>3, <2>1, Counts
<1>6. q + 1 \in 1..DataFiles(s) /\ r + 1 \in 1..BlocksPerFile
  BY <1>1, <1>2, <1>3, <1>5
<1>7. BlockIndex(q + 1, r + 1) = g
  <2>1. (q + 1) - 1 = q /\ (r + 1) - 1 = r
    BY <1>2, <1>3
  <2> QED BY <1>2, <1>4, <2>1 DEF BlockIndex
<1>8. r + 1 <= BlocksIn(s, q + 1)
  BY <1>1, <1>6, <1>7, BlocksInFacts
<1>9. r + 1 \in 1..BlocksIn(s, q + 1)
  BY <1>2, <1>6, <1>8, BlocksInFacts
<1> QED BY <1>6, <1>7, <1>9 DEF q, r

(* And no other block is there. *)
LEMMA PlaceOfBlock ==
  ASSUME NEW f \in Nat \ {0}, NEW b \in 1..BlocksPerFile
  PROVE  (BlockIndex(f, b) \div BlocksPerFile) + 1 = f /\ (BlockIndex(f, b) % BlocksPerFile) + 1 = b
<1>1. BlocksPerFile \in Nat \ {0} /\ f - 1 \in Int /\ b - 1 \in 0..(BlocksPerFile - 1)
  BY PositiveLayout
<1>2. /\ ((f - 1) * BlocksPerFile + (b - 1)) \div BlocksPerFile = f - 1
      /\ ((f - 1) * BlocksPerFile + (b - 1)) % BlocksPerFile = b - 1
  BY <1>1, DivisionUnique
<1> QED BY <1>1, <1>2 DEF BlockIndex

(* Each group of data has one unit of hashes. *)
LEMMA HashUnitCount ==
  ASSUME NEW s \in Sizes
  PROVE  IsFiniteSet(HashUnits(s)) /\ Cardinality(HashUnits(s)) = DataBlocks(s)
<1> DEFINE place(g) == <<(g \div BlocksPerFile) + 1, (g % BlocksPerFile) + 1, 0>>
           p == [g \in 0..(DataBlocks(s) - 1) |-> place(g)]
<1>1. DataBlocks(s) \in Nat /\ DataFiles(s) \in Nat /\ BlocksPerFile \in Nat
  BY Counts, PositiveLayout
<1>2. p \in [0..(DataBlocks(s) - 1) -> HashUnits(s)]
  BY BlockPlace DEF HashUnits
<1>3. ASSUME NEW i \in 0..(DataBlocks(s) - 1), NEW j \in 0..(DataBlocks(s) - 1), p[i] = p[j]
      PROVE  i = j
  <2>1. /\ (i \div BlocksPerFile) + 1 = (j \div BlocksPerFile) + 1
        /\ (i % BlocksPerFile) + 1 = (j % BlocksPerFile) + 1
    BY <1>3
  <2>2. i = BlockIndex((i \div BlocksPerFile) + 1, (i % BlocksPerFile) + 1)
        /\ j = BlockIndex((j \div BlocksPerFile) + 1, (j % BlocksPerFile) + 1)
    BY BlockPlace
  <2> QED BY <2>1, <2>2
<1>4. ASSUME NEW x \in HashUnits(s) PROVE \E g \in 0..(DataBlocks(s) - 1) : p[g] = x
  <2>1. PICK f \in 1..DataFiles(s) : \E b \in 1..BlocksIn(s, f) : x = <<f, b, 0>>
    BY DEF HashUnits
  <2>6. PICK b \in 1..BlocksIn(s, f) : x = <<f, b, 0>>
    BY <2>1
  <2> DEFINE g == BlockIndex(f, b)
  <2>2. b \in 1..BlocksPerFile /\ b <= BlocksIn(s, f)
    BY <1>1, BlocksInFacts
  <2>3. g \in 0..(DataBlocks(s) - 1)
    <3>1. g \in Nat /\ g < DataBlocks(s)
      BY <2>2, BlocksInFacts
    <3> QED BY <1>1, <3>1
  <2>4. place(g) = <<f, b, 0>>
    BY <1>1, <2>2, PlaceOfBlock
  <2> HIDE DEF g
  <2>5. p[g] = x
    BY <2>6, <2>3, <2>4
  <2> QED BY <2>3, <2>5
<1> HIDE DEF p
<1> QED BY <1>1, <1>2, <1>3, <1>4, Counted

(* Where unit k is, and that no other unit is there. *)
LEMMA PlaceOfUnit ==
  ASSUME NEW s \in Sizes, NEW f \in 1..DataFiles(s), NEW b \in 1..BlocksIn(s, f),
         NEW u \in 1..Fill(s, BlockIndex(f, b)), NEW k, k = BlockIndex(f, b) * UnitsPerBlock + u - 1
  PROVE  /\ k \in 0..(DataUnits(s) - 1)
         /\ (k \div (UnitsPerBlock * BlocksPerFile)) + 1 = f
         /\ ((k \div UnitsPerBlock) % BlocksPerFile) + 1 = b
         /\ (k % UnitsPerBlock) + 1 = u
<1> DEFINE g == BlockIndex(f, b)
<1>1. /\ UnitsPerBlock \in Nat \ {0} /\ BlocksPerFile \in Nat \ {0} /\ DataUnits(s) \in Nat
      /\ DataFiles(s) \in Nat /\ DataBlocks(s) \in Nat
  BY PositiveLayout, Units, Counts
<1>2. b \in 1..BlocksPerFile /\ b <= BlocksIn(s, f)
  BY <1>1, BlocksInFacts
<1>3. g \in Nat /\ g < DataBlocks(s)
  BY <1>2, BlocksInFacts
<1>4. (g \div BlocksPerFile) + 1 = f /\ (g % BlocksPerFile) + 1 = b
  BY <1>1, <1>2, PlaceOfBlock
<1>5. Fill(s, g) \in 1..UnitsPerBlock /\ Fill(s, g) <= DataUnits(s) - g * UnitsPerBlock
  <2>1. g \in 0..(DataBlocks(s) - 1)
    BY <1>1, <1>3
  <2> QED BY <2>1, FillFacts
<1> HIDE DEF g
<1>6. k = g * UnitsPerBlock + (u - 1) /\ u - 1 \in 0..(UnitsPerBlock - 1) /\ g * UnitsPerBlock \in Nat
  BY <1>1, <1>3, <1>5 DEF g
<1>7. k \div UnitsPerBlock = g /\ k % UnitsPerBlock = u - 1
  <2>1. g \in Int /\ UnitsPerBlock \in Nat \ {0}
    BY <1>1, <1>3
  <2>2. /\ (g * UnitsPerBlock + (u - 1)) \div UnitsPerBlock = g
        /\ (g * UnitsPerBlock + (u - 1)) % UnitsPerBlock = u - 1
    BY <1>6, <2>1, DivisionUnique
  <2> QED BY <1>6, <2>2
<1>8. k \in 0..(DataUnits(s) - 1)
  BY <1>1, <1>5, <1>6 DEF g
<1>9. k \div (UnitsPerBlock * BlocksPerFile) = g \div BlocksPerFile
  BY <1>1, <1>6, <1>7, DivisionTwice
<1>10. (k % UnitsPerBlock) + 1 = u
  BY <1>1, <1>5, <1>7 DEF g
<1> QED BY <1>4, <1>7, <1>8, <1>9, <1>10

(* Each unit of data has one place. *)
LEMMA DataUnitCount ==
  ASSUME NEW s \in Sizes
  PROVE  IsFiniteSet(DataPlaces(s)) /\ Cardinality(DataPlaces(s)) = DataUnits(s)
<1> DEFINE file(k) == (k \div (UnitsPerBlock * BlocksPerFile)) + 1
           block(k) == ((k \div UnitsPerBlock) % BlocksPerFile) + 1
           unit(k) == (k % UnitsPerBlock) + 1
           p == [k \in 0..(DataUnits(s) - 1) |-> <<file(k), block(k), unit(k)>>]
<1>1. DataUnits(s) \in Nat
  BY Units
<1>2. ASSUME NEW k \in 0..(DataUnits(s) - 1)
      PROVE  /\ file(k) \in 1..DataFiles(s) /\ block(k) \in 1..BlocksIn(s, file(k))
             /\ unit(k) \in 1..Fill(s, BlockIndex(file(k), block(k)))
             /\ BlockIndex(file(k), block(k)) * UnitsPerBlock + unit(k) - 1 = k
  BY UnitPlace
<1>3. ASSUME NEW x \in DataPlaces(s)
      PROVE  \E k \in 0..(DataUnits(s) - 1) : <<file(k), block(k), unit(k)>> = x
  <2>1. PICK f \in 1..DataFiles(s) :
          \E b \in 1..BlocksIn(s, f) : \E u \in 1..Fill(s, BlockIndex(f, b)) : x = <<f, b, u>>
    BY DEF DataPlaces
  <2>2. PICK b \in 1..BlocksIn(s, f) : \E u \in 1..Fill(s, BlockIndex(f, b)) : x = <<f, b, u>>
    BY <2>1
  <2>3. PICK u \in 1..Fill(s, BlockIndex(f, b)) : x = <<f, b, u>>
    BY <2>2
  <2> DEFINE k == BlockIndex(f, b) * UnitsPerBlock + u - 1
  <2>4. k \in 0..(DataUnits(s) - 1) /\ file(k) = f /\ block(k) = b /\ unit(k) = u
    BY PlaceOfUnit
  <2> HIDE DEF k, file, block, unit
  <2> QED BY <2>3, <2>4
<1> HIDE DEF file, block, unit
<1>4. p \in [0..(DataUnits(s) - 1) -> DataPlaces(s)]
  <2>1. ASSUME NEW k \in 0..(DataUnits(s) - 1) PROVE <<file(k), block(k), unit(k)>> \in DataPlaces(s)
    BY <1>2 DEF DataPlaces
  <2> QED BY <2>1
<1>5. ASSUME NEW i \in 0..(DataUnits(s) - 1), NEW j \in 0..(DataUnits(s) - 1), p[i] = p[j]
      PROVE  i = j
  <2>1. file(i) = file(j) /\ block(i) = block(j) /\ unit(i) = unit(j)
    BY <1>5
  <2>2. /\ BlockIndex(file(i), block(i)) * UnitsPerBlock + unit(i) - 1 = i
        /\ BlockIndex(file(j), block(j)) * UnitsPerBlock + unit(j) - 1 = j
    BY <1>2
  <2> QED BY <2>1, <2>2
<1>6. \A x \in DataPlaces(s) : \E k \in 0..(DataUnits(s) - 1) : p[k] = x
  BY <1>3
<1> HIDE DEF p
<1> QED BY <1>1, <1>4, <1>5, <1>6, Counted

(* Together they are as many as the header says. *)
LEMMA PackageCount ==
  ASSUME NEW s \in Sizes
  PROVE  Cardinality(Tables(s) \cup HashUnits(s) \cup DataPlaces(s)) = DataFilesSize(s)
<1> DEFINE A == Tables(s)
           B == HashUnits(s)
           C == DataPlaces(s)
<1>1. /\ IsFiniteSet(A) /\ IsFiniteSet(B) /\ IsFiniteSet(C)
      /\ Cardinality(A) = DataFiles(s) /\ Cardinality(B) = DataBlocks(s) /\ Cardinality(C) = DataUnits(s)
      /\ DataFiles(s) \in Nat /\ DataBlocks(s) \in Nat /\ DataUnits(s) \in Nat
  BY TableCount, HashUnitCount, DataUnitCount, Counts, Units
<1>2. \A x \in A : x[2] = 0 /\ x[3] = 0
  BY DEF Tables
<1>3. \A x \in B : x[2] # 0 /\ x[3] = 0
  <2> SUFFICES ASSUME NEW x \in HashUnits(s) PROVE x[2] # 0 /\ x[3] = 0
    OBVIOUS
  <2>1. PICK f \in 1..DataFiles(s) : \E b \in 1..BlocksIn(s, f) : x = <<f, b, 0>>
    BY DEF HashUnits
  <2>2. PICK b \in 1..BlocksIn(s, f) : x = <<f, b, 0>>
    BY <2>1
  <2> QED BY <2>2
<1>4. \A x \in C : x[3] # 0
  <2> SUFFICES ASSUME NEW x \in DataPlaces(s) PROVE x[3] # 0
    OBVIOUS
  <2>1. PICK f \in 1..DataFiles(s), b \in Int, u \in Int :
          x = <<f, b, u>> /\ u \in 1..Fill(s, BlockIndex(f, b))
    BY DEF DataPlaces
  <2> QED BY <2>1
<1> HIDE DEF A, B, C
<1>5. A \cap B = {} /\ (A \cup B) \cap C = {}
  BY <1>2, <1>3, <1>4
<1>6. Cardinality(A \cap B) = 0 /\ Cardinality((A \cup B) \cap C) = 0
  BY <1>5, FS_EmptySet
<1>7. IsFiniteSet(A \cup B) /\ Cardinality(A \cup B) = DataFiles(s) + DataBlocks(s)
  <2>1. /\ IsFiniteSet(A \cup B)
        /\ Cardinality(A \cup B) = Cardinality(A) + Cardinality(B) - Cardinality(A \cap B)
    BY <1>1, FS_Union
  <2> QED BY <1>1, <1>6, <2>1
<1>8. Cardinality((A \cup B) \cup C) = DataFiles(s) + DataBlocks(s) + DataUnits(s)
  <2>1. Cardinality((A \cup B) \cup C)
          = Cardinality(A \cup B) + Cardinality(C) - Cardinality((A \cup B) \cap C)
    BY <1>1, <1>7, FS_Union
  <2> QED BY <1>1, <1>6, <1>7, <2>1
<1> QED BY <1>1, <1>8 DEF A, B, C, DataFilesSize

(* What calcDataFileSizes computes before the first write is what          *)
(* writeIsoBody leaves on disk.                                            *)
THEOREM HeaderCounts == ASSUME NoFaultIgnored PROVE Spec => []HeaderTruthful
<1>1. Control /\ Content => HeaderTruthful
  <2> SUFFICES ASSUME Control, Content, Published
               PROVE  package.DataFiles = Len(files) /\ package.DataFilesSize = Cardinality(UnitsOnDisk)
    BY DEF HeaderTruthful
  <2>1. PICK s \in Sizes :
          /\ package = GoodMeta(s, Sha(files[1].table)) /\ WholeBody(files, s)
          /\ Len(files) = DataFiles(s) /\ DOMAIN files = 1..DataFiles(s)
    BY PublishedBody
  <2>2. package.DataFiles = DataFiles(s) /\ package.DataFilesSize = DataFilesSize(s)
    BY <2>1 DEF GoodMeta
  <2>3. ASSUME NEW f \in 1..DataFiles(s), NEW b \in 1..BlocksIn(s, f)
        PROVE  BlockUnits(f, b) = {<<f, b, 0>>} \cup {<<f, b, u>> : u \in 1..Fill(s, BlockIndex(f, b))}
    <3>1. files[f].blocks[b] # Torn /\ Len(files[f].blocks[b].data) = Fill(s, BlockIndex(f, b))
          /\ Fill(s, BlockIndex(f, b)) \in 1..UnitsPerBlock
      BY <2>1, BlockShape
    <3>2. 0..Fill(s, BlockIndex(f, b)) = {0} \cup 1..Fill(s, BlockIndex(f, b))
      BY <3>1, PositiveLayout
    <3> QED BY <3>1, <3>2 DEF BlockUnits
  <2>4. ASSUME NEW f \in 1..DataFiles(s)
        PROVE  FileUnits(f) = {<<f, 0, 0>>} \cup UNION {BlockUnits(f, b) : b \in 1..BlocksIn(s, f)}
    BY <2>1, FileShape DEF FileUnits
  <2>5. UnitsOnDisk = UNION {FileUnits(f) : f \in 1..DataFiles(s)}
    BY <2>1 DEF UnitsOnDisk
  <2>6. UnitsOnDisk = Tables(s) \cup HashUnits(s) \cup DataPlaces(s)
    <3>1. ASSUME NEW x \in UnitsOnDisk PROVE x \in Tables(s) \cup HashUnits(s) \cup DataPlaces(s)
      BY <2>3, <2>4, <2>5 DEF Tables, HashUnits, DataPlaces
    <3>2. ASSUME NEW x \in Tables(s) PROVE x \in UnitsOnDisk
      BY <2>4, <2>5 DEF Tables
    <3>3. ASSUME NEW x \in HashUnits(s) PROVE x \in UnitsOnDisk
      BY <2>3, <2>4, <2>5 DEF HashUnits
    <3>4. ASSUME NEW x \in DataPlaces(s) PROVE x \in UnitsOnDisk
      BY <2>3, <2>4, <2>5 DEF DataPlaces
    <3> QED BY <3>1, <3>2, <3>3, <3>4
  <2> QED BY <2>1, <2>2, <2>6, PackageCount
<1> QED BY <1>1, ContentInvariant, PTL

-------------------------------------------------------------------------------
(* Every published package verifies and is the image. *)
DeliveryGood ==
  Published => outDir /\ \E s \in ImageSizes : Delivered = Package!Image(DataUnits(s))

(* What is published when the header is written is the package of the image. *)
LEMMA PublishedDelivers == ASSUME ImagesFit, Control, Content PROVE DeliveryGood
<1> SUFFICES ASSUME Published
             PROVE  outDir /\ \E s \in ImageSizes : Delivered = Package!Image(DataUnits(s))
  BY DEF DeliveryGood
<1>1. PICK s \in ImageSizes :
        /\ package = GoodMeta(s, Sha(files[1].table))
        /\ WholeBody(files, s) /\ ChainedFrom(files, 1)
        /\ s \in Sizes /\ Len(files) = DataFiles(s) /\ DataFiles(s) \in Nat \ {0}
  BY PublishedBody
<1>2. ASSUME NEW f \in 1..DataFiles(s) PROVE Sha(files[f].table) = Link(f)
  <2>1. CASE f = 1
    BY <1>1, <2>1 DEF Link, GoodMeta
  <2>2. CASE f # 1
    <3>1. f - 1 \in 1..(Len(files) - 1) /\ (f - 1) + 1 = f
      BY <1>1, <2>2
    <3>2. files[f - 1].table.next = Sha(files[f].table)
      BY <1>1, <3>1 DEF ChainedFrom
    <3> QED BY <2>2, <3>2 DEF Link
  <2> QED BY <2>1, <2>2
<1>3. ASSUME NEW f \in 1..DataFiles(s), NEW b \in 1..BlocksIn(s, f)
      PROVE  BlockIntact(files[f].blocks[b], files[f].table.entries[b])
  <2> DEFINE g == BlockIndex(f, b)
             block == files[f].blocks[b]
  <2>1. /\ Fill(s, g) \in 1..UnitsPerBlock /\ block # Torn /\ block.hashes = GoodHashes(s, g)
        /\ \A u \in 1..Fill(s, g) : block.data[u] = g * UnitsPerBlock + u - 1
        /\ Len(block.data) = Fill(s, g)
    BY <1>1, BlockShape
  <2>2. files[f].table.entries[b] = Sha(GoodHashes(s, g))
    <3>1. files[f].table.entries = GoodEntries(s, f, BlocksIn(s, f)) /\ BlocksIn(s, f) \in 1..BlocksPerFile
      BY <1>1, FileShape
    <3>2. b \in 1..BlocksPerFile /\ b <= BlocksIn(s, f)
      BY <3>1, PositiveLayout
    <3> QED BY <3>1, <3>2 DEF GoodEntries
  <2> HIDE DEF g, block
  <2>3. ASSUME NEW u \in 1..Len(block.data) PROVE Sha(block.data[u]) = block.hashes[u]
    <3>1. u \in 1..Fill(s, g) /\ u \in 1..UnitsPerBlock /\ u <= Fill(s, g)
      BY <2>1, PositiveLayout
    <3> QED BY <2>1, <3>1 DEF GoodHashes
  <2>4. BlockIntact(block, Sha(GoodHashes(s, g)))
    BY <2>1, <2>3 DEF BlockIntact
  <2> QED BY <2>2, <2>4 DEF block
<1>4. \A f \in 1..Len(files) : FileIntact(f)
  <2> SUFFICES ASSUME NEW f \in 1..DataFiles(s) PROVE FileIntact(f)
    BY <1>1
  <2>1. Len(files[f].blocks) = BlocksIn(s, f)
    BY <1>1, FileShape
  <2> QED BY <1>2, <1>3, <2>1 DEF FileIntact
<1>5. ASSUME NEW k \in 0..(DataUnits(s) - 1) PROVE UnitAt(k) = k
  <2> DEFINE f == (k \div (UnitsPerBlock * BlocksPerFile)) + 1
             b == ((k \div UnitsPerBlock) % BlocksPerFile) + 1
             u == (k % UnitsPerBlock) + 1
  <2>1. /\ f \in 1..DataFiles(s) /\ b \in 1..BlocksIn(s, f) /\ u \in 1..Fill(s, BlockIndex(f, b))
        /\ BlockIndex(f, b) * UnitsPerBlock + u - 1 = k
    BY <1>1, UnitPlace
  <2>2. UnitAt(k) = IF /\ f \in 1..Len(files)
                       /\ b \in 1..Len(files[f].blocks)
                       /\ u \in 1..Len(files[f].blocks[b].data)
                    THEN files[f].blocks[b].data[u]
                    ELSE Blank
    BY DEF UnitAt
  <2> HIDE DEF f, b, u
  <2>3. Len(files[f].blocks) = BlocksIn(s, f)
    BY <1>1, <2>1, FileShape
  <2>4. /\ Len(files[f].blocks[b].data) = Fill(s, BlockIndex(f, b))
        /\ files[f].blocks[b].data[u] = BlockIndex(f, b) * UnitsPerBlock + u - 1
    BY <1>1, <2>1, BlockShape
  <2> QED BY <1>1, <2>1, <2>2, <2>3, <2>4
<1>6. package.NumberOfDataBlocks + 1 = DataUnits(s) /\ DataUnits(s) \in Nat
  <2>1. package.NumberOfDataBlocks = NumberOfDataBlocks(s)
    BY <1>1 DEF GoodMeta
  <2>2. s = 2 * (DataUnits(s) - 1) /\ DataUnits(s) \in Nat /\ s \in Nat
    BY <1>1, Units DEF Sizes
  <2>3. s \div 2 = DataUnits(s) - 1 /\ s \div 2 \in Nat
    BY <2>2
  <2>4. s \div 2 < 16777216
    BY SMT DEF ImagesFit
  <2>5. NumberOfDataBlocks(s) = s \div 2
    BY <2>3, <2>4, SMT DEF NumberOfDataBlocks
  <2> QED BY <2>1, <2>2, <2>3, <2>5
<1>7. Delivered = Package!Image(DataUnits(s))
  <2>1. Delivered = [k \in 1..DataUnits(s) |-> UnitAt(k - 1)]
    BY <1>4, <1>6 DEF Delivered
  <2>2. \A k \in 1..DataUnits(s) : UnitAt(k - 1) = k - 1
    <3>1. \A k \in 1..DataUnits(s) : k - 1 \in 0..(DataUnits(s) - 1)
      BY <1>6
    <3> QED BY <1>5, <3>1
  <2> QED BY <2>1, <2>2 DEF Package!Image
<1>8. outDir
  BY NotRecords, <1>1 DEF Control, FolderControl, Published
<1> QED BY <1>1, <1>7, <1>8

(* Steps that leave the folder, or a folder without a header, as it is.    *)
LEMMA Unseen ==
  ASSUME UNCHANGED <<outDir, package>>, package = NoPackage \/ UNCHANGED files
  PROVE  UNCHANGED <<Status, Delivered>>
<1>1. Status' = Status
  BY DEF Status, Published
<1>2. CASE package = NoPackage
  <2>1. ~Published /\ ~Published'
    BY <1>2 DEF Published, NoPackage
  <2>2. Delivered = << >> /\ Delivered' = << >>
    BY <2>1 DEF Delivered
  <2> QED BY <1>1, <2>2
<1>3. CASE UNCHANGED files
  <2>1. Published' = Published
    BY DEF Published
  <2>2. \A n : UnitAt(n)' = UnitAt(n)
    BY <1>3 DEF UnitAt
  <2>3. \A f : Link(f)' = Link(f)
    BY <1>3 DEF Link
  <2>4. \A f : FileIntact(f)' = FileIntact(f)
    BY <1>3, <2>3 DEF FileIntact, BlockIntact
  <2>5. Delivered' = Delivered
    BY <1>3, <2>1, <2>2, <2>4 DEF Delivered
  <2> QED BY <1>1, <2>5
<1> QED BY <1>1, <1>2, <1>3

(* Creating the folder begins a package, dumping the header publishes it,  *)
(* deleting the folder removes it, and nothing else is seen by a reader.   *)
LEMMA StepSeen ==
  ASSUME Control, Content, DeliveryGood', [Next]_vars
  PROVE  Package!Next \/ UNCHANGED <<Status, Delivered>>
<1>1. CASE PrepareOutputPath
  <2>1. CASE UNCHANGED outDir
    BY <1>1, <2>1, Unseen DEF PrepareOutputPath
  <2>2. CASE ~UNCHANGED outDir
    <3>1. ~outDir /\ outDir' /\ package' = package
      BY <1>1, <2>2 DEF PrepareOutputPath
    <3>2. package = NoPackage
      BY <3>1 DEF Control, FolderControl
    <3>3. Status = "absent" /\ Status' = "building" /\ Delivered' = Delivered
      BY <3>1, <3>2 DEF Status, Delivered, Published
    <3> QED BY <3>3 DEF Package!Next, Package!Begin
  <2> QED BY <2>1, <2>2
<1>2. CASE StartNewFile \/ FillBlock \/ WriteBlockToFile \/ SealFile \/ FixHeader
  <2>1. package = NoPackage
    BY <1>2
    DEF StartNewFile, FillBlock, WriteBlockToFile, SealFile, FixHeader, Control, FolderControl, Writing
  <2>2. UNCHANGED <<outDir, package>>
    BY <1>2 DEF StartNewFile, FillBlock, WriteBlockToFile, SealFile, FixHeader, folder
  <2> QED BY <2>1, <2>2, Unseen
<1>3. CASE Start \/ OpenIsoFile \/ FixDone \/ Kill \/ UNCHANGED vars
  BY <1>3, Unseen DEF Start, OpenIsoFile, FixDone, Kill, vars, folder
<1>4. CASE DumpHeader
  <2>1. /\ outDir /\ package = NoPackage /\ UNCHANGED <<outDir, files>>
        /\ package' = package \/ package' = xMeta
    BY <1>4 DEF DumpHeader, Control, FolderControl, Writing
  <2>2. CASE package' = package
    BY <2>1, <2>2, Unseen
  <2>3. CASE package' = xMeta
    <3>1. xMeta # NoPackage
      BY <1>4, NotRecords DEF DumpHeader, Content, MetaContent
    <3>2. Status = "building" /\ Status' = "published" /\ Published'
      BY <2>1, <2>3, <3>1 DEF Status, Published
    <3>3. \E s \in ImageSizes : Delivered' = Package!Image(DataUnits(s))
      BY <3>2 DEF DeliveryGood, Package!Image
    <3>4. \E n \in {DataUnits(s) : s \in ImageSizes} : Delivered' = Package!Image(n)
      BY <3>3
    <3> QED BY <3>2, <3>4 DEF Package!Next, Package!Publish
  <2> QED BY <2>1, <2>2, <2>3
<1>5. CASE RemoveOutput
  <2>1. outDir /\ ~outDir' /\ package' = NoPackage
    BY <1>5 DEF RemoveOutput
  <2>2. Status # "absent" /\ Status' = "absent" /\ Delivered' = << >>
    BY <2>1 DEF Status, Delivered, Published
  <2> QED BY <2>2 DEF Package!Next, Package!Remove
<1> QED BY <1>1, <1>2, <1>3, <1>4, <1>5 DEF Next, Program

(* iso2svod implements the abstract package: from the step that dumps the  *)
(* header a reader that walks the hash chain finds every unit in order.    *)
THEOREM RefinesPackage == ASSUME NoFaultIgnored, ImagesFit PROVE Spec => PackageSpec
<1>1. Init => Package!Init
  BY DEF Init, Package!Init, Status, Delivered, Published
<1>2. Control /\ Content => DeliveryGood
  BY PublishedDelivers
<1>3. Control /\ Content /\ DeliveryGood' /\ [Next]_vars => [Package!Next]_<<Status, Delivered>>
  BY StepSeen
<1>4. Spec => [](Control /\ Content)
  BY ContentInvariant
<1> QED BY <1>1, <1>2, <1>3, <1>4, PTL DEF Spec, PackageSpec, Package!Spec
===============================================================================
