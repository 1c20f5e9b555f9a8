------------------------------- MODULE SuProofs -------------------------------
(***************************************************************************)
(* Proof that su_check calls a container good exactly when it is whole,    *)
(* and that its summary and the folder it fills say so of every file, for  *)
(* any number of hash tables and entries and any manifest.                 *)
(***************************************************************************)
EXTENDS SuProperties, FiniteSetTheorems, TLAPS

CountsOfBlocks == 1..(PerTable * PerTable)

(* The blocks of table t, and the way it is counted on from table 0. *)
Fill(n, t) == IF t + 1 < Tables(n) THEN PerTable ELSE n - t * PerTable

-------------------------------------------------------------------------------
(* Division with a remainder, and that it is unique. *)
LEMMA Division ==
  ASSUME NEW x \in Int, NEW n \in Nat \ {0}
  PROVE  x = n * (x \div n) + (x % n) /\ x % n \in 0..(n - 1) /\ x \div n \in Int
OBVIOUS

(* Quotient and remainder are the only ones. *)
LEMMA DivisionUnique ==
  ASSUME NEW n \in Nat \ {0}, NEW q \in Int, NEW r \in 0..(n - 1)
  PROVE  (q * n + r) \div n = q /\ (q * n + r) % n = r
OBVIOUS

(* A product with the size of a table grows with its factor. *)
LEMMA Scaled ==
  ASSUME NEW x \in Int, NEW y \in Int, NEW n \in Nat \ {0}
  PROVE  /\ x * n \in Int /\ (x + 1) * n = x * n + n
         /\ x < y <=> x * n < y * n
         /\ x < y => x * n + n <= y * n
OBVIOUS

(* The tables of a container hold its blocks, and the last is not empty. *)
LEMMA TableCount ==
  ASSUME NEW n \in CountsOfBlocks
  PROVE  /\ n \in Nat \ {0} /\ PerTable \in Nat \ {0}
         /\ Tables(n) \in 1..PerTable
         /\ (Tables(n) - 1) * PerTable \in Nat
         /\ (Tables(n) - 1) * PerTable < n
         /\ n <= (Tables(n) - 1) * PerTable + PerTable
<1> DEFINE T == Tables(n)
           r == (n + PerTable - 1) % PerTable
<1>1. PerTable \in Nat \ {0} /\ PerTable * PerTable \in Nat
  BY WalkAssumption
<1>2. n \in Nat \ {0} /\ n <= PerTable * PerTable
  BY <1>1 DEF CountsOfBlocks
<1>3. n + PerTable - 1 = PerTable * T + r /\ r \in 0..(PerTable - 1) /\ T \in Int
  <2>1. n + PerTable - 1 \in Int
    BY <1>1, <1>2
  <2> QED BY <2>1, <1>1, Division DEF Tables
<1> HIDE DEF T, r
<1>4. (T - 1) * PerTable = PerTable * T - PerTable
  BY <1>1, <1>3
<1>5. (T - 1) * PerTable < n /\ n <= (T - 1) * PerTable + PerTable
  BY <1>1, <1>2, <1>3, <1>4
<1>6. T >= 1
  BY <1>1, <1>2, <1>3, <1>5
<1>7. T <= PerTable
  <2>1. (T - 1) * PerTable < PerTable * PerTable /\ T - 1 \in Int
    BY <1>1, <1>2, <1>3, <1>4, <1>5
  <2> QED BY <2>1, <1>1, <1>3, Scaled
<1>8. (T - 1) * PerTable \in Nat
  BY <1>1, <1>3, <1>6
<1> QED BY <1>1, <1>2, <1>3, <1>5, <1>6, <1>7, <1>8 DEF T

(* Every table but the last is full, and no block lies behind the last.    *)
LEMMA Fills ==
  ASSUME NEW n \in CountsOfBlocks, NEW t \in 0..(Tables(n) - 1)
  PROVE  /\ t * PerTable \in Nat
         /\ Fill(n, t) \in 1..PerTable /\ t * PerTable + Fill(n, t) <= n
         /\ t + 1 < Tables(n) => (t + 1) * PerTable = t * PerTable + PerTable
         /\ t + 1 = Tables(n) => t * PerTable + Fill(n, t) = n
         /\ \A e \in 1..PerTable : t * PerTable + e <= n <=> e <= Fill(n, t)
<1>1. /\ n \in Nat \ {0} /\ PerTable \in Nat \ {0} /\ Tables(n) \in 1..PerTable
      /\ (Tables(n) - 1) * PerTable \in Nat /\ (Tables(n) - 1) * PerTable < n
      /\ n <= (Tables(n) - 1) * PerTable + PerTable
  BY TableCount
<1>2. t * PerTable \in Nat /\ (t + 1) * PerTable = t * PerTable + PerTable /\ t \in Int
  BY <1>1
<1>3. CASE t + 1 < Tables(n)
  <2>1. t < Tables(n) - 1 /\ Tables(n) - 1 \in Int
    BY <1>1, <1>2, <1>3
  <2>2. t * PerTable + PerTable <= (Tables(n) - 1) * PerTable
    BY <2>1, <1>1, <1>2, Scaled
  <2> QED BY <2>2, <1>1, <1>2, <1>3 DEF Fill
<1>4. CASE t + 1 = Tables(n)
  <2>1. t = Tables(n) - 1
    BY <1>1, <1>2, <1>4
  <2>2. t * PerTable < n /\ n <= t * PerTable + PerTable
    BY <2>1, <1>1
  <2>3. Fill(n, t) = n - t * PerTable
    BY <1>1, <1>4 DEF Fill
  <2> QED BY <2>2, <2>3, <1>1, <1>2, <1>4
<1> QED BY <1>1, <1>3, <1>4

(* A table lies behind the blocks of the one before it, with the main      *)
(* table between the first two.                                            *)
LEMMA Places ==
  ASSUME NEW n \in CountsOfBlocks, NEW t \in 0..(Tables(n) - 1)
  PROVE  /\ TablePlace(t) \in Nat /\ MainPlace \in Nat /\ BlocksLen(n) \in Nat
         /\ t = 0 => TablePlace(t) = 0
         /\ t > 0 => TablePlace(t) > MainPlace
         /\ t = 0 /\ t + 1 < Tables(n) =>
              TablePlace(t) + PerTable + 1 = MainPlace /\ TablePlace(t + 1) = MainPlace + 1
         /\ t > 0 /\ t + 1 < Tables(n) => TablePlace(t + 1) = TablePlace(t) + PerTable + 1
         /\ t + 1 = Tables(n) => TablePlace(t) + Fill(n, t) + 1 = BlocksLen(n)
         /\ TablePlace(t) + Fill(n, t) + 1 <= BlocksLen(n)
         /\ t + 1 < Tables(n) => TablePlace(t + 1) + 2 <= BlocksLen(n)
<1>1. /\ n \in Nat \ {0} /\ PerTable \in Nat \ {0} /\ Tables(n) \in 1..PerTable
      /\ (Tables(n) - 1) * PerTable \in Nat /\ (Tables(n) - 1) * PerTable < n
      /\ n <= (Tables(n) - 1) * PerTable + PerTable
  BY TableCount
<1>2. /\ t * PerTable \in Nat /\ Fill(n, t) \in 1..PerTable /\ t \in Int
      /\ t * PerTable + Fill(n, t) <= n
      /\ t + 1 = Tables(n) => t * PerTable + Fill(n, t) = n
      /\ t + 1 < Tables(n) => (t + 1) * PerTable = t * PerTable + PerTable
      /\ t + 1 < Tables(n) => t * PerTable + PerTable < n
  <2>1. t + 1 < Tables(n) => t * PerTable + PerTable < n
    <3> SUFFICES ASSUME t + 1 < Tables(n) PROVE t * PerTable + PerTable < n
      OBVIOUS
    <3>1. t \in Int /\ Tables(n) - 1 \in Int /\ t < Tables(n) - 1
      BY <1>1
    <3>2. t * PerTable + PerTable <= (Tables(n) - 1) * PerTable
      BY <3>1, <1>1, Scaled
    <3> QED BY <3>2, <3>1, <1>1, Scaled
  <2> QED BY <2>1, Fills, <1>1
<1>3. t * (PerTable + 1) = t * PerTable + t /\ (t + 1) * (PerTable + 1) = t * PerTable + t + PerTable + 1
  BY <1>1, <1>2
<1>4. /\ t = 0 => TablePlace(t) = 0
      /\ t > 0 => TablePlace(t) = t * PerTable + t + 1
  BY <1>1, <1>2, <1>3 DEF TablePlace
<1>5. TablePlace(t + 1) = t * PerTable + t + PerTable + 2
  BY <1>1, <1>2, <1>3 DEF TablePlace
<1>6. t = 0 => t * PerTable = 0
  BY <1>1
<1>7. t > 0 => t * PerTable >= PerTable
  BY <1>1
<1> DEFINE q == t * PerTable
<1>8. /\ q \in Nat
      /\ t = 0 => q = 0
      /\ t > 0 => q >= PerTable
      /\ t = 0 => TablePlace(t) = 0
      /\ t > 0 => TablePlace(t) = q + t + 1
      /\ TablePlace(t + 1) = q + t + PerTable + 2
      /\ q + Fill(n, t) <= n /\ (t + 1 = Tables(n) => q + Fill(n, t) = n)
      /\ t + 1 < Tables(n) => q + PerTable < n
  BY <1>2, <1>4, <1>5, <1>6, <1>7
<1>9. /\ MainPlace = PerTable + 1
      /\ Tables(n) = 1 => BlocksLen(n) = n + 1
      /\ Tables(n) > 1 => BlocksLen(n) = n + Tables(n) + 1
  BY <1>1 DEF MainPlace, BlocksLen
<1>10. Tables(n) \in Nat \ {0} /\ t + 1 <= Tables(n) /\ t \in Nat
  BY <1>1
<1> HIDE DEF q
<1>11. n \in Nat /\ PerTable \in Nat \ {0} /\ Fill(n, t) \in Nat /\ Fill(n, t) <= PerTable
  BY <1>1, <1>2
<1>12. t + 1 = Tables(n) => TablePlace(t) + Fill(n, t) + 1 = BlocksLen(n)
  BY <1>8, <1>9, <1>10, <1>11
<1>13. t + 1 < Tables(n) => TablePlace(t) + Fill(n, t) + 1 <= BlocksLen(n) /\ TablePlace(t + 1) + 2 <= BlocksLen(n)
  BY <1>8, <1>9, <1>10, <1>11
<1>14. /\ TablePlace(t) \in Nat /\ MainPlace \in Nat /\ BlocksLen(n) \in Nat
       /\ t = 0 => TablePlace(t) = 0
       /\ t > 0 => TablePlace(t) > MainPlace
  BY <1>8, <1>9, <1>10, <1>11
<1>15. /\ t = 0 /\ t + 1 < Tables(n) =>
            TablePlace(t) + PerTable + 1 = MainPlace /\ TablePlace(t + 1) = MainPlace + 1
       /\ t > 0 /\ t + 1 < Tables(n) => TablePlace(t + 1) = TablePlace(t) + PerTable + 1
  BY <1>8, <1>9, <1>10, <1>11
<1>16. t + 1 = Tables(n) \/ t + 1 < Tables(n)
  BY <1>10
<1> QED BY <1>10, <1>12, <1>13, <1>14, <1>15, <1>16

-------------------------------------------------------------------------------
(* What lies where in a whole container. *)
LEMMA BlockAt ==
  ASSUME NEW n \in CountsOfBlocks, NEW t \in 0..(Tables(n) - 1), NEW e \in 0..Fill(n, t)
  PROVE  /\ TablePlace(t) + e + 1 \in 1..BlocksLen(n)
         /\ Blocks(n)[TablePlace(t) + e + 1] =
              IF e = 0 THEN Table(n, t) ELSE Data(t * PerTable + e)
<1>1. /\ TablePlace(t) \in Nat /\ BlocksLen(n) \in Nat /\ MainPlace \in Nat
      /\ t = 0 => TablePlace(t) = 0
      /\ t > 0 => TablePlace(t) > MainPlace
      /\ TablePlace(t) + Fill(n, t) + 1 <= BlocksLen(n)
  BY Places
<1>2. Fill(n, t) \in 1..PerTable /\ PerTable \in Nat \ {0} /\ t \in Nat /\ e \in 0..PerTable
  BY TableCount, Fills
<1> DEFINE x == TablePlace(t) + e + 1
           place == IF x > MainPlace THEN x - 2 ELSE x - 1
<1>3. x \in 1..BlocksLen(n)
  BY <1>1, <1>2
<1>4. place = t * (PerTable + 1) + e /\ x # MainPlace + 1
  <2>1. CASE t = 0
    <3>1. x = e + 1 /\ x <= MainPlace
      BY <2>1, <1>1, <1>2 DEF MainPlace
    <3>2. t * (PerTable + 1) = 0
      BY <2>1, <1>2
    <3> QED BY <3>1, <3>2, <1>1, <1>2
  <2>2. CASE t > 0
    <3>1. TablePlace(t) = t * (PerTable + 1) + 1
      BY <2>2 DEF TablePlace
    <3>2. x > MainPlace + 1
      BY <2>2, <1>1, <1>2
    <3> QED BY <3>1, <3>2, <1>1, <1>2
  <2> QED BY <2>1, <2>2, <1>2
<1>5. place \div (PerTable + 1) = t /\ place % (PerTable + 1) = e
  <2>1. PerTable + 1 \in Nat \ {0} /\ t \in Int /\ e \in 0..((PerTable + 1) - 1)
    BY <1>2
  <2>2. (t * (PerTable + 1) + e) \div (PerTable + 1) = t /\ (t * (PerTable + 1) + e) % (PerTable + 1) = e
    BY <2>1, DivisionUnique
  <2> HIDE DEF place
  <2> QED BY <2>2, <1>4
<1>6. Blocks(n)[x] =
        IF x = MainPlace + 1 THEN Main(n)
        ELSE IF (place % (PerTable + 1)) = 0 THEN Table(n, place \div (PerTable + 1))
             ELSE Data((place \div (PerTable + 1)) * PerTable + (place % (PerTable + 1)))
  BY <1>3 DEF Blocks
<1> HIDE DEF place, x
<1>7. Blocks(n)[x] = IF e = 0 THEN Table(n, t) ELSE Data(t * PerTable + e)
  BY <1>4, <1>5, <1>6
<1> QED BY <1>3, <1>7 DEF x

(* The same by kinds. *)
LEMMA WholeBlocks ==
  ASSUME NEW n \in CountsOfBlocks
  PROVE  /\ \A t \in 0..(Tables(n) - 1) : Blocks(n)[TablePlace(t) + 1] = Table(n, t)
         /\ \A t \in 0..(Tables(n) - 1) : \A e \in 1..Fill(n, t) :
              Blocks(n)[TablePlace(t) + e + 1] = Data(t * PerTable + e)
         /\ Tables(n) > 1 =>
              Blocks(n)[MainPlace + 1] = Main(n) /\ MainPlace + 3 <= BlocksLen(n)
<1>1. ASSUME NEW t \in 0..(Tables(n) - 1)
      PROVE  Blocks(n)[TablePlace(t) + 1] = Table(n, t)
  <2>1. 0 \in 0..Fill(n, t) /\ TablePlace(t) + 0 + 1 = TablePlace(t) + 1
    BY TableCount, Fills, Places
  <2> QED BY <2>1, BlockAt
<1>2. ASSUME NEW t \in 0..(Tables(n) - 1), NEW e \in 1..Fill(n, t)
      PROVE  Blocks(n)[TablePlace(t) + e + 1] = Data(t * PerTable + e)
  <2>1. e \in 0..Fill(n, t) /\ e # 0
    BY TableCount, Fills
  <2> QED BY <2>1, BlockAt
<1>3. ASSUME Tables(n) > 1
      PROVE  Blocks(n)[MainPlace + 1] = Main(n) /\ MainPlace + 3 <= BlocksLen(n)
  <2>1. 0 \in 0..(Tables(n) - 1) /\ 0 + 1 < Tables(n)
    BY <1>3, TableCount
  <2>2. TablePlace(0 + 1) + 2 <= BlocksLen(n) /\ TablePlace(0 + 1) = MainPlace + 1
        /\ MainPlace \in Nat /\ BlocksLen(n) \in Nat
    BY <2>1, Places
  <2>3. MainPlace + 3 <= BlocksLen(n) /\ MainPlace + 1 \in 1..BlocksLen(n)
    BY <2>2
  <2> QED BY <2>3 DEF Blocks
<1> QED BY <1>1, <1>2, <1>3

(* The entries of the tables. *)
LEMMA WholeTables ==
  ASSUME NEW n \in CountsOfBlocks
  PROVE  /\ \A t \in 0..(Tables(n) - 1) : \A e \in 1..PerTable :
              /\ e <= Fill(n, t) => /\ Table(n, t).entries[e] = Sha(Data(t * PerTable + e))
                                    /\ Table(n, t).entries[e] # Zero
              /\ e > Fill(n, t) => Table(n, t).entries[e] = Zero
         /\ \A t \in 0..(Tables(n) - 1) : Main(n).entries[t + 1] = Sha(Table(n, t))
         /\ Main(n).level = 0
<1>1. ASSUME NEW t \in 0..(Tables(n) - 1), NEW e \in 1..PerTable
      PROVE  /\ e <= Fill(n, t) => /\ Table(n, t).entries[e] = Sha(Data(t * PerTable + e))
                                   /\ Table(n, t).entries[e] # Zero
             /\ e > Fill(n, t) => Table(n, t).entries[e] = Zero
  <2>1. /\ t * PerTable \in Nat /\ n \in Nat /\ PerTable \in Nat /\ Fill(n, t) \in 1..PerTable
        /\ t * PerTable + e <= n <=> e <= Fill(n, t)
    BY TableCount, Fills
  <2>2. Table(n, t).entries[e] = IF t * PerTable + e <= n THEN Sha(Data(t * PerTable + e)) ELSE Zero
    BY DEF Table
  <2>3. CASE e <= Fill(n, t)
    <3>1. t * PerTable + e \in 1..(PerTable * PerTable)
      BY <2>1, <2>3 DEF CountsOfBlocks
    <3> QED BY <3>1, <2>1, <2>2, <2>3, UpdatesAssumption
  <2>4. CASE e > Fill(n, t)
    BY <2>1, <2>2, <2>4
  <2> QED BY <2>1, <2>3, <2>4
<1>2. ASSUME NEW t \in 0..(Tables(n) - 1)
      PROVE  Main(n).entries[t + 1] = Sha(Table(n, t))
  <2>1. t + 1 \in 1..PerTable /\ t + 1 <= Tables(n) /\ (t + 1) - 1 = t
    BY TableCount
  <2> QED BY <2>1 DEF Main
<1>3. Main(n).level = 0
  BY DEF Main
<1> QED BY <1>1, <1>2, <1>3

(* Blocks with the same hash are the same block. *)
LEMMA HashesTell ==
  ASSUME NEW a, NEW b, Sha(a) = Sha(b)
  PROVE  a = b
BY DEF Sha
-------------------------------------------------------------------------------
(* The walk.  Up to the end of the first table what was read is what that  *)
(* table says; behind it, everything is where and what it should be.       *)
Same(offset) == Block(offset) = Blocks(con.size)[offset + 1]
FirstRead == \A k \in 1..(currOffset - 1) : Sha(Block(k)) = Entry(0, k - 1)
AllSame == \A k \in 0..(currOffset - 1) : Same(k)

Reading ==
  /\ j \in 0..(Tables(con.size) - 1) /\ hb = TablePlace(j) /\ i \in 0..PerTable
  /\ currOffset \in 0..Length
  /\ contProcess => currOffset = hb + 1 + i
  /\ ~contProcess =>
       /\ i = PerTable /\ currOffset \in (hb + 1)..(hb + PerTable)
       /\ Entry(hb, currOffset - hb - 1) = Zero
  /\ j = 0 => mhb = NoBlock /\ FirstRead
  /\ j > 0 => mhb = MainPlace /\ AllSame

(* An unmade main table is taken for the second one. *)
Astray ==
  /\ Tables(con.size) > 1 /\ Block(MainPlace).level # 0
  /\ hb = MainPlace /\ i = 0 /\ currOffset = MainPlace + 1

(* The one block of a lone last table is not looked at. *)
LastSeen(n) == Tables(n) > 2 => Fill(n, Tables(n) - 1) # 1

WalkInv ==
  /\ contProcess \in BOOLEAN /\ verdict \in {"none", "checking", "ok", "corrupt"}
  /\ verdict # "none" => MaybeDamaged(con)
  /\ verdict = "checking" => con.headerOk /\ (Reading \/ Astray)
  /\ verdict = "ok" => con.headerOk /\ (LastSeen(con.size) => con.blocks = Blocks(con.size))
  /\ verdict = "corrupt" => con # Whole(con.size)

-------------------------------------------------------------------------------
(* What there is to know of a container that may be damaged. *)
LEMMA Shape ==
  ASSUME NEW c, MaybeDamaged(c)
  PROVE  /\ c.size \in CountsOfBlocks /\ c.headerOk \in BOOLEAN
         /\ Len(c.blocks) = BlocksLen(c.size) /\ BlocksLen(c.size) \in Nat
         /\ Tables(c.size) > 1 => c.root = Sha(Main(c.size))
         /\ c = Whole(c.size) <=> c.headerOk /\ c.blocks = Blocks(c.size)
<1>1. c.size \in CountsOfBlocks /\ c.headerOk \in BOOLEAN
  BY DEF MaybeDamaged, CountsOfBlocks
<1>2. BlocksLen(c.size) \in Nat
  <2>1. 0 \in 0..(Tables(c.size) - 1)
    BY <1>1, TableCount
  <2> QED BY <1>1, <2>1, Places
<1>3. c.blocks = [x \in 1..BlocksLen(c.size) |-> c.blocks[x]]
  BY DEF MaybeDamaged
<1>4. Len(c.blocks) = BlocksLen(c.size)
  BY <1>2, <1>3
<1>5. c = [headerOk |-> c.headerOk, blocks |-> c.blocks, size |-> c.size,
           root |-> Sha(IF Tables(c.size) > 1 THEN Main(c.size) ELSE Table(c.size, 0))]
  BY DEF MaybeDamaged, Whole
<1>6. Tables(c.size) > 1 => c.root = Sha(Main(c.size))
  BY <1>5
<1>7. ASSUME c = Whole(c.size) PROVE c.headerOk /\ c.blocks = Blocks(c.size)
  BY <1>7 DEF Whole
<1>8. ASSUME c.headerOk, c.blocks = Blocks(c.size) PROVE c = Whole(c.size)
  BY <1>1, <1>5, <1>8 DEF Whole
<1> QED BY <1>1, <1>2, <1>4, <1>6, <1>7, <1>8

(* Where the container in the buffer may not be trusted, and where it may. *)
LEMMA Limits ==
  ASSUME MaybeDamaged(con)
  PROVE  /\ con.size \in CountsOfBlocks /\ Length = BlocksLen(con.size) /\ Length \in Nat
         /\ \/ Block(0) = Table(con.size, 0)
            \/ Entry(0, 0) # Zero /\ Entry(0, 0) # Sha(Block(1))
            \/ Tables(con.size) > 1 /\ \A e \in 1..PerTable : Entry(0, e - 1) # Zero
         /\ \A t \in 1..(Tables(con.size) - 1) : Block(TablePlace(t)).level # 0
         /\ Tables(con.size) > 1 =>
              \/ Block(MainPlace).level = 0
              \/ Entry(MainPlace, 0) # Zero /\ Entry(MainPlace, 0) # Sha(Block(MainPlace + 1))
<1>1. con.size \in CountsOfBlocks /\ Length = BlocksLen(con.size) /\ Length \in Nat
  BY Shape DEF Length
<1>2. /\ Block(0) = con.blocks[1] /\ Block(1) = con.blocks[2]
      /\ Entry(0, 0) = con.blocks[1].entries[1]
  BY DEF Block, Entry
<1>3. \A e \in 1..PerTable : Entry(0, e - 1) = con.blocks[1].entries[e]
  BY WalkAssumption DEF Block, Entry
<1>4. MainPlace \in Nat
  BY WalkAssumption DEF MainPlace
<1>5. /\ Block(MainPlace) = con.blocks[MainPlace + 1] /\ Block(MainPlace + 1) = con.blocks[MainPlace + 2]
      /\ Entry(MainPlace, 0) = con.blocks[MainPlace + 1].entries[1]
  BY <1>4 DEF Block, Entry
<1>6. Senseless(con, 1) => Entry(0, 0) # Zero /\ Entry(0, 0) # Sha(Block(1))
  BY <1>2 DEF Senseless
<1>7. Senseless(con, MainPlace + 1) =>
        Entry(MainPlace, 0) # Zero /\ Entry(MainPlace, 0) # Sha(Block(MainPlace + 1))
  BY <1>4, <1>5 DEF Senseless
<1>8. \A t \in 1..(Tables(con.size) - 1) : Block(TablePlace(t)).level # 0
  BY DEF MaybeDamaged, Block
<1> QED BY <1>1, <1>2, <1>3, <1>5, <1>6, <1>7, <1>8 DEF MaybeDamaged

(* Where a table that is whole and its blocks lie. *)
LEMMA TableBounds ==
  ASSUME MaybeDamaged(con), j \in 0..(Tables(con.size) - 1), hb = TablePlace(j)
  PROVE  /\ hb \in Nat /\ PerTable \in Nat \ {0} /\ Length \in Nat
         /\ Fill(con.size, j) \in 1..PerTable
         /\ hb + Fill(con.size, j) + 1 <= Length
         /\ j + 1 = Tables(con.size) => hb + Fill(con.size, j) + 1 = Length
         /\ j + 1 < Tables(con.size) => Fill(con.size, j) = PerTable
         /\ j \in Nat /\ Tables(con.size) \in Nat /\ j + 1 <= Tables(con.size)
<1>1. con.size \in CountsOfBlocks /\ Length = BlocksLen(con.size) /\ Length \in Nat
  BY Limits
<1>2. PerTable \in Nat \ {0} /\ Tables(con.size) \in 1..PerTable
  BY <1>1, TableCount
<1>3. Fill(con.size, j) \in 1..PerTable
  BY <1>1, Fills
<1>4. /\ hb \in Nat /\ hb + Fill(con.size, j) + 1 <= Length
      /\ j + 1 = Tables(con.size) => hb + Fill(con.size, j) + 1 = Length
  BY <1>1, Places
<1>5. j + 1 < Tables(con.size) => Fill(con.size, j) = PerTable
  BY DEF Fill
<1> QED BY <1>1, <1>2, <1>3, <1>4, <1>5

(* The entries of a table that is whole are those of its blocks. *)
LEMMA EntriesOfTable ==
  ASSUME MaybeDamaged(con), j \in 0..(Tables(con.size) - 1), hb = TablePlace(j),
         Block(hb) = Table(con.size, j), NEW e \in 0..(PerTable - 1)
  PROVE  /\ e < Fill(con.size, j) =>
              /\ Entry(hb, e) # Zero
              /\ Entry(hb, e) = Sha(Blocks(con.size)[hb + 1 + e + 1])
         /\ e >= Fill(con.size, j) => Entry(hb, e) = Zero
<1>1. con.size \in CountsOfBlocks
  BY Limits
<1>2. /\ hb \in Nat /\ PerTable \in Nat \ {0} /\ Fill(con.size, j) \in 1..PerTable
  BY TableBounds
<1>3. Entry(hb, e) = Table(con.size, j).entries[e + 1]
  BY DEF Entry
<1>4. e + 1 \in 1..PerTable
  BY <1>2
<1>5. ASSUME e < Fill(con.size, j)
      PROVE  Entry(hb, e) # Zero /\ Entry(hb, e) = Sha(Blocks(con.size)[hb + 1 + e + 1])
  <2>1. e + 1 \in 1..Fill(con.size, j) /\ hb + 1 + e + 1 = TablePlace(j) + (e + 1) + 1
    BY <1>2, <1>5
  <2>2. Blocks(con.size)[hb + 1 + e + 1] = Data(j * PerTable + (e + 1))
    BY <1>1, <2>1, WholeBlocks
  <2>3. e + 1 <= Fill(con.size, j)
    BY <1>2, <1>5
  <2> QED BY <1>1, <1>3, <1>4, <2>2, <2>3, WholeTables
<1>6. ASSUME e >= Fill(con.size, j) PROVE Entry(hb, e) = Zero
  <2>1. e + 1 > Fill(con.size, j)
    BY <1>2, <1>6
  <2> QED BY <1>1, <1>3, <1>4, <2>1, WholeTables
<1> QED BY <1>5, <1>6

(* A table behind the first is whole when it is read. *)
LEMMA LaterTable ==
  ASSUME MaybeDamaged(con), Reading, contProcess \in BOOLEAN, j > 0
  PROVE  Block(hb) = Table(con.size, j)
<1>1. con.size \in CountsOfBlocks
  BY Limits
<1>2. hb \in Nat /\ PerTable \in Nat \ {0} /\ Length \in Nat
  BY TableBounds DEF Reading
<1>3. hb \in 0..(currOffset - 1)
  BY <1>2 DEF Reading
<1>4. Same(hb)
  BY <1>3 DEF Reading, AllSame
<1> QED BY <1>1, <1>4, WholeBlocks DEF Same, Reading

(* Behind the first entry of the first table, that table makes sense. *)
LEMMA FirstTable ==
  ASSUME MaybeDamaged(con), Reading, contProcess \in BOOLEAN, j = 0
  PROVE  /\ hb = 0
         /\ currOffset > 1 \/ Entry(0, 0) = Zero =>
              \/ Block(0) = Table(con.size, 0)
              \/ Tables(con.size) > 1 /\ \A e \in 1..PerTable : Entry(0, e - 1) # Zero
<1>1. hb = 0
  BY DEF Reading, TablePlace
<1>2. ASSUME currOffset > 1, Entry(0, 0) # Sha(Block(1)) PROVE FALSE
  <2>1. 1 \in 1..(currOffset - 1)
    BY <1>2, TableBounds DEF Reading
  <2>2. Sha(Block(1)) = Entry(0, 1 - 1)
    BY <2>1 DEF Reading, FirstRead
  <2> QED BY <1>2, <2>2
<1> QED BY <1>1, <1>2, Limits

(* Only the last table has entries of zero bytes. *)
LEMMA FullTable ==
  ASSUME MaybeDamaged(con), Reading, contProcess \in BOOLEAN, j + 1 < Tables(con.size),
         NEW e \in 0..(PerTable - 1), e < currOffset - hb
  PROVE  Entry(hb, e) # Zero
<1>1. /\ hb \in Nat /\ PerTable \in Nat \ {0} /\ Fill(con.size, j) = PerTable
      /\ currOffset \in Nat /\ Length \in Nat /\ j \in Nat
  BY TableBounds DEF Reading
<1>2. CASE Block(hb) = Table(con.size, j)
  BY <1>1, <1>2, EntriesOfTable DEF Reading
<1>3. CASE j > 0
  BY <1>2, <1>3, LaterTable
<1>4. CASE j = 0
  <2> SUFFICES ASSUME Entry(hb, e) = Zero PROVE FALSE
    OBVIOUS
  <2>1. hb = 0
    BY <1>4, FirstTable
  <2>2. currOffset > 1 \/ Entry(0, 0) = Zero
    BY <1>1, <2>1
  <2>3. \/ Block(0) = Table(con.size, 0)
        \/ \A f \in 1..PerTable : Entry(0, f - 1) # Zero
    BY <1>4, <2>2, FirstTable
  <2>4. e + 1 \in 1..PerTable /\ (e + 1) - 1 = e
    BY <1>1
  <2> QED BY <2>1, <2>3, <2>4, <1>2, <1>4
<1> QED BY <1>1, <1>3, <1>4

(* At the end of a table: the last one was whole and ends the container. *)
LEMMA TableRead ==
  ASSUME MaybeDamaged(con), Reading, contProcess \in BOOLEAN, i >= PerTable
  PROVE  /\ j + 1 < Tables(con.size) => contProcess /\ currOffset = hb + 1 + PerTable
         /\ j + 1 = Tables(con.size) => Block(hb) = Table(con.size, j) /\ currOffset = Length
<1>1. /\ hb \in Nat /\ PerTable \in Nat \ {0} /\ Length \in Nat
      /\ Fill(con.size, j) \in 1..PerTable
      /\ j + 1 = Tables(con.size) => hb + Fill(con.size, j) + 1 = Length
      /\ currOffset \in 0..Length /\ i = PerTable /\ j \in Nat
  BY TableBounds DEF Reading
<1> DEFINE f == currOffset - hb - 1
<1>2. ASSUME ~contProcess PROVE f \in 0..(PerTable - 1) /\ f < currOffset - hb /\ Entry(hb, f) = Zero
  BY <1>1, <1>2 DEF Reading
<1>3. ASSUME contProcess PROVE currOffset = hb + 1 + PerTable
  BY <1>1, <1>3 DEF Reading
<1>4. ASSUME j + 1 < Tables(con.size) PROVE contProcess
  BY <1>2, <1>4, FullTable
<1>5. ASSUME j + 1 = Tables(con.size) PROVE Block(hb) = Table(con.size, j)
  <2>1. CASE j > 0
    BY <2>1, LaterTable
  <2>2. CASE j = 0
    <3>1. hb = 0 /\ ~(Tables(con.size) > 1)
      BY <2>2, <1>5, FirstTable
    <3>2. currOffset > 1 \/ Entry(0, 0) = Zero
      <4>1. CASE contProcess
        BY <4>1, <1>1, <1>3
      <4>2. CASE ~contProcess
        BY <4>2, <1>1, <1>2, <3>1
      <4> QED BY <4>1, <4>2
    <3> QED BY <2>2, <3>1, <3>2, FirstTable
  <2> QED BY <1>1, <2>1, <2>2
<1>6. ASSUME j + 1 = Tables(con.size) PROVE currOffset = Length
  <2>1. CASE contProcess
    BY <2>1, <1>1, <1>3, <1>6
  <2>2. CASE ~contProcess
    <3>1. ~(f < Fill(con.size, j))
      BY <2>2, <1>2, <1>5, <1>6, EntriesOfTable DEF Reading
    <3> QED BY <3>1, <1>1, <1>6
  <2> QED BY <2>1, <2>2
<1> QED BY <1>3, <1>4, <1>5, <1>6

(* What a whole first table vouches for is whole. *)
LEMMA FirstBlocks ==
  ASSUME MaybeDamaged(con), Reading, contProcess \in BOOLEAN, j = 0,
         Block(0) = Table(con.size, 0), currOffset <= 1 + Fill(con.size, 0)
  PROVE  AllSame
<1>1. /\ hb = 0 /\ hb = TablePlace(0) /\ j \in 0..(Tables(con.size) - 1)
      /\ con.size \in CountsOfBlocks /\ Fill(con.size, 0) \in 1..PerTable
      /\ PerTable \in Nat \ {0} /\ currOffset \in Nat
  BY FirstTable, TableBounds, Limits DEF Reading
<1> SUFFICES ASSUME NEW k \in 0..(currOffset - 1) PROVE Same(k)
  BY DEF AllSame
<1>2. CASE k = 0
  BY <1>1, <1>2, WholeBlocks DEF Same
<1>3. CASE k > 0
  <2>1. k \in 1..(currOffset - 1) /\ k - 1 \in 0..(PerTable - 1) /\ k - 1 < Fill(con.size, 0)
    BY <1>1, <1>3
  <2>2. Sha(Block(k)) = Entry(0, k - 1)
    BY <2>1 DEF Reading, FirstRead
  <2>3. Entry(0, k - 1) = Sha(Blocks(con.size)[0 + 1 + (k - 1) + 1])
    BY <1>1, <2>1, EntriesOfTable
  <2>4. 0 + 1 + (k - 1) + 1 = k + 1
    OBVIOUS
  <2> QED BY <2>2, <2>3, <2>4, HashesTell DEF Same
<1> QED BY <1>2, <1>3

(* The next entry of a whole table is the hash of what should be next. *)
LEMMA NextEntry ==
  ASSUME MaybeDamaged(con), Reading, contProcess \in BOOLEAN, i < PerTable,
         Block(hb) = Table(con.size, j), Entry(hb, i) # Zero
  PROVE  /\ currOffset < Length
         /\ Entry(hb, i) = Sha(Blocks(con.size)[currOffset + 1])
<1>1. /\ hb \in Nat /\ PerTable \in Nat \ {0} /\ Length \in Nat
      /\ Fill(con.size, j) \in 1..PerTable /\ hb + Fill(con.size, j) + 1 <= Length
      /\ i \in 0..(PerTable - 1) /\ currOffset = hb + 1 + i
  BY TableBounds DEF Reading
<1>2. i < Fill(con.size, j)
  BY <1>1, EntriesOfTable DEF Reading
<1>3. Entry(hb, i) = Sha(Blocks(con.size)[hb + 1 + i + 1])
  BY <1>1, <1>2, EntriesOfTable DEF Reading
<1> QED BY <1>1, <1>2, <1>3

-------------------------------------------------------------------------------
(* The steps of the walk. *)

(* A container is taken up. *)
LEMMA StartWalkStep ==
  ASSUME NEW c, MaybeDamaged(c), StartWalk(c)
  PROVE  WalkInv'
<1>1. con' = c /\ currOffset' = 1 /\ hb' = 0 /\ mhb' = NoBlock /\ i' = 0 /\ j' = 0 /\ contProcess' = TRUE
  BY DEF StartWalk
<1>2. c.size \in CountsOfBlocks /\ c.headerOk \in BOOLEAN /\ Len(c.blocks) = BlocksLen(c.size)
  BY Shape
<1>3. CASE c.headerOk
  <2>1. verdict' = "checking"
    BY <1>3 DEF StartWalk
  <2>2. 0 \in 0..(Tables(c.size) - 1) /\ TablePlace(0) = 0 /\ PerTable \in Nat
    BY <1>2, TableCount DEF TablePlace
  <2>3. Len(c.blocks) \in Nat /\ Len(c.blocks) >= 1
    <3>1. TablePlace(0) + Fill(c.size, 0) + 1 <= BlocksLen(c.size) /\ BlocksLen(c.size) \in Nat
      BY <1>2, <2>2, Places
    <3>2. Fill(c.size, 0) \in 1..PerTable
      BY <1>2, <2>2, Fills
    <3> QED BY <1>2, <2>2, <3>1, <3>2
  <2>4. Reading'
    BY <1>1, <2>2, <2>3 DEF Reading, Length, FirstRead
  <2> QED BY <1>1, <1>3, <2>1, <2>4 DEF WalkInv
<1>4. CASE ~c.headerOk
  <2>1. verdict' = "corrupt"
    BY <1>4 DEF StartWalk
  <2>2. c # Whole(c.size)
    BY <1>4, Shape
  <2> QED BY <1>1, <2>1, <2>2 DEF WalkInv
<1> QED BY <1>3, <1>4

(* An entry of zero bytes. *)
LEMMA EndOfEntriesStep == ASSUME WalkInv, EndOfEntries PROVE WalkInv'
<1>1. /\ verdict = "checking" /\ MaybeDamaged(con) /\ con.headerOk /\ contProcess \in BOOLEAN
      /\ i < PerTable /\ Entry(hb, i) = Zero
  BY DEF WalkInv, EndOfEntries, InTable
<1>2. /\ con' = con /\ currOffset' = currOffset /\ hb' = hb /\ mhb' = mhb /\ j' = j /\ verdict' = verdict
      /\ i' = PerTable /\ contProcess' = FALSE
  BY DEF EndOfEntries
<1>3. ~Astray
  BY <1>1, Limits DEF Astray
<1>4. Reading
  BY <1>1, <1>3 DEF WalkInv
<1>5. PerTable \in Nat \ {0} /\ hb \in Nat /\ i \in 0..(PerTable - 1) /\ currOffset = hb + 1 + i
  BY <1>1, <1>4, TableBounds DEF Reading
<1>6. currOffset - hb - 1 = i /\ currOffset \in (hb + 1)..(hb + PerTable)
  BY <1>5
<1>7. Entry(hb, currOffset - hb - 1)' = Zero
  BY <1>1, <1>2, <1>6 DEF Entry, Block
<1>8. FirstRead' = FirstRead /\ AllSame' = AllSame
  BY <1>2 DEF FirstRead, AllSame, Same, Block, Entry
<1>9. Reading'
  BY <1>2, <1>4, <1>5, <1>6, <1>7, <1>8 DEF Reading, Length
<1> QED BY <1>1, <1>2, <1>9 DEF WalkInv

(* A block and its hash. *)
LEMMA CheckBlockStep == ASSUME WalkInv, CheckBlock PROVE WalkInv'
<1>1. /\ verdict = "checking" /\ MaybeDamaged(con) /\ con.headerOk /\ contProcess \in BOOLEAN
      /\ i < PerTable /\ Entry(hb, i) # Zero
  BY DEF WalkInv, CheckBlock, InTable
<1>2. con' = con /\ hb' = hb /\ mhb' = mhb /\ j' = j /\ contProcess' = contProcess
  BY DEF CheckBlock
<1>3. CASE Astray
  <2>1. /\ MainPlace \in Nat /\ Length = BlocksLen(con.size) /\ Length \in Nat
        /\ con.size \in CountsOfBlocks /\ Tables(con.size) > 1
    BY <1>1, <1>3, Limits, WalkAssumption DEF Astray, MainPlace
  <2>2. MainPlace + 3 <= Length
    BY <2>1, WholeBlocks
  <2>3. HashOf(currOffset) = Sha(Block(MainPlace + 1))
    BY <1>3, <2>1, <2>2 DEF Astray, HashOf
  <2>4. HashOf(currOffset) # Entry(hb, i)
    BY <1>1, <1>3, <2>3, Limits DEF Astray
  <2>5. verdict' = "corrupt"
    BY <2>4 DEF CheckBlock
  <2>6. con # Whole(con.size)
    <3> SUFFICES ASSUME con = Whole(con.size) PROVE FALSE
      OBVIOUS
    <3>1. Block(MainPlace) = Main(con.size)
      BY <1>1, <2>1, Shape, WholeBlocks DEF Block
    <3> QED BY <1>3, <2>1, <3>1, WholeTables DEF Astray
  <2> QED BY <1>1, <1>2, <2>5, <2>6 DEF WalkInv
<1>4. CASE Reading
  <2>1. /\ PerTable \in Nat \ {0} /\ hb \in Nat /\ i \in 0..(PerTable - 1) /\ currOffset = hb + 1 + i
        /\ Length \in Nat /\ currOffset <= Length /\ contProcess /\ j \in Nat
        /\ Tables(con.size) \in Nat /\ j + 1 <= Tables(con.size)
    BY <1>1, <1>4, TableBounds DEF Reading
  <2>2. CASE HashOf(currOffset) # Entry(hb, i)
    <3>1. verdict' = "corrupt"
      BY <2>2 DEF CheckBlock
    <3>2. con # Whole(con.size)
      <4> SUFFICES ASSUME con = Whole(con.size) PROVE FALSE
        OBVIOUS
      <4>1. con.blocks = Blocks(con.size) /\ con.size \in CountsOfBlocks
        BY <1>1, Shape
      <4>2. Block(hb) = Table(con.size, j)
        BY <1>4, <4>1, WholeBlocks DEF Block, Reading
      <4>3. currOffset < Length /\ Entry(hb, i) = Sha(Block(currOffset))
        BY <1>1, <1>4, <4>1, <4>2, NextEntry DEF Block
      <4> QED BY <2>2, <4>3 DEF HashOf
    <3> QED BY <1>1, <1>2, <3>1, <3>2 DEF WalkInv
  <2>3. CASE HashOf(currOffset) = Entry(hb, i)
    <3>1. currOffset' = currOffset + 1 /\ i' = i + 1 /\ verdict' = verdict
      BY <2>3 DEF CheckBlock
    <3>2. CASE j > 0
      <4>1. Block(hb) = Table(con.size, j)
        BY <1>1, <1>4, <3>2, LaterTable
      <4>2. currOffset < Length /\ Entry(hb, i) = Sha(Blocks(con.size)[currOffset + 1])
        BY <1>1, <1>4, <4>1, NextEntry
      <4>3. Same(currOffset)
        BY <2>3, <4>2, HashesTell DEF HashOf, Same
      <4>4. AllSame'
        <5> SUFFICES ASSUME NEW k \in 0..currOffset PROVE Same(k)
          BY <1>2, <2>1, <3>1 DEF AllSame, Same, Block
        <5>1. k = currOffset \/ k \in 0..(currOffset - 1)
          BY <2>1
        <5> QED BY <1>4, <3>2, <4>3, <5>1 DEF Reading, AllSame
      <4>5. Reading'
        <5>1. contProcess' /\ Length' = Length
          BY <1>2, <2>1 DEF Length
        <5>2. currOffset' \in 0..Length /\ i' \in 0..PerTable /\ currOffset' = hb + 1 + i'
          BY <2>1, <3>1, <4>2
        <5> QED BY <1>2, <1>4, <3>2, <4>4, <5>1, <5>2 DEF Reading
      <4> QED BY <1>1, <1>2, <3>1, <4>5 DEF WalkInv
    <3>3. CASE j = 0
      <4>1. hb = 0
        BY <1>1, <1>4, <3>3, FirstTable
      <4>2. currOffset < Length
        <5>1. CASE Block(0) = Table(con.size, 0)
          BY <1>1, <1>4, <3>3, <4>1, <5>1, NextEntry
        <5>2. CASE Tables(con.size) > 1
          <6>1. hb + Fill(con.size, j) + 1 <= Length /\ Fill(con.size, j) = PerTable
            BY <1>1, <1>4, <2>1, <3>3, <5>2, TableBounds DEF Reading
          <6> QED BY <2>1, <6>1
        <5>3. CASE Entry(0, 0) # Zero /\ Entry(0, 0) # Sha(Block(1)) /\ ~(Tables(con.size) > 1)
          <6>1. hb + Fill(con.size, j) + 1 <= Length /\ Fill(con.size, j) \in 1..PerTable
            BY <1>1, <1>4, <2>1, TableBounds DEF Reading
          <6>2. CASE currOffset > 1
            BY <1>1, <1>4, <3>3, <5>1, <5>3, <6>2, FirstTable
          <6>3. CASE ~(currOffset > 1)
            BY <2>1, <4>1, <6>1, <6>3
          <6> QED BY <6>2, <6>3
        <5> QED BY <1>1, <5>1, <5>2, <5>3, Limits
      <4>3. Sha(Block(currOffset)) = Entry(0, currOffset - 1)
        <5>1. currOffset - 1 = i
          BY <2>1, <4>1
        <5> QED BY <2>3, <4>1, <4>2, <5>1 DEF HashOf
      <4>4. FirstRead'
        <5> SUFFICES ASSUME NEW k \in 1..currOffset PROVE Sha(Block(k)) = Entry(0, k - 1)
          BY <1>2, <2>1, <3>1 DEF FirstRead, Entry, Block
        <5>1. k = currOffset \/ k \in 1..(currOffset - 1)
          BY <2>1
        <5> QED BY <1>4, <3>3, <4>3, <5>1 DEF Reading, FirstRead
      <4>5. Reading'
        <5>1. contProcess' /\ Length' = Length
          BY <1>2, <2>1 DEF Length
        <5>2. currOffset' \in 0..Length /\ i' \in 0..PerTable /\ currOffset' = hb + 1 + i'
          BY <2>1, <3>1, <4>2
        <5> QED BY <1>2, <1>4, <3>3, <4>4, <5>1, <5>2 DEF Reading
      <4> QED BY <1>1, <1>2, <3>1, <4>5 DEF WalkInv
    <3> QED BY <2>1, <3>2, <3>3
  <2> QED BY <2>2, <2>3
<1> QED BY <1>1, <1>3, <1>4 DEF WalkInv

(* Nothing is left to read. *)
LEMMA LastTableStep == ASSUME WalkInv, LastTable PROVE WalkInv'
<1>1. /\ verdict = "checking" /\ MaybeDamaged(con) /\ con.headerOk /\ contProcess \in BOOLEAN
      /\ i >= PerTable /\ AtEnd
  BY DEF WalkInv, LastTable, TableDone
<1>2. con' = con /\ contProcess' = FALSE /\ verdict' = "ok"
  BY DEF LastTable
<1>3. PerTable \in Nat \ {0}
  BY WalkAssumption
<1>4. Reading
  BY <1>1, <1>3 DEF WalkInv, Astray
<1>5. /\ hb \in Nat /\ Length \in Nat /\ Fill(con.size, j) \in 1..PerTable
      /\ j \in Nat /\ Tables(con.size) \in Nat /\ j + 1 <= Tables(con.size)
      /\ con.size \in CountsOfBlocks /\ Length = BlocksLen(con.size)
      /\ j \in 0..(Tables(con.size) - 1) /\ hb = TablePlace(j)
  BY <1>1, <1>4, TableBounds, Limits DEF Reading
<1>6. ASSUME LastSeen(con.size) PROVE con.blocks = Blocks(con.size)
  <2>1. j + 1 = Tables(con.size)
    <3> SUFFICES ASSUME j + 1 < Tables(con.size) PROVE FALSE
      BY <1>5
    <3>1. currOffset = hb + 1 + PerTable
      BY <1>1, <1>4, TableRead
    <3>2. CASE j = 0
      <4>1. currOffset = MainPlace
        BY <1>1, <1>3, <1>4, <3>1, <3>2, FirstTable DEF MainPlace
      <4>2. MainPlace + 3 <= Length
        BY <1>5, <3>2, WholeBlocks
      <4> QED BY <1>1, <1>3, <1>5, <4>1, <4>2 DEF AtEnd, MainPlace
    <3>3. CASE j > 0
      <4>1. currOffset = TablePlace(j + 1)
        BY <1>3, <1>5, <3>1, <3>3, Places
      <4>2. j + 1 \in 0..(Tables(con.size) - 1) /\ j + 1 > 0 /\ currOffset \in Nat
        BY <1>3, <1>5, <3>1
      <4>3. /\ TablePlace(j + 1) + Fill(con.size, j + 1) + 1 <= Length
            /\ Fill(con.size, j + 1) \in 1..PerTable
        BY <1>5, <4>2, Places, Fills
      <4>4. Fill(con.size, j + 1) = 1
        BY <1>1, <1>3, <1>5, <4>1, <4>2, <4>3 DEF AtEnd
      <4>5. CASE j + 2 = Tables(con.size)
        <5>1. Tables(con.size) > 2 /\ Tables(con.size) - 1 = j + 1
          BY <1>5, <3>3, <4>5
        <5> QED BY <1>6, <4>4, <5>1 DEF LastSeen
      <4>6. CASE j + 2 < Tables(con.size)
        <5>1. (j + 1) + 1 < Tables(con.size) /\ (j + 1) + 1 = j + 2
          BY <1>5, <4>6
        <5>2. TablePlace((j + 1) + 1) = TablePlace(j + 1) + PerTable + 1
          BY <1>5, <4>2, <5>1, Places
        <5>3. TablePlace((j + 1) + 1) + 2 <= BlocksLen(con.size)
          BY <1>5, <4>2, <5>1, Places
        <5> QED BY <1>1, <1>3, <1>5, <4>1, <4>2, <5>2, <5>3 DEF AtEnd
      <4> QED BY <1>5, <3>3, <4>5, <4>6
    <3> QED BY <1>5, <3>2, <3>3
  <2>2. Block(hb) = Table(con.size, j) /\ currOffset = Length
    BY <1>1, <1>4, <2>1, TableRead
  <2>3. AllSame
    <3>1. CASE j > 0
      BY <1>4, <3>1 DEF Reading
    <3>2. CASE j = 0
      <4>1. hb = 0 /\ currOffset <= 1 + Fill(con.size, 0)
        BY <1>1, <1>4, <1>5, <2>1, <2>2, <3>2, FirstTable, TableBounds
      <4> QED BY <1>1, <1>4, <2>2, <3>2, <4>1, FirstBlocks
    <3> QED BY <1>5, <3>1, <3>2
  <2>4. ASSUME NEW x \in 1..BlocksLen(con.size) PROVE con.blocks[x] = Blocks(con.size)[x]
    <3>1. x - 1 \in 0..(currOffset - 1) /\ (x - 1) + 1 = x
      BY <1>5, <2>2
    <3>2. Same(x - 1)
      BY <2>3, <3>1 DEF AllSame
    <3> QED BY <3>1, <3>2 DEF Same, Block
  <2>5. con.blocks = [x \in 1..BlocksLen(con.size) |-> con.blocks[x]]
    BY <1>1 DEF MaybeDamaged
  <2>6. Blocks(con.size) = [x \in 1..BlocksLen(con.size) |-> Blocks(con.size)[x]]
    BY DEF Blocks
  <2>7. [x \in 1..BlocksLen(con.size) |-> con.blocks[x]] = [x \in 1..BlocksLen(con.size) |-> Blocks(con.size)[x]]
    BY <2>4
  <2> QED BY <2>5, <2>6, <2>7
<1> QED BY <1>1, <1>2, <1>6 DEF WalkInv

(* The next table, the main one before it behind the first.  The header's  *)
(* root hash vouches for the main table, and that for each table.          *)
LEMMA NextTableStep == ASSUME WalkInv, NextTable PROVE WalkInv'
<1>1. /\ verdict = "checking" /\ MaybeDamaged(con) /\ con.headerOk /\ contProcess \in BOOLEAN
      /\ i >= PerTable /\ ~AtEnd
  BY DEF WalkInv, NextTable, TableDone
<1>2. con' = con /\ contProcess' = contProcess
  BY DEF NextTable
<1>3. PerTable \in Nat \ {0} /\ MainPlace = PerTable + 1 /\ MainPlace # NoBlock
  BY WalkAssumption DEF MainPlace
<1>4. Reading
  BY <1>1, <1>3 DEF WalkInv, Astray
<1>5. /\ hb \in Nat /\ Length \in Nat /\ j \in Nat /\ Tables(con.size) \in Nat
      /\ con.size \in CountsOfBlocks /\ Length = BlocksLen(con.size)
      /\ j \in 0..(Tables(con.size) - 1) /\ hb = TablePlace(j) /\ Fill(con.size, j) \in 1..PerTable
  BY <1>1, <1>4, TableBounds, Limits DEF Reading
<1>6. j + 1 < Tables(con.size)
  <2> SUFFICES ASSUME j + 1 = Tables(con.size) PROVE FALSE
    BY <1>5
  <2>1. currOffset = Length
    BY <1>1, <1>4, TableRead
  <2> QED BY <1>1, <1>5, <2>1 DEF AtEnd
<1>7. contProcess /\ currOffset = hb + 1 + PerTable
  BY <1>1, <1>4, <1>6, TableRead
<1>8. /\ j + 1 \in 0..(Tables(con.size) - 1) /\ Tables(con.size) > 1
      /\ TablePlace(j + 1) + 2 <= Length /\ TablePlace(j + 1) \in Nat
  BY <1>5, <1>6, Places
<1>9. /\ Blocks(con.size)[MainPlace + 1] = Main(con.size)
      /\ Blocks(con.size)[TablePlace(j + 1) + 1] = Table(con.size, j + 1)
      /\ Main(con.size).entries[(j + 1) + 1] = Sha(Table(con.size, j + 1))
      /\ Main(con.size).entries[0 + 1] = Sha(Table(con.size, 0))
      /\ Main(con.size).level = 0
      /\ Blocks(con.size)[0 + 1] = Table(con.size, 0)
  <2>1. 0 \in 0..(Tables(con.size) - 1) /\ TablePlace(0) = 0
    BY <1>5 DEF TablePlace
  <2> QED BY <1>5, <1>8, <2>1, WholeBlocks, WholeTables
<1>10. CASE j = 0
  <2>1. hb = 0 /\ currOffset = MainPlace /\ TablePlace(j + 1) = MainPlace + 1 /\ mhb = NoBlock
    BY <1>1, <1>3, <1>4, <1>5, <1>6, <1>7, <1>10, FirstTable, Places DEF Reading
  <2>2. CASE IsMain
    <3>1. MainTable = MainPlace /\ TableAfter = MainPlace + 1
      BY <2>1, <2>2 DEF MainTable, TableAfter
    <3>2. CASE ~(MainTableVouchedFor /\ TableVouchedFor)
      <4>1. verdict' = "corrupt"
        BY <3>2 DEF NextTable
      <4>2. con # Whole(con.size)
        <5> SUFFICES ASSUME con = Whole(con.size) PROVE FALSE
          OBVIOUS
        <5>1. con.blocks = Blocks(con.size) /\ con.root = Sha(Main(con.size))
          BY <1>1, <1>8, Shape
        <5>2. /\ Block(MainPlace) = Main(con.size) /\ Block(0) = Table(con.size, 0)
              /\ Block(MainPlace + 1) = Table(con.size, j + 1)
          BY <1>9, <2>1, <5>1 DEF Block
        <5>3. MainTableVouchedFor
          BY <1>9, <2>1, <5>1, <5>2 DEF MainTableVouchedFor, Entry
        <5>4. TableVouchedFor
          BY <1>9, <3>1, <5>2 DEF TableVouchedFor, Entry
        <5> QED BY <3>2, <5>3, <5>4
      <4> QED BY <1>1, <1>2, <4>1, <4>2 DEF WalkInv
    <3>3. CASE MainTableVouchedFor /\ TableVouchedFor
      <4>1. /\ mhb' = MainPlace /\ hb' = MainPlace + 1 /\ currOffset' = MainPlace + 2
            /\ j' = j + 1 /\ i' = 0 /\ verdict' = "checking"
        <5>1. /\ mhb' = MainTable /\ hb' = TableAfter /\ currOffset' = TableAfter + 1
              /\ j' = j + 1 /\ i' = 0 /\ verdict' = "checking"
          BY <1>7, <3>3 DEF NextTable
        <5> QED BY <1>3, <3>1, <5>1
      <4>2. Same(MainPlace)
        <5>1. Sha(Block(MainPlace)) = Sha(Main(con.size))
          BY <1>1, <1>8, <2>1, <2>2, <3>3, Shape DEF MainTableVouchedFor
        <5> QED BY <1>9, <5>1, HashesTell DEF Same
      <4>3. Block(0) = Table(con.size, 0)
        <5>1. Sha(Block(0)) = Entry(MainPlace, 0)
          BY <2>1, <2>2, <3>3 DEF MainTableVouchedFor
        <5>2. Entry(MainPlace, 0) = Sha(Table(con.size, 0))
          BY <1>9, <4>2 DEF Same, Entry
        <5> QED BY <5>1, <5>2, HashesTell
      <4>4. Same(MainPlace + 1)
        <5>1. Sha(Block(MainPlace + 1)) = Entry(MainPlace, j + 1)
          BY <1>3, <3>1, <3>3 DEF TableVouchedFor
        <5>2. Entry(MainPlace, j + 1) = Sha(Table(con.size, j + 1))
          BY <1>9, <4>2 DEF Same, Entry
        <5>3. Block(MainPlace + 1) = Table(con.size, j + 1)
          BY <5>1, <5>2, HashesTell
        <5> QED BY <1>9, <2>1, <5>3 DEF Same
      <4>5. AllSame
        <5>1. Fill(con.size, 0) = PerTable
          BY <1>6, <1>10 DEF Fill
        <5>2. currOffset <= 1 + Fill(con.size, 0)
          BY <1>3, <2>1, <5>1
        <5> QED BY <1>1, <1>4, <1>10, <4>3, <5>2, FirstBlocks
      <4>6. AllSame'
        <5> SUFFICES ASSUME NEW k \in 0..(MainPlace + 1) PROVE Same(k)
          BY <1>2, <1>3, <4>1 DEF AllSame, Same, Block
        <5>1. k = MainPlace + 1 \/ k = MainPlace \/ k \in 0..(currOffset - 1)
          BY <1>3, <2>1
        <5> QED BY <4>2, <4>4, <4>5, <5>1 DEF AllSame
      <4>7. contProcess' /\ Length' = Length /\ currOffset' \in 0..Length /\ currOffset' = hb' + 1 + i'
        BY <1>2, <1>3, <1>5, <1>7, <1>8, <2>1, <4>1 DEF Length
      <4>8. j' \in 0..(Tables(con.size) - 1) /\ j' > 0 /\ hb' = TablePlace(j') /\ i' \in 0..PerTable
        BY <1>3, <1>5, <1>8, <2>1, <4>1
      <4>9. Reading'
        BY <1>2, <4>1, <4>6, <4>7, <4>8 DEF Reading
      <4> QED BY <1>1, <1>2, <4>1, <4>9 DEF WalkInv
    <3> QED BY <3>2, <3>3
  <2>3. CASE ~IsMain
    <3>1. MainTable = NoBlock /\ TableAfter = MainPlace
      BY <2>1, <2>3 DEF MainTable, TableAfter
    <3>2. MainTableVouchedFor /\ TableVouchedFor
      BY <2>3, <3>1 DEF MainTableVouchedFor, TableVouchedFor
    <3>3. hb' = MainPlace /\ currOffset' = MainPlace + 1 /\ i' = 0 /\ verdict' = "checking"
      BY <1>7, <3>1, <3>2 DEF NextTable
    <3>4. Astray'
      BY <1>2, <1>8, <2>1, <2>3, <3>3 DEF Astray, IsMain, Block
    <3> QED BY <1>1, <1>2, <3>3, <3>4 DEF WalkInv
  <2> QED BY <2>2, <2>3
<1>11. CASE j > 0
  <2>1. currOffset = TablePlace(j + 1) /\ MainPlace < hb /\ mhb = MainPlace /\ AllSame
    BY <1>3, <1>4, <1>5, <1>6, <1>7, <1>11, Places DEF Reading
  <2>2. ~IsMain
    <3>1. j + 1 \in 1..(Tables(con.size) - 1)
      BY <1>5, <1>6
    <3> QED BY <1>1, <2>1, <3>1, Limits DEF IsMain
  <2>3. MainTable = MainPlace /\ TableAfter = currOffset
    BY <2>1, <2>2 DEF MainTable, TableAfter
  <2>4. Entry(MainPlace, j + 1) = Sha(Table(con.size, j + 1))
    <3>1. MainPlace \in 0..(currOffset - 1)
      BY <1>3, <1>5, <1>7, <2>1
    <3>2. Same(MainPlace)
      BY <2>1, <3>1 DEF AllSame
    <3> QED BY <1>9, <3>2 DEF Same, Entry
  <2>5. CASE ~(MainTableVouchedFor /\ TableVouchedFor)
    <3>1. verdict' = "corrupt"
      BY <2>5 DEF NextTable
    <3>2. con # Whole(con.size)
      <4> SUFFICES ASSUME con = Whole(con.size) PROVE FALSE
        OBVIOUS
      <4>1. con.blocks = Blocks(con.size)
        BY <1>1, Shape
      <4>2. Block(currOffset) = Table(con.size, j + 1)
        BY <1>9, <2>1, <4>1 DEF Block
      <4> QED BY <2>2, <2>3, <2>4, <2>5, <4>2 DEF MainTableVouchedFor, TableVouchedFor
    <3> QED BY <1>1, <1>2, <3>1, <3>2 DEF WalkInv
  <2>6. CASE MainTableVouchedFor /\ TableVouchedFor
    <3>1. /\ mhb' = MainPlace /\ hb' = currOffset /\ currOffset' = currOffset + 1
          /\ j' = j + 1 /\ i' = 0 /\ verdict' = "checking"
      BY <1>7, <2>3, <2>6 DEF NextTable
    <3>2. Same(currOffset)
      <4>1. Sha(Block(currOffset)) = Sha(Table(con.size, j + 1))
        BY <1>3, <2>3, <2>4, <2>6 DEF TableVouchedFor
      <4> QED BY <1>9, <2>1, <4>1, HashesTell DEF Same
    <3>3. AllSame'
      <4>1. currOffset \in Nat
        BY <1>8, <2>1
      <4> SUFFICES ASSUME NEW k \in 0..currOffset PROVE Same(k)
        BY <1>2, <3>1, <4>1 DEF AllSame, Same, Block
      <4>2. k = currOffset \/ k \in 0..(currOffset - 1)
        BY <4>1
      <4> QED BY <2>1, <3>2, <4>2 DEF AllSame
    <3>4. contProcess' /\ Length' = Length /\ currOffset' \in 0..Length /\ currOffset' = hb' + 1 + i'
      <4>1. contProcess' /\ Length' = Length
        BY <1>2, <1>7 DEF Length
      <4>2. currOffset \in Nat /\ currOffset + 2 <= Length
        BY <1>8, <2>1
      <4> QED BY <1>5, <3>1, <4>1, <4>2
    <3>5. j' \in 0..(Tables(con.size) - 1) /\ j' > 0 /\ hb' = TablePlace(j') /\ i' \in 0..PerTable
      BY <1>3, <1>5, <1>8, <1>11, <2>1, <3>1
    <3>6. Reading'
      BY <1>2, <3>1, <3>3, <3>4, <3>5 DEF Reading
    <3> QED BY <1>1, <1>2, <3>1, <3>6 DEF WalkInv
  <2> QED BY <2>5, <2>6
<1> QED BY <1>5, <1>10, <1>11

(* The walk as a whole. *)
LEMMA WalkStepInv ==
  ASSUME WalkInv, WalkStep
  PROVE  WalkInv' /\ con' = con /\ verdict' # "none"
<1>1. WalkInv'
  BY EndOfEntriesStep, CheckBlockStep, LastTableStep, NextTableStep DEF WalkStep
<1>2. con' = con
  BY DEF WalkStep, EndOfEntries, CheckBlock, LastTable, NextTable
<1>3. verdict' \in {"checking", "ok", "corrupt"}
  BY DEF WalkStep, EndOfEntries, CheckBlock, LastTable, NextTable, InTable, TableDone
<1> QED BY <1>1, <1>2, <1>3

(* A step of something else leaves the walk where it was. *)
LEMMA WalkRests == ASSUME WalkInv, UNCHANGED walk PROVE WalkInv'
BY DEF walk, WalkInv, Reading, Astray, FirstRead, AllSame, Same, Block, Entry, Length

(* The verdict is the truth. *)
LEMMA VerdictTrue ==
  ASSUME WalkInv, LastSeen(con.size)
  PROVE  /\ verdict = "ok" => con = Whole(con.size)
         /\ verdict = "corrupt" => con # Whole(con.size)
BY Shape DEF WalkInv

-------------------------------------------------------------------------------
(* The manifest.  Behind each item, the counters and the folder say what   *)
(* is true of the items so far.                                            *)
NoLoneLastBlock ==
  \A u \in Updates :
    /\ \A k \in 1..Len(u.items) : MaybeDamaged(u.items[k].disk) => LastSeen(u.items[k].disk.size)
    /\ MaybeDamaged(u.package) => LastSeen(u.package.size)

GoodBefore(k) == {g \in GoodItems : g < k}

Counters == [filesChecked : Nat, filesOk : Nat, conChecked : Nat, conOk : Nat]

Opened ==
  /\ verdict # "none"
  /\ \/ update.schema = 0 /\ ~Genuine(update) /\ ~doCopy
     \/ /\ Genuine(update) /\ item \in 1..Len(update.items)
        /\ con = Item.disk /\ Item.disk \notin {Absent, Empty} /\ Item.name # "none"
        /\ Item.name = "flash" \/ (IsContainer /\ Item.size # 0)
        /\ doCopy <=> Item.name # "flash"

Place ==
  /\ pc \in {"start", "package", "items", "walk", "finish", "report"}
  /\ item \in Nat \ {0} /\ (Genuine(update) => item <= Len(update.items) + 1)
  /\ pc = "start" => item = 1
  /\ pc = "package" => update.schema = 0 /\ ~Genuine(update)
  /\ pc = "items" => Genuine(update) /\ item \in 1..Len(update.items)
  /\ pc = "walk" => Opened
  /\ pc \in {"finish", "report"} /\ Genuine(update) => item = Len(update.items) + 1

Counted ==
  /\ ttl \in Counters
  /\ Genuine(update) =>
       /\ ttl.filesOk + ttl.conOk = Cardinality(GoodBefore(item))
       /\ ttl.filesChecked + ttl.conChecked <= (IF pc = "walk" THEN item ELSE item - 1)

HeldSoFar(c) ==
  \/ c.item = 0 /\ c.path = ManifestPath
  \/ /\ Genuine(update) /\ c.item \in GoodBefore(item)
     /\ update.items[c.item].name # "flash"
     /\ c.path = Destination(update.items[c.item])

CopiedSoFar ==
  /\ \A c \in copied : copyToFolder /\ HeldSoFar(c)
  /\ copyToFolder /\ Genuine(update) =>
       \A k \in GoodBefore(item) :
         update.items[k].name # "flash" => k \in unopened \/ Delivered(k)
  /\ pc = "start" => copied = {}

(* The buffer holds the place of the item that is walked. *)
PathFilled == pc = "walk" /\ doCopy /\ copyToFolder => outfilepath = Destination(Item)

MainInv ==
  /\ WalkInv /\ (verdict # "none" => LastSeen(con.size))
  /\ update \in Updates /\ copyToFolder \in BOOLEAN /\ doCopy \in BOOLEAN
  /\ Place /\ Counted /\ CopiedSoFar /\ PathFilled

(* A manifest is read exactly when the console would take it. *)
LEMMA GenuineParsed ==
  ASSUME NEW u \in Updates
  PROVE  /\ Genuine(u) <=> u.schema # 0 /\ ParseManifest(u)
         /\ u.schema \in 0..3 /\ Len(u.items) \in Nat /\ DOMAIN u.items = 1..Len(u.items)
         /\ u.schema = 0 => Len(u.items) = 0
<1>1. /\ u.schema \in 0..3 /\ (u.schema = 0 => u.items = << >>)
      /\ Len(u.items) \in Nat /\ u.items = [k \in 1..Len(u.items) |-> u.items[k]]
      /\ u.header \in [xmnp : BOOLEAN, sha : BOOLEAN]
  BY CheckAssumption, UpdatesAssumption
<1>2. DOMAIN u.items = 1..Len(u.items)
  BY <1>1
<1>3. u.header = [xmnp |-> TRUE, sha |-> TRUE] <=> u.header.xmnp /\ u.header.sha
  <2>1. ASSUME u.header.xmnp, u.header.sha PROVE u.header = [xmnp |-> TRUE, sha |-> TRUE]
    <3>1. u.header = [xmnp |-> u.header.xmnp, sha |-> u.header.sha]
      BY <1>1
    <3>2. u.header.xmnp = TRUE /\ u.header.sha = TRUE
      BY <1>1, <2>1
    <3> QED BY <3>1, <3>2
  <2>2. ASSUME u.header = [xmnp |-> TRUE, sha |-> TRUE] PROVE u.header.xmnp /\ u.header.sha
    BY <2>2
  <2> QED BY <2>1, <2>2
<1>4. <<u.schema, u.magic>> \in {<<1, "xman">>, <<3, "xsym">>, <<3, "xonm">>}
        <=> /\ u.schema \in {1, 3} /\ (u.schema = 1 => u.magic = "xman")
            /\ u.schema = 3 => u.magic \in {"xsym", "xonm"}
  OBVIOUS
<1>5. Genuine(u) <=> u.schema # 0 /\ ParseManifest(u)
  BY <1>3, <1>4 DEF Genuine, ParseManifest, VerifyManifestHeader
<1> QED BY <1>1, <1>2, <1>5

(* One item more. *)
LEMMA GoodNext ==
  ASSUME update \in Updates, NEW k \in 1..Len(update.items)
  PROVE  /\ Good(update.items[k]) => GoodBefore(k + 1) = GoodBefore(k) \cup {k}
         /\ ~Good(update.items[k]) => GoodBefore(k + 1) = GoodBefore(k)
         /\ k \notin GoodBefore(k) /\ IsFiniteSet(GoodBefore(k))
         /\ Cardinality(GoodBefore(k)) \in Nat
         /\ Cardinality(GoodBefore(k) \cup {k}) = Cardinality(GoodBefore(k)) + 1
<1>1. Len(update.items) \in Nat /\ DOMAIN update.items = 1..Len(update.items)
  BY GenuineParsed
<1>2. GoodItems \subseteq 1..Len(update.items) /\ (k \in GoodItems <=> Good(update.items[k]))
  BY <1>1 DEF GoodItems
<1>3. \A g \in GoodItems : g < k + 1 <=> g < k \/ g = k
  BY <1>1, <1>2
<1>4. k \notin GoodBefore(k)
  BY <1>1 DEF GoodBefore
<1>5. IsFiniteSet(GoodBefore(k))
  <2>1. IsFiniteSet(1..Len(update.items))
    BY <1>1, FS_Interval
  <2>2. GoodBefore(k) \subseteq 1..Len(update.items)
    BY <1>2 DEF GoodBefore
  <2> QED BY <2>1, <2>2, FS_Subset
<1>6. /\ Cardinality(GoodBefore(k)) \in Nat
      /\ Cardinality(GoodBefore(k) \cup {k}) = Cardinality(GoodBefore(k)) + 1
  BY <1>4, <1>5, FS_CardinalityType, FS_AddElement
<1>7. Good(update.items[k]) => GoodBefore(k + 1) = GoodBefore(k) \cup {k}
  BY <1>2, <1>3 DEF GoodBefore
<1>8. ~Good(update.items[k]) => GoodBefore(k + 1) = GoodBefore(k)
  BY <1>2, <1>3 DEF GoodBefore
<1> QED BY <1>4, <1>5, <1>6, <1>7, <1>8

(* A file is opened in the place given, or it is told that it could not be. *)
StoredOrTold(k, path) ==
  \/ copied' = copied /\ unopened' = unopened \cup {k}
  \/ /\ copied' = {c \in copied : c.path # path} \cup {[path |-> path, item |-> k]}
     /\ unopened' = unopened

(* Which is what dump_buffer_hex does. *)
LEMMA DumpFacts == ASSUME NEW k, NEW path, NEW opened, Dump(k, path, opened) PROVE StoredOrTold(k, path)
BY DEF Dump, StoredOrTold

(* What an item that is good, or not, does to the folder. *)
ItemStored ==
  IF copyToFolder /\ Good(Item) /\ Item.name # "flash"
  THEN StoredOrTold(item, Destination(Item))
  ELSE copied' = copied /\ unopened' = unopened

(* Nothing about the folder changes. *)
LEMMA FolderRests ==
  ASSUME CopiedSoFar, UNCHANGED <<update, item, copied, unopened, copyToFolder>>,
         pc' = "start" => pc = "start"
  PROVE  CopiedSoFar'
<1>1. Genuine(update)' = Genuine(update) /\ GoodBefore(item)' = GoodBefore(item)
  BY DEF Genuine, GoodBefore, GoodItems, Good
<1>2. \A c : HeldSoFar(c)' = HeldSoFar(c)
  BY <1>1 DEF HeldSoFar, Destination
<1>3. \A k : Delivered(k)' = Delivered(k)
  BY DEF Delivered, Destination
<1> QED BY <1>1, <1>2, <1>3 DEF CopiedSoFar

(* An item is done with: it is counted, and copied, if it is good. *)
LEMMA ItemPassed ==
  ASSUME MainInv, Genuine(update), item \in 1..Len(update.items), NextItem,
         UNCHANGED <<update, copyToFolder>>,
         WalkInv', (verdict # "none" => LastSeen(con.size))', doCopy' \in BOOLEAN,
         ttl' \in Counters,
         ttl'.filesOk + ttl'.conOk = ttl.filesOk + ttl.conOk + (IF Good(Item) THEN 1 ELSE 0),
         ttl'.filesChecked + ttl'.conChecked <= item,
         ItemStored
  PROVE  MainInv'
<1>1. /\ update \in Updates /\ copyToFolder \in BOOLEAN /\ Counted /\ CopiedSoFar
      /\ update' = update /\ copyToFolder' = copyToFolder
  BY DEF MainInv
<1>2. item' = item + 1 /\ pc' = Rest(item + 1)
  BY DEF NextItem
<1>3. Len(update.items) \in Nat /\ item \in Nat \ {0} /\ item <= Len(update.items)
  BY <1>1, GenuineParsed
<1>4. /\ item + 1 > Len(update.items) => pc' = "finish"
      /\ ~(item + 1 > Len(update.items)) => pc' = "items"
  BY <1>2 DEF Rest
<1>5. Genuine(update)' <=> Genuine(update)
  BY <1>1 DEF Genuine
<1>6. Place'
  BY <1>1, <1>2, <1>3, <1>4, <1>5 DEF Place
<1>7. GoodItems' = GoodItems /\ GoodBefore(item)' = GoodBefore(item + 1)
  BY <1>1, <1>2 DEF GoodItems, Good, GoodBefore
<1>8. Item = update.items[item]
  BY DEF Item
<1>9. Cardinality(GoodBefore(item)) = ttl.filesOk + ttl.conOk
  BY <1>1 DEF Counted
<1>10. Counted'
  <2>1. Cardinality(GoodBefore(item + 1)) = Cardinality(GoodBefore(item)) + (IF Good(Item) THEN 1 ELSE 0)
    <3>1. CASE Good(Item)
      BY <1>1, <1>8, <3>1, GoodNext
    <3>2. CASE ~Good(Item)
      <4>1. GoodBefore(item + 1) = GoodBefore(item) /\ Cardinality(GoodBefore(item)) \in Nat
        BY <1>1, <1>8, <3>2, GoodNext
      <4> QED BY <3>2, <4>1
    <3> QED BY <3>1, <3>2
  <2>2. pc' # "walk" /\ item' - 1 = item
    BY <1>2, <1>3, <1>4
  <2> QED BY <1>7, <1>9, <2>1, <2>2 DEF Counted
<1>11. CopiedSoFar'
  <2>1. GoodBefore(item) \subseteq GoodBefore(item + 1)
    BY <1>3 DEF GoodBefore, GoodItems
  <2>2. \A g \in GoodBefore(item + 1) : g \in GoodBefore(item) \/ (g = item /\ Good(Item))
    <3>1. CASE Good(Item)
      <4>1. GoodBefore(item + 1) = GoodBefore(item) \cup {item}
        BY <1>1, <1>8, <3>1, GoodNext
      <4> QED BY <3>1, <4>1
    <3>2. CASE ~Good(Item)
      BY <1>1, <1>8, <3>2, GoodNext
    <3> QED BY <3>1, <3>2
  <2>3. \A g \in GoodBefore(item) : g < item
    BY DEF GoodBefore
  <2>4. Good(Item) => item \in GoodBefore(item + 1)
    BY <1>1, <1>8, GoodNext
  <2>5. \A c : HeldSoFar(c) => HeldSoFar(c)'
    BY <1>1, <1>2, <1>5, <1>7, <2>1 DEF HeldSoFar, Destination
  <2>6. CASE /\ copyToFolder /\ Good(Item) /\ Item.name # "flash"
             /\ copied' = copied /\ unopened' = unopened \cup {item}
    <3>1. \A k : Delivered(k)' = Delivered(k)
      BY <1>1, <2>6 DEF Delivered
    <3>2. \A c \in copied' : copyToFolder' /\ HeldSoFar(c)'
      BY <1>1, <2>5, <2>6 DEF CopiedSoFar
    <3>3. \A k \in GoodBefore(item + 1) :
            update.items[k].name # "flash" => k \in unopened' \/ Delivered(k)'
      BY <1>1, <2>2, <2>6, <3>1 DEF CopiedSoFar
    <3> QED BY <1>1, <1>4, <1>5, <1>7, <3>2, <3>3 DEF CopiedSoFar
  <2>7. CASE /\ copyToFolder /\ Good(Item) /\ Item.name # "flash"
             /\ copied' = {c \in copied : c.path # Destination(Item)}
                            \cup {[path |-> Destination(Item), item |-> item]}
             /\ unopened' = unopened
    <3> DEFINE r == [path |-> Destination(Item), item |-> item]
    <3>1. r.path = Destination(Item) /\ r.item = item /\ r \in copied'
      BY <2>7
    <3> HIDE DEF r
    <3>2. ASSUME NEW c, c = r PROVE HeldSoFar(c)'
      <4>1. c.item \in GoodBefore(item)' /\ Genuine(update)'
        BY <1>5, <1>7, <2>4, <2>7, <3>1, <3>2
      <4>2. update'.items[c.item] = Item
        BY <1>1, <1>8, <3>1, <3>2
      <4> QED BY <2>7, <3>1, <3>2, <4>1, <4>2 DEF HeldSoFar
    <3>3. \A c \in copied' : c \in copied \/ c = r
      BY <2>7 DEF r
    <3>4. \A c \in copied' : copyToFolder' /\ HeldSoFar(c)'
      BY <1>1, <2>5, <2>7, <3>2, <3>3 DEF CopiedSoFar
    <3>5. ASSUME NEW k \in GoodBefore(item), Delivered(k) PROVE Delivered(k)'
      <4>1. PICK c \in copied : c.path = Destination(update.items[k]) /\ c.item >= k
        BY <3>5 DEF Delivered
      <4>2. CASE c.path # Destination(Item)
        BY <1>1, <2>7, <4>1, <4>2 DEF Delivered
      <4>3. CASE c.path = Destination(Item)
        <5>1. r.path = Destination(update'.items[k])
          BY <1>1, <3>1, <4>1, <4>3
        <5>2. r.item >= k
          <6>1. k \in 1..Len(update.items) /\ k < item
            BY <1>1, <2>3, GenuineParsed DEF GoodBefore, GoodItems
          <6> QED BY <1>3, <3>1, <6>1
        <5> QED BY <3>1, <5>1, <5>2 DEF Delivered
      <4> QED BY <4>2, <4>3
    <3>6. ASSUME NEW k, k = item PROVE Delivered(k)'
      <4>1. r.path = Destination(update'.items[k]) /\ r.item >= k
        BY <1>1, <1>3, <1>8, <3>1, <3>6
      <4> QED BY <3>1, <4>1 DEF Delivered
    <3>7. \A k \in GoodBefore(item + 1) :
            update.items[k].name # "flash" => k \in unopened' \/ Delivered(k)'
      BY <1>1, <2>2, <2>7, <3>5, <3>6 DEF CopiedSoFar
    <3> QED BY <1>1, <1>4, <1>5, <1>7, <3>4, <3>7 DEF CopiedSoFar
  <2>8. CASE /\ ~(copyToFolder /\ Good(Item) /\ Item.name # "flash")
              /\ copied' = copied /\ unopened' = unopened
    <3>1. \A k : Delivered(k)' = Delivered(k)
      BY <1>1, <2>8 DEF Delivered
    <3>2. \A c \in copied' : copyToFolder' /\ HeldSoFar(c)'
      BY <1>1, <2>5, <2>8 DEF CopiedSoFar
    <3>3. copyToFolder => \A k \in GoodBefore(item + 1) :
            update.items[k].name # "flash" => k \in unopened' \/ Delivered(k)'
      BY <1>1, <1>8, <2>2, <2>8, <3>1 DEF CopiedSoFar
    <3> QED BY <1>1, <1>4, <1>5, <1>7, <3>2, <3>3 DEF CopiedSoFar
  <2> QED BY <2>6, <2>7, <2>8 DEF ItemStored, StoredOrTold
<1>12. PathFilled'
  BY <1>4 DEF PathFilled
<1> QED BY <1>1, <1>6, <1>10, <1>11, <1>12 DEF MainInv

(* A file of the manifest, or the package, that is to be walked. *)
LEMMA Openable ==
  ASSUME NEW u \in Updates, NoLoneLastBlock, NEW k \in 1..Len(u.items),
         \/ u.items[k].name = "flash"
         \/ u.items[k].name = "other" /\ (u.schema = 1 \/ u.items[k].type = "xcontent")
  PROVE  \/ u.items[k].disk \in {Absent, Empty}
         \/ MaybeDamaged(u.items[k].disk) /\ LastSeen(u.items[k].disk.size)
<1>1. IsItem(u, u.items[k])
  BY UpdatesAssumption
<1>2. u.items[k].disk \in {Absent, Empty} \/ MaybeDamaged(u.items[k].disk)
  BY <1>1 DEF IsItem
<1> QED BY <1>2 DEF NoLoneLastBlock

(* readFileToBuf gives bytes of a file that is there and not empty. *)
LEMMA ReadableFiles ==
  ASSUME NEW size, NEW disk
  PROVE  Readable(size, disk) <=> size # 0 /\ disk \notin {Absent, Empty}
BY DEF Readable, ReadFileToBuf

(* The walk over an item's container begins. *)
LEMMA WalkBegins ==
  ASSUME MainInv, NoLoneLastBlock, Genuine(update), pc = "items", Item.name # "none",
         Item.name = "flash" \/ (Item.name = "other" /\ IsContainer),
         NEW size, size = IF Item.name = "flash" THEN 1 ELSE Item.size,
         NEW copy \in BOOLEAN, copy <=> Item.name # "flash",
         OpenContainer(size, Item.disk, copy), copy => outfilepath' = OutPath(Item)
  PROVE  MainInv'
<1>1. /\ update \in Updates /\ item \in 1..Len(update.items) /\ WalkInv /\ copyToFolder \in BOOLEAN
      /\ Counted /\ CopiedSoFar /\ (verdict # "none" => LastSeen(con.size)) /\ Place
  BY DEF MainInv, Place
<1>2. /\ update' = update /\ copyToFolder' = copyToFolder /\ copied' = copied /\ doCopy' = copy
      /\ unopened' = unopened
  BY DEF OpenContainer
<1>3. Item = update.items[item] /\ item \in Nat \ {0}
  BY <1>1 DEF Item, Place
<1>4. Item.disk \in {Absent, Empty} \/ (MaybeDamaged(Item.disk) /\ LastSeen(Item.disk.size))
  BY <1>1, <1>3, Openable DEF IsContainer
<1>5. Readable(size, Item.disk) <=> size # 0 /\ Item.disk \notin {Absent, Empty}
  BY ReadableFiles
<1>6. CASE Readable(size, Item.disk)
  <2>1. /\ StartWalk(Item.disk) /\ ttl' = [ttl EXCEPT !.conChecked = @ + 1]
        /\ pc' = "walk" /\ item' = item
    BY <1>6 DEF OpenContainer
  <2>2. MaybeDamaged(Item.disk) /\ LastSeen(Item.disk.size)
    BY <1>4, <1>5, <1>6
  <2>3. WalkInv'
    BY <2>1, <2>2, StartWalkStep
  <2>4. con' = Item.disk /\ verdict' # "none" /\ LastSeen(con.size)'
    BY <2>1, <2>2 DEF StartWalk, LastSeen, Fill, Tables
  <2>5. Item' = Item /\ (Genuine(update)' <=> Genuine(update)) /\ IsContainer' = IsContainer
    BY <1>2, <2>1 DEF Item, Genuine, IsContainer
  <2>6. Opened'
    <3>1. Item.name = "flash" \/ Item.size # 0
      BY <1>5, <1>6
    <3> QED BY <1>1, <1>2, <1>5, <1>6, <2>1, <2>4, <2>5, <3>1 DEF Opened
  <2>7. Place'
    BY <1>1, <1>2, <2>1, <2>5, <2>6 DEF Place
  <2>8. GoodItems' = GoodItems /\ GoodBefore(item)' = GoodBefore(item)
    BY <1>2, <2>1 DEF GoodItems, Good, GoodBefore
  <2>9. /\ ttl' \in Counters /\ ttl'.filesOk = ttl.filesOk /\ ttl'.conOk = ttl.conOk
        /\ ttl'.filesChecked = ttl.filesChecked /\ ttl'.conChecked = ttl.conChecked + 1
    BY <1>1, <2>1 DEF Counted, Counters
  <2>10. Counted'
    <3>1. ttl.filesChecked + ttl.conChecked <= item - 1 /\ ttl \in Counters
      BY <1>1 DEF Counted
    <3>2. ttl.filesChecked + (ttl.conChecked + 1) <= item
      BY <1>3, <3>1 DEF Counters
    <3> QED BY <1>1, <2>1, <2>5, <2>8, <2>9, <3>2 DEF Counted
  <2>11. CopiedSoFar'
    BY <1>1, <1>2, <2>1, FolderRests
  <2>12. PathFilled'
    BY <1>2, <2>5 DEF PathFilled, OutPath, Destination
  <2> QED BY <1>1, <1>2, <2>3, <2>4, <2>7, <2>10, <2>11, <2>12 DEF MainInv
<1>7. CASE ~Readable(size, Item.disk)
  <2>1. NextItem /\ UNCHANGED walk /\ ttl' = ttl
    BY <1>7 DEF OpenContainer
  <2>2. WalkInv'
    BY <1>1, <2>1, WalkRests
  <2>3. (verdict # "none" => LastSeen(con.size))'
    BY <1>1, <2>1 DEF walk, LastSeen, Fill, Tables
  <2>4. ~Good(Item)
    BY <1>5, <1>7 DEF Good, IsContainer
  <2>5. ttl' \in Counters /\ ttl'.filesOk + ttl'.conOk = ttl.filesOk + ttl.conOk + 0
        /\ ttl'.filesChecked + ttl'.conChecked <= item
    <3>1. ttl.filesChecked + ttl.conChecked <= item - 1 /\ ttl \in Counters
      BY <1>1 DEF Counted
    <3> QED BY <1>3, <2>1, <3>1 DEF Counters
  <2>6. /\ ttl'.filesOk + ttl'.conOk = ttl.filesOk + ttl.conOk + (IF Good(Item) THEN 1 ELSE 0)
        /\ ItemStored
    BY <1>2, <2>4, <2>5 DEF ItemStored
  <2> QED BY <1>1, <1>2, <2>1, <2>2, <2>3, <2>5, <2>6, ItemPassed
<1> QED BY <1>6, <1>7

(* The initial states. *)
LEMMA InitInv == ASSUME Init PROVE MainInv
<1>1. /\ verdict = "none" /\ contProcess = FALSE /\ update \in Updates
      /\ copyToFolder = FALSE /\ pc = "start" /\ item = 1 /\ doCopy = FALSE /\ copied = {}
      /\ ttl = [filesChecked |-> 0, filesOk |-> 0, conChecked |-> 0, conOk |-> 0]
  BY DEF Init, WalkInit
<1>2. Len(update.items) \in Nat /\ DOMAIN update.items = 1..Len(update.items)
  BY <1>1, GenuineParsed
<1>3. GoodBefore(1) = {}
  BY <1>2 DEF GoodBefore, GoodItems
<1>4. Cardinality(GoodBefore(item)) = 0
  BY <1>1, <1>3, FS_EmptySet
<1>5. WalkInv
  BY <1>1 DEF WalkInv
<1>6. Place
  BY <1>1, <1>2 DEF Place
<1>7. Counted
  <2>1. ttl \in Counters /\ ttl.filesOk + ttl.conOk = 0 /\ ttl.filesChecked + ttl.conChecked = 0
    BY <1>1 DEF Counters
  <2>2. ttl.filesChecked + ttl.conChecked <= item - 1 /\ pc # "walk"
    BY <1>1, <2>1
  <2> QED BY <1>4, <2>1, <2>2 DEF Counted
<1>8. CopiedSoFar /\ PathFilled
  BY <1>1 DEF CopiedSoFar, PathFilled
<1> QED BY <1>1, <1>5, <1>6, <1>7, <1>8 DEF MainInv

(* What concerns neither the walk nor the manifest. *)
LEMMA Untouched ==
  ASSUME MainInv, UNCHANGED <<walk, update>>
  PROVE  /\ WalkInv' /\ (verdict # "none" => LastSeen(con.size))' /\ update' \in Updates
         /\ (Genuine(update)' <=> Genuine(update)) /\ GoodItems' = GoodItems
<1>1. WalkInv'
  BY WalkRests DEF MainInv
<1>2. (verdict # "none" => LastSeen(con.size))'
  BY DEF MainInv, walk, LastSeen, Fill, Tables
<1>3. GoodItems' = GoodItems /\ (Genuine(update)' <=> Genuine(update))
  BY DEF GoodItems, Good, Genuine
<1> QED BY <1>1, <1>2, <1>3 DEF MainInv

(* The manifest is read, or there is none. *)
LEMMA StartStep == ASSUME MainInv, Start PROVE MainInv'
<1>1. /\ pc = "start" /\ item = 1 /\ item' = item /\ doCopy' = doCopy /\ ttl' = ttl
      /\ copied' = copied /\ update' = update /\ UNCHANGED walk
  BY DEF Start, MainInv, Place
<1>2. copyToFolder' \in BOOLEAN
  BY DEF Start
<1>3. /\ WalkInv' /\ (verdict # "none" => LastSeen(con.size))' /\ update' \in Updates
      /\ (Genuine(update)' <=> Genuine(update)) /\ GoodItems' = GoodItems
  BY <1>1, Untouched
<1>4. /\ Genuine(update) <=> update.schema # 0 /\ ParseManifest(update)
      /\ Len(update.items) \in Nat /\ DOMAIN update.items = 1..Len(update.items)
  BY GenuineParsed DEF MainInv
<1>5. GoodBefore(item)' = {} /\ GoodBefore(item) = {}
  BY <1>1, <1>3, <1>4 DEF GoodBefore, GoodItems
<1>6. \/ Genuine(update) /\ pc' = Rest(1)
      \/ ~Genuine(update) /\ (pc' = "finish" \/ (pc' = "package" /\ update.schema = 0))
  BY <1>4 DEF Start
<1>7. \/ pc' = "items" /\ Genuine(update) /\ 1 <= Len(update.items)
      \/ pc' = "finish" /\ (Genuine(update) => 1 = Len(update.items) + 1)
      \/ pc' = "package" /\ update.schema = 0 /\ ~Genuine(update)
  BY <1>4, <1>6 DEF Rest
<1>8. Place'
  BY <1>1, <1>3, <1>4, <1>7 DEF Place
<1>9. Counted'
  BY <1>1, <1>3, <1>5, <1>7 DEF MainInv, Counted
<1>10. CopiedSoFar'
  <2>1. copied' = {}
    BY <1>1 DEF MainInv, CopiedSoFar
  <2> QED BY <1>5, <2>1 DEF CopiedSoFar
<1>11. PathFilled'
  BY <1>7 DEF PathFilled
<1> QED BY <1>1, <1>2, <1>3, <1>8, <1>9, <1>10, <1>11 DEF MainInv

(* The package on its own. *)
LEMMA CheckPackageStep == ASSUME MainInv, NoLoneLastBlock, CheckPackage PROVE MainInv'
<1>1. /\ pc = "package" /\ update \in Updates /\ update.schema = 0 /\ ~Genuine(update)
      /\ item \in Nat \ {0} /\ WalkInv /\ copyToFolder \in BOOLEAN
      /\ OpenContainer(1, update.package, FALSE)
  BY DEF CheckPackage, MainInv, Place
<1>2. /\ doCopy' = FALSE /\ update' = update /\ copyToFolder' = copyToFolder /\ copied' = copied
      /\ unopened' = unopened
  BY <1>1 DEF OpenContainer
<1>3. /\ Len(update.items) = 0 /\ (Genuine(update)' <=> Genuine(update))
  BY <1>1, <1>2, GenuineParsed DEF Genuine
<1>4. update.package \in {Absent, Empty} \/ (MaybeDamaged(update.package) /\ LastSeen(update.package.size))
  BY <1>1, UpdatesAssumption DEF NoLoneLastBlock
<1>5. pc' # "start" => CopiedSoFar' /\ PathFilled'
  <2>1. ASSUME NEW c, HeldSoFar(c) PROVE HeldSoFar(c)'
    BY <1>1, <1>3, <2>1 DEF HeldSoFar
  <2> QED BY <1>1, <1>2, <1>3, <2>1 DEF MainInv, CopiedSoFar, PathFilled
<1>6. ttl \in Counters
  BY DEF MainInv, Counted
<1>7. CASE Readable(1, update.package)
  <2>1. /\ StartWalk(update.package) /\ ttl' = [ttl EXCEPT !.conChecked = @ + 1]
        /\ pc' = "walk" /\ item' = item
    BY <1>1, <1>7 DEF OpenContainer
  <2>2. MaybeDamaged(update.package) /\ LastSeen(update.package.size)
    BY <1>4, <1>7, ReadableFiles
  <2>3. WalkInv'
    BY <2>1, <2>2, StartWalkStep
  <2>4. verdict' # "none" /\ LastSeen(con.size)'
    BY <2>1, <2>2 DEF StartWalk, LastSeen, Fill, Tables
  <2>5. Place'
    BY <1>1, <1>2, <1>3, <2>1, <2>4 DEF Place, Opened
  <2>6. Counted'
    BY <1>1, <1>3, <1>6, <2>1 DEF Counted, Counters
  <2> QED BY <1>1, <1>2, <1>5, <2>1, <2>3, <2>4, <2>5, <2>6 DEF MainInv
<1>8. CASE ~Readable(1, update.package)
  <2>1. NextItem /\ UNCHANGED walk /\ ttl' = ttl
    BY <1>1, <1>8 DEF OpenContainer
  <2>2. WalkInv' /\ (verdict # "none" => LastSeen(con.size))'
    BY <1>2, <2>1, Untouched
  <2>3. pc' = "finish" /\ item' \in Nat \ {0}
    BY <1>1, <1>3, <2>1 DEF NextItem, Rest
  <2>4. Place' /\ Counted'
    BY <1>1, <1>3, <1>6, <2>1, <2>3 DEF Place, Counted
  <2> QED BY <1>1, <1>2, <1>5, <2>2, <2>3, <2>4 DEF MainInv
<1> QED BY <1>7, <1>8

(* A plain file. *)
LEMMA CheckFileStep == ASSUME MainInv, CheckFile PROVE MainInv'
<1>1. /\ pc = "items" /\ Item.name = "other" /\ ~IsContainer /\ Item.type = "file"
      /\ NextItem /\ UNCHANGED <<walk, update>> /\ copyToFolder' = copyToFolder /\ doCopy' = doCopy
  BY DEF CheckFile
<1>2. /\ Genuine(update) /\ item \in 1..Len(update.items) /\ doCopy \in BOOLEAN /\ ttl \in Counters
      /\ ttl.filesChecked + ttl.conChecked <= item - 1 /\ item \in Nat
  BY <1>1 DEF MainInv, Place, Counted
<1>3. WalkInv' /\ (verdict # "none" => LastSeen(con.size))'
  BY <1>1, Untouched
<1>4. Good(Item) <=> Readable(Item.size, Item.disk) /\ Item.disk = Intact
  BY <1>1, ReadableFiles DEF Good, IsContainer
<1>5. CASE Readable(Item.size, Item.disk)
  <2>1. /\ ttl' = [ttl EXCEPT !.filesChecked = @ + 1,
                              !.filesOk = IF Item.disk = Intact THEN @ + 1 ELSE @]
        /\ outfilepath' = OutPath(Item)
        /\ \E opened \in BOOLEAN :
             IF Copies(Item.disk = Intact) THEN Dump(item, outfilepath', opened)
             ELSE UNCHANGED <<copied, unopened>>
    BY <1>1, <1>5 DEF CheckFile
  <2>2. /\ ttl' \in Counters /\ ttl'.filesChecked = ttl.filesChecked + 1
        /\ ttl'.conChecked = ttl.conChecked /\ ttl'.conOk = ttl.conOk
        /\ ttl'.filesOk = IF Good(Item) THEN ttl.filesOk + 1 ELSE ttl.filesOk
    <3> DEFINE once == [ttl EXCEPT !.filesChecked = @ + 1]
    <3>1. /\ once \in Counters /\ once.filesChecked = ttl.filesChecked + 1
          /\ once.filesOk = ttl.filesOk /\ once.conChecked = ttl.conChecked /\ once.conOk = ttl.conOk
      BY <1>2 DEF Counters
    <3>2. ttl' = [once EXCEPT !.filesOk = IF Item.disk = Intact THEN ttl.filesOk + 1 ELSE ttl.filesOk]
      BY <2>1
    <3> HIDE DEF once
    <3>3. (IF Item.disk = Intact THEN ttl.filesOk + 1 ELSE ttl.filesOk)
            = IF Good(Item) THEN ttl.filesOk + 1 ELSE ttl.filesOk
      BY <1>4, <1>5
    <3>4. ttl' = [once EXCEPT !.filesOk = IF Good(Item) THEN ttl.filesOk + 1 ELSE ttl.filesOk]
      BY <3>2, <3>3
    <3>5. (IF Good(Item) THEN ttl.filesOk + 1 ELSE ttl.filesOk) \in Nat
      BY <1>2 DEF Counters
    <3> QED BY <3>1, <3>4, <3>5 DEF Counters
  <2>3. /\ ttl'.filesOk + ttl'.conOk = ttl.filesOk + ttl.conOk + (IF Good(Item) THEN 1 ELSE 0)
        /\ ttl'.filesChecked + ttl'.conChecked <= item
    BY <1>2, <2>2 DEF Counters
  <2>4. ItemStored
    <3>1. PICK opened \in BOOLEAN :
            IF Copies(Item.disk = Intact) THEN Dump(item, outfilepath', opened)
            ELSE UNCHANGED <<copied, unopened>>
      BY <2>1
    <3>2. CASE Copies(Item.disk = Intact)
      <4>1. Dump(item, Destination(Item), opened)
        BY <2>1, <3>1, <3>2 DEF Copies, OutPath
      <4>2. StoredOrTold(item, Destination(Item))
        BY <4>1, DumpFacts
      <4> QED BY <1>1, <1>4, <1>5, <3>2, <4>2 DEF ItemStored, Copies
    <3>3. CASE ~Copies(Item.disk = Intact)
      BY <1>4, <3>1, <3>3 DEF ItemStored, Copies
    <3> QED BY <3>2, <3>3
  <2> QED BY <1>1, <1>2, <1>3, <2>2, <2>3, <2>4, ItemPassed
<1>6. CASE ~Readable(Item.size, Item.disk)
  <2>1. ttl' = ttl /\ copied' = copied /\ unopened' = unopened
    BY <1>1, <1>6 DEF CheckFile
  <2>2. /\ ttl'.filesOk + ttl'.conOk = ttl.filesOk + ttl.conOk + (IF Good(Item) THEN 1 ELSE 0)
        /\ ttl'.filesChecked + ttl'.conChecked <= item
    BY <1>2, <1>4, <1>6, <2>1 DEF Counters
  <2>3. ItemStored
    BY <1>4, <1>6, <2>1 DEF ItemStored
  <2> QED BY <1>1, <1>2, <1>3, <2>1, <2>2, <2>3, ItemPassed
<1> QED BY <1>5, <1>6

(* An item there is nothing to do for. *)
LEMMA SkipItemStep == ASSUME MainInv, SkipItem PROVE MainInv'
<1>1. /\ pc = "items" /\ NextItem /\ UNCHANGED <<walk, update>> /\ copyToFolder' = copyToFolder
      /\ doCopy' = doCopy /\ ttl' = ttl /\ copied' = copied /\ unopened' = unopened
  BY DEF SkipItem, folderVars
<1>2. /\ Genuine(update) /\ item \in 1..Len(update.items) /\ doCopy \in BOOLEAN /\ ttl \in Counters
      /\ ttl.filesChecked + ttl.conChecked <= item - 1 /\ item \in Nat
  BY <1>1 DEF MainInv, Place, Counted
<1>3. WalkInv' /\ (verdict # "none" => LastSeen(con.size))'
  BY <1>1, Untouched
<1>4. ~Good(Item)
  BY DEF SkipItem, Good, IsContainer
<1>5. /\ ttl'.filesOk + ttl'.conOk = ttl.filesOk + ttl.conOk + (IF Good(Item) THEN 1 ELSE 0)
      /\ ttl'.filesChecked + ttl'.conChecked <= item
  BY <1>1, <1>2, <1>4 DEF Counters
<1>6. ItemStored
  BY <1>1, <1>4 DEF ItemStored
<1> QED BY <1>1, <1>2, <1>3, <1>5, <1>6, ItemPassed

(* The walk over a container. *)
LEMMA WalkMainStep == ASSUME MainInv, Walk PROVE MainInv'
<1>1. /\ pc = "walk" /\ WalkStep /\ UNCHANGED main /\ WalkInv
  BY DEF Walk, MainInv
<1>2. WalkInv' /\ con' = con /\ verdict' # "none"
  BY <1>1, WalkStepInv
<1>3. /\ update' = update /\ copyToFolder' = copyToFolder /\ pc' = pc /\ item' = item
      /\ doCopy' = doCopy /\ ttl' = ttl /\ copied' = copied /\ unopened' = unopened
      /\ outfilepath' = outfilepath
  BY <1>1 DEF main, folderVars
<1>4. Opened'
  BY <1>1, <1>2, <1>3 DEF MainInv, Place, Opened, Genuine, Item, IsContainer
<1>5. LastSeen(con.size)'
  BY <1>1, <1>2 DEF MainInv, Place, Opened, LastSeen, Fill, Tables
<1>6. Place'
  BY <1>3, <1>4 DEF MainInv, Place, Genuine
<1>7. Counted'
  BY <1>3 DEF MainInv, Counted, GoodBefore, GoodItems, Good, Genuine
<1>8. CopiedSoFar' /\ PathFilled'
  <2>1. CopiedSoFar'
    BY <1>3, FolderRests DEF MainInv
  <2> QED BY <1>3, <2>1 DEF MainInv, PathFilled, Item, Destination
<1> QED BY <1>2, <1>3, <1>5, <1>6, <1>7, <1>8 DEF MainInv

(* The verdict on it. *)
LEMMA ContainerDoneStep == ASSUME MainInv, ContainerDone PROVE MainInv'
<1>1. /\ pc = "walk" /\ verdict # "checking" /\ NextItem /\ UNCHANGED <<walk, update>>
      /\ copyToFolder' = copyToFolder /\ doCopy' = doCopy
      /\ ttl' = [ttl EXCEPT !.conOk = IF Verified THEN @ + 1 ELSE @]
      /\ IF doCopy /\ Copies(Verified)
         THEN \E opened \in BOOLEAN : Dump(item, outfilepath, opened)
         ELSE copied' = copied /\ unopened' = unopened
  BY DEF ContainerDone
<1>2. /\ update \in Updates /\ Opened /\ doCopy \in BOOLEAN /\ copyToFolder \in BOOLEAN
      /\ ttl \in Counters /\ WalkInv /\ item \in Nat \ {0}
  BY <1>1 DEF MainInv, Place, Counted
<1>3. WalkInv' /\ (verdict # "none" => LastSeen(con.size))'
  BY <1>1, Untouched
<1>4. ttl' \in Counters /\ ttl'.filesChecked = ttl.filesChecked /\ ttl'.conChecked = ttl.conChecked
      /\ ttl'.filesOk = ttl.filesOk /\ ttl'.conOk = IF Verified THEN ttl.conOk + 1 ELSE ttl.conOk
  BY <1>1, <1>2 DEF Counters
<1>5. CASE Genuine(update)
  <2>1. /\ item \in 1..Len(update.items) /\ con = Item.disk /\ Item.disk \notin {Absent, Empty}
        /\ Item.name # "none" /\ (Item.name = "flash" \/ (IsContainer /\ Item.size # 0))
        /\ (doCopy <=> Item.name # "flash")
    BY <1>2, <1>5 DEF Opened
  <2>2. Verified <=> con = Whole(con.size)
    <3>1. verdict \in {"ok", "corrupt"} /\ LastSeen(con.size)
      BY <1>1, <1>2 DEF WalkInv, Opened, MainInv
    <3> QED BY <1>2, <3>1, VerdictTrue DEF Verified
  <2>3. Good(Item) <=> Verified
    BY <2>1, <2>2 DEF Good, IsContainer
  <2>4. ttl.filesChecked + ttl.conChecked <= item
    BY <1>1, <1>5 DEF MainInv, Counted
  <2>5. /\ ttl'.filesOk + ttl'.conOk = ttl.filesOk + ttl.conOk + (IF Good(Item) THEN 1 ELSE 0)
        /\ ttl'.filesChecked + ttl'.conChecked <= item
    BY <1>2, <1>4, <2>3, <2>4 DEF Counters
  <2>6. ItemStored
    <3>1. CASE doCopy /\ Copies(Verified)
      <4>1. outfilepath = Destination(Item)
        BY <1>1, <3>1 DEF MainInv, PathFilled, Copies
      <4>2. StoredOrTold(item, Destination(Item))
        BY <1>1, <3>1, <4>1, DumpFacts
      <4> QED BY <2>1, <2>3, <3>1, <4>2 DEF ItemStored, Copies
    <3>2. CASE ~(doCopy /\ Copies(Verified))
      BY <1>1, <2>1, <2>3, <3>2 DEF ItemStored, Copies
    <3> QED BY <3>1, <3>2
  <2> QED BY <1>1, <1>2, <1>3, <1>4, <1>5, <2>1, <2>5, <2>6, ItemPassed
<1>6. CASE ~Genuine(update)
  <2>1. update.schema = 0 /\ ~doCopy
    BY <1>2, <1>6 DEF Opened
  <2>2. Len(update.items) = 0 /\ (Genuine(update)' <=> Genuine(update)) /\ update' \in Updates
    BY <1>1, <1>2, <2>1, GenuineParsed DEF Genuine
  <2>3. pc' = "finish" /\ item' \in Nat \ {0}
    BY <1>1, <1>2, <2>2 DEF NextItem, Rest
  <2>4. Place' /\ Counted'
    BY <1>4, <1>6, <2>2, <2>3 DEF Place, Counted
  <2>5. CopiedSoFar' /\ PathFilled'
    <3>1. ASSUME NEW c, HeldSoFar(c) PROVE HeldSoFar(c)'
      BY <1>6, <2>2, <3>1 DEF HeldSoFar
    <3> QED BY <1>1, <1>6, <2>1, <2>2, <2>3, <3>1 DEF MainInv, CopiedSoFar, PathFilled
  <2> QED BY <1>1, <1>2, <1>3, <2>2, <2>4, <2>5 DEF MainInv
<1> QED BY <1>5, <1>6

(* The manifest itself is copied. *)
LEMMA FinishStep == ASSUME MainInv, Finish PROVE MainInv'
<1>1. /\ pc = "finish" /\ pc' = "report" /\ UNCHANGED <<walk, update>> /\ copyToFolder' = copyToFolder
      /\ doCopy' = doCopy /\ ttl' = ttl /\ item' = item
      /\ IF copyToFolder /\ update.schema # 0
         THEN \E opened \in BOOLEAN : Dump(0, ManifestPath, opened)
         ELSE copied' = copied /\ unopened' = unopened
  BY DEF Finish
<1>2. /\ WalkInv' /\ (verdict # "none" => LastSeen(con.size))' /\ update' \in Updates
      /\ (Genuine(update)' <=> Genuine(update)) /\ GoodItems' = GoodItems
  BY <1>1, Untouched
<1>3. GoodBefore(item)' = GoodBefore(item)
  BY <1>1, <1>2 DEF GoodBefore
<1>4. Place'
  BY <1>1, <1>2 DEF MainInv, Place
<1>5. Counted'
  BY <1>1, <1>2, <1>3 DEF MainInv, Counted
<1>6. CopiedSoFar'
  <2>1. CopiedSoFar /\ update' = update /\ item' = item /\ copyToFolder' = copyToFolder /\ pc' # "start"
    BY <1>1 DEF MainInv
  <2>2. \A c : HeldSoFar(c)' <=> HeldSoFar(c)
    BY <1>2, <1>3, <2>1 DEF HeldSoFar
  <2>3. CASE ~(copyToFolder /\ update.schema # 0)
    BY <1>1, <2>1, <2>3, FolderRests
  <2>4. CASE copyToFolder /\ StoredOrTold(0, ManifestPath)
    <3>1. \A c \in copied' : c \in copied \/ c = [path |-> ManifestPath, item |-> 0]
      BY <2>4 DEF StoredOrTold
    <3>2. HeldSoFar([path |-> ManifestPath, item |-> 0])
      BY DEF HeldSoFar
    <3>3. \A c \in copied' : copyToFolder' /\ HeldSoFar(c)'
      BY <2>1, <2>2, <2>4, <3>1, <3>2 DEF CopiedSoFar
    <3>4. ASSUME NEW k \in GoodBefore(item), Delivered(k) PROVE Delivered(k)'
      <4>1. PICK c \in copied : c.path = Destination(update.items[k]) /\ c.item >= k
        BY <3>4 DEF Delivered
      <4>2. Destination(update.items[k]) # ManifestPath
        <5>1. k \in 1..Len(update.items) /\ update \in Updates
          BY GenuineParsed DEF GoodBefore, GoodItems, MainInv
        <5>2. update.items[k].folder # "base"
          BY <5>1, UpdatesAssumption DEF IsItem
        <5> QED BY <5>2 DEF Destination, ManifestPath
      <4>3. c \in copied'
        BY <2>4, <4>1, <4>2 DEF StoredOrTold
      <4> QED BY <2>1, <4>1, <4>3 DEF Delivered
    <3>5. unopened \subseteq unopened'
      BY <2>4 DEF StoredOrTold
    <3> QED BY <1>2, <1>3, <2>1, <3>3, <3>4, <3>5 DEF CopiedSoFar
  <2> QED BY <1>1, <2>3, <2>4, DumpFacts
<1>7. PathFilled'
  BY <1>1 DEF PathFilled
<1> QED BY <1>1, <1>2, <1>4, <1>5, <1>6, <1>7 DEF MainInv

(* At the end no item is left. *)
LEMMA AllPassed ==
  ASSUME MainInv, pc = "report", Genuine(update)
  PROVE  GoodBefore(item) = GoodItems /\ item - 1 = Len(update.items)
<1>1. item = Len(update.items) + 1
  BY DEF MainInv, Place
<1>2. Len(update.items) \in Nat /\ DOMAIN update.items = 1..Len(update.items)
  BY GenuineParsed DEF MainInv
<1>3. \A g \in GoodItems : g < item
  BY <1>1, <1>2 DEF GoodItems
<1> QED BY <1>1, <1>2, <1>3 DEF GoodBefore

(* The containers of the manifest. *)
LEMMA CheckFlashStep == ASSUME MainInv, NoLoneLastBlock, CheckFlash PROVE MainInv'
<1>1. pc = "items" /\ Item.name = "flash" /\ OpenContainer(1, Item.disk, FALSE)
  BY DEF CheckFlash
<1>2. Genuine(update)
  BY <1>1 DEF MainInv, Place
<1> QED BY <1>1, <1>2, WalkBegins

(* A container of the manifest. *)
LEMMA CheckContainerStep == ASSUME MainInv, NoLoneLastBlock, CheckContainer PROVE MainInv'
<1>1. /\ pc = "items" /\ Item.name = "other" /\ IsContainer
      /\ OpenContainer(Item.size, Item.disk, TRUE) /\ outfilepath' = OutPath(Item)
  BY DEF CheckContainer
<1>2. Genuine(update)
  BY <1>1 DEF MainInv, Place
<1> QED BY <1>1, <1>2, WalkBegins

(* All steps together. *)
LEMMA StepInv == ASSUME MainInv, NoLoneLastBlock, [Next]_vars PROVE MainInv'
<1>1. CASE Next
  BY <1>1, StartStep, CheckPackageStep, CheckFlashStep, CheckContainerStep, CheckFileStep,
     SkipItemStep, WalkMainStep, ContainerDoneStep, FinishStep DEF Next
<1>2. CASE UNCHANGED vars
  <2>1. /\ UNCHANGED <<walk, update>> /\ update' = update /\ copyToFolder' = copyToFolder /\ pc' = pc
        /\ item' = item /\ doCopy' = doCopy /\ ttl' = ttl /\ copied' = copied
        /\ unopened' = unopened /\ outfilepath' = outfilepath
    BY <1>2 DEF vars, main, folderVars
  <2>2. /\ WalkInv' /\ (verdict # "none" => LastSeen(con.size))' /\ update' \in Updates
        /\ (Genuine(update)' <=> Genuine(update)) /\ GoodItems' = GoodItems
    BY <2>1, Untouched
  <2>3. verdict' = verdict /\ con' = con
    BY <2>1 DEF walk
  <2>4. Opened' = Opened
    BY <2>1, <2>2, <2>3 DEF Opened, Item, IsContainer, Genuine
  <2>5. Place' /\ GoodBefore(item)' = GoodBefore(item)
    BY <2>1, <2>2, <2>4 DEF MainInv, Place, GoodBefore
  <2>6. Counted'
    BY <2>1, <2>2, <2>5 DEF MainInv, Counted
  <2>7. CopiedSoFar' /\ PathFilled'
    <3>1. CopiedSoFar'
      BY <2>1, FolderRests DEF MainInv
    <3> QED BY <2>1, <3>1 DEF MainInv, PathFilled, Item, Destination
  <2> QED BY <2>1, <2>2, <2>5, <2>6, <2>7 DEF MainInv
<1> QED BY <1>1, <1>2

-------------------------------------------------------------------------------
(* Of the program itself, whatever lies behind the last table: only what   *)
(* the walk needs to know of where it is.                                  *)
PlainInv ==
  /\ WalkInv /\ update \in Updates /\ item \in Nat \ {0}
  /\ pc = "start" => item = 1
  /\ pc = "package" => update.schema = 0
  /\ pc = "items" => item \in 1..Len(update.items)

(* No step of the program disturbs this. *)
LEMMA PlainStep == ASSUME PlainInv, [Next]_vars PROVE PlainInv'
<1>1. /\ WalkInv /\ update \in Updates /\ item \in Nat \ {0} /\ update' = update
  BY DEF PlainInv, Next, Start, CheckPackage, CheckFlash, CheckContainer, CheckFile, SkipItem, Walk,
         ContainerDone, Finish, OpenContainer, vars, main
<1>2. Len(update.items) \in Nat
  BY <1>1, GenuineParsed
<1>3. \A k \in Nat \ {0} : Rest(k) = "items" => k \in 1..Len(update.items)
  BY <1>2 DEF Rest
<1>4. \A k \in Nat \ {0} : Rest(k) \in {"items", "finish"}
  BY DEF Rest
<1>5. ASSUME NextItem, WalkInv' PROVE PlainInv'
  <2>1. item' = item + 1 /\ pc' = Rest(item + 1) /\ item + 1 \in Nat \ {0}
    BY <1>1, <1>5 DEF NextItem
  <2> QED BY <1>1, <1>3, <1>4, <1>5, <2>1 DEF PlainInv
<1>6. ASSUME NEW size, NEW copy, NEW disk, OpenContainer(size, disk, copy),
             disk \in {Absent, Empty} \/ MaybeDamaged(disk)
      PROVE  PlainInv'
  <2>1. CASE Readable(size, disk)
    <3>1. StartWalk(disk) /\ pc' = "walk" /\ item' = item /\ MaybeDamaged(disk)
      BY <1>6, <2>1, ReadableFiles DEF OpenContainer
    <3>2. WalkInv'
      BY <3>1, StartWalkStep
    <3> QED BY <1>1, <3>1, <3>2 DEF PlainInv
  <2>2. CASE ~Readable(size, disk)
    <3>1. NextItem /\ UNCHANGED walk
      BY <1>6, <2>2 DEF OpenContainer
    <3> QED BY <1>1, <1>5, <3>1, WalkRests
  <2> QED BY <2>1, <2>2
<1>7. CASE Start
  <2>1. UNCHANGED walk /\ item = 1 /\ item' = item
    BY <1>7 DEF Start, PlainInv
  <2>2. pc' = Rest(1) \/ pc' = "finish" \/ (pc' = "package" /\ update.schema = 0)
    BY <1>7 DEF Start
  <2>3. WalkInv'
    BY <1>1, <2>1, WalkRests
  <2> QED BY <1>1, <1>3, <1>4, <2>1, <2>2, <2>3 DEF PlainInv
<1>8. CASE CheckPackage
  <2>1. update.package \in {Absent, Empty} \/ MaybeDamaged(update.package)
    BY <1>1, <1>8, UpdatesAssumption DEF CheckPackage, PlainInv
  <2> QED BY <1>6, <1>8, <2>1 DEF CheckPackage
<1>9. CASE CheckFlash \/ CheckContainer
  <2>1. item \in 1..Len(update.items) /\ Item = update.items[item]
    BY <1>9 DEF CheckFlash, CheckContainer, PlainInv, Item
  <2>2. IsItem(update, Item)
    BY <1>1, <2>1, UpdatesAssumption
  <2>3. Item.disk \in {Absent, Empty} \/ MaybeDamaged(Item.disk)
    BY <1>9, <2>2 DEF CheckFlash, CheckContainer, IsItem, IsContainer
  <2> QED BY <1>6, <1>9, <2>3 DEF CheckFlash, CheckContainer
<1>10. CASE CheckFile \/ SkipItem \/ ContainerDone
  <2>1. NextItem /\ UNCHANGED walk
    BY <1>10 DEF CheckFile, SkipItem, ContainerDone
  <2> QED BY <1>1, <1>5, <2>1, WalkRests
<1>11. CASE Walk
  <2>1. pc = "walk" /\ WalkStep /\ UNCHANGED main
    BY <1>11 DEF Walk
  <2>2. WalkInv'
    BY <1>1, <2>1, WalkStepInv
  <2> QED BY <1>1, <2>1, <2>2 DEF PlainInv, main
<1>12. CASE Finish
  <2>1. UNCHANGED walk /\ pc' = "report" /\ item' = item
    BY <1>12 DEF Finish
  <2> QED BY <1>1, <2>1, WalkRests DEF PlainInv
<1>13. CASE UNCHANGED vars
  <2>1. UNCHANGED walk /\ pc' = pc /\ item' = item
    BY <1>13 DEF vars, main
  <2> QED BY <1>1, <2>1, WalkRests DEF PlainInv
<1> QED BY <1>7, <1>8, <1>9, <1>10, <1>11, <1>12, <1>13 DEF Next

-------------------------------------------------------------------------------
(* conCheckHashes calls no container corrupt that is whole, whatever the   *)
(* size of a table and the number of tables and blocks.                    *)
THEOREM WholeNeverCorrupt == Spec => []WholeContainersPass
<1>1. Init => PlainInv
  <2>1. SUFFICES ASSUME Init PROVE PlainInv
    OBVIOUS
  <2>2. MainInv
    BY <2>1, InitInv
  <2>3. pc = "start" /\ item = 1
    BY <2>1 DEF Init
  <2> QED BY <2>2, <2>3 DEF MainInv, PlainInv
<1>2. PlainInv /\ [Next]_vars => PlainInv'
  BY PlainStep
<1>3. PlainInv => WholeContainersPass
  BY DEF PlainInv, WalkInv, WholeContainersPass
<1> QED BY <1>1, <1>2, <1>3, PTL DEF Spec

(* What it accepts has every block it was signed with: the hashes above a  *)
(* block, up to the root, are all compared, but for the one block of a     *)
(* last table that follows two or more others.                             *)
THEOREM AcceptedAreIntact ==
  ASSUME NoLoneLastBlock
  PROVE  Spec => []AcceptedIsIntact
<1>1. Init => MainInv
  BY InitInv
<1>2. MainInv /\ [Next]_vars => MainInv'
  BY StepInv
<1>3. MainInv => AcceptedIsIntact
  <2>1. SUFFICES ASSUME MainInv, verdict = "ok"
                 PROVE  AcceptedIsIntact
    BY DEF AcceptedIsIntact
  <2>2. con.blocks = Blocks(con.size)
    BY <2>1 DEF MainInv, WalkInv
  <2>3. Len(con.blocks) \in Nat
    BY <2>1, Shape, Limits, Places DEF MainInv, WalkInv
  <2> QED BY <2>2, <2>3 DEF AcceptedIsIntact, Length
<1> QED BY <1>1, <1>2, <1>3, PTL DEF Spec

(* The report counts every file that is there and intact once, and no      *)
(* other as good.                                                          *)
THEOREM ReportIsTrue ==
  ASSUME NoLoneLastBlock
  PROVE  Spec => []SummaryCounts
<1>1. Init => MainInv
  BY InitInv
<1>2. MainInv /\ [Next]_vars => MainInv'
  BY StepInv
<1>3. MainInv => SummaryCounts
  <2>1. SUFFICES ASSUME MainInv, pc = "report", Genuine(update)
                 PROVE  SummaryCounts
    BY DEF SummaryCounts
  <2>2. GoodBefore(item) = GoodItems /\ item - 1 = Len(update.items)
    BY <2>1, AllPassed
  <2> QED BY <2>1, <2>2 DEF SummaryCounts, MainInv, Counted
<1> QED BY <1>1, <1>2, <1>3, PTL DEF Spec

(* At all times the folder holds nothing but the manifest and good files   *)
(* of a genuine one, each in its own place; and in the end each of these   *)
(* has been delivered there, or it was said that its file could not be     *)
(* opened.                                                                 *)
THEOREM FolderIsExact ==
  ASSUME NoLoneLastBlock
  PROVE  Spec => []CopyIsExact
<1>1. Init => MainInv
  BY InitInv
<1>2. MainInv /\ [Next]_vars => MainInv'
  BY StepInv
<1>3. MainInv => CopyIsExact
  <2>1. SUFFICES ASSUME MainInv PROVE CopyIsExact
    OBVIOUS
  <2>2. \A c \in copied : copyToFolder /\ MayHold(c)
    BY <2>1 DEF MainInv, CopiedSoFar, HeldSoFar, MayHold, GoodBefore
  <2>3. pc = "report" /\ Genuine(update) => GoodBefore(item) = GoodItems
    BY <2>1, AllPassed
  <2> QED BY <2>1, <2>2, <2>3 DEF CopyIsExact, MainInv, CopiedSoFar
<1> QED BY <1>1, <1>2, <1>3, PTL DEF Spec
===============================================================================
