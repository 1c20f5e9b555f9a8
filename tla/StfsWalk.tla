------------------------------- MODULE StfsWalk -------------------------------
(***************************************************************************)
(* su_check's walk over the hash tables of a system update container       *)
(* (conCheckHashes in main.c).                                             *)
(*                                                                         *)
(* Offsets count blocks of 0x1000 bytes from the first hash table.  A      *)
(* block is [id, entries, level]: what tells it from others, its PerTable  *)
(* hash entries and the level word of the first of them, which only mean   *)
(* something when the block is a table.  The hash of a block is a term.    *)
(***************************************************************************)
EXTENDS Naturals, Sequences

CONSTANTS
  PerTable,   \* 0xAA
  Zero,       \* an entry of zero bytes
  NoBlock     \* NULL

ASSUME WalkAssumption == PerTable \in Nat \ {0} /\ NoBlock \notin Nat

VARIABLES
  con,          \* the container: [headerOk, root, blocks]
  currOffset,
  hb, mhb,      \* offsets of the table in use and of the main table
  i, j,
  currBlock,    \* entries of blockInfo filled in
  contProcess,
  verdict       \* "none", "checking", "ok" or "corrupt"

walk == <<con, currOffset, hb, mhb, i, j, currBlock, contProcess, verdict>>

Sha(block) == <<"sha", block>>
Length == Len(con.blocks)
Block(offset) == con.blocks[offset + 1]

(* What lies behind the end of the buffer has no hash an entry holds. *)
HashOf(offset) == IF offset < Length THEN Sha(Block(offset)) ELSE <<"beyond">>

Entry(table, k) == Block(table).entries[k + 1]

WalkInit ==
  /\ con = [headerOk |-> FALSE, root |-> Zero, blocks |-> << >>]
  /\ currOffset = 0 /\ hb = 0 /\ mhb = NoBlock /\ i = 0 /\ j = 0
  /\ currBlock = 0 /\ contProcess = FALSE /\ verdict = "none"

(* conCheckHeader and the hash of the header come before the tables. *)
StartWalk(c) ==
  /\ con' = c
  /\ currOffset' = 1 /\ hb' = 0 /\ mhb' = NoBlock /\ i' = 0 /\ j' = 0
  /\ currBlock' = 0 /\ contProcess' = TRUE
  /\ verdict' = IF c.headerOk THEN "checking" ELSE "corrupt"

InTable == verdict = "checking" /\ i < PerTable

(* A zero entry ends the last table. *)
EndOfEntries ==
  /\ InTable /\ Entry(hb, i) = Zero
  /\ i' = PerTable
  /\ contProcess' = FALSE
  /\ UNCHANGED <<con, currOffset, hb, mhb, j, currBlock, verdict>>

CheckBlock ==
  /\ InTable /\ Entry(hb, i) # Zero
  /\ IF HashOf(currOffset) = Entry(hb, i)
     THEN /\ currOffset' = currOffset + 1
          /\ currBlock' = currBlock + 1
          /\ i' = i + 1
          /\ UNCHANGED verdict
     ELSE verdict' = "corrupt" /\ UNCHANGED <<currOffset, currBlock, i>>
  /\ UNCHANGED <<con, hb, mhb, j, contProcess>>

(* The end of the for loop over one table. *)
TableDone == verdict = "checking" /\ i >= PerTable

(* (currOffset + 0x2000) >= conDataLen *)
AtEnd == currOffset + 2 >= Length

LastTable ==
  /\ TableDone /\ AtEnd
  /\ contProcess' = FALSE
  /\ verdict' = "ok"
  /\ UNCHANGED <<con, currOffset, hb, mhb, i, j, currBlock>>

IsMain == Block(currOffset).level = 0

(* Mutant of TableAfter: the main table is taken for the second one. *)
TableAtMain == currOffset

(* Behind the first table's blocks lies the main table, then the second    *)
(* table; behind those of any other only the next one.                     *)
MainTable == IF IsMain THEN currOffset ELSE mhb
TableAfter == IF IsMain THEN currOffset + 1 ELSE currOffset

MainTableVouchedFor ==
  IsMain => /\ Sha(Block(currOffset)) = con.root
            /\ Sha(Block(0)) = Entry(currOffset, 0)

(* Mutant of TableVouchedFor: the main table is not asked. *)
AnyTable == TRUE

TableVouchedFor ==
  MainTable # NoBlock => Sha(Block(TableAfter)) = Entry(MainTable, j + 1)

NextTable ==
  /\ TableDone /\ ~AtEnd
  /\ IF MainTableVouchedFor /\ TableVouchedFor
     THEN /\ mhb' = MainTable
          /\ hb' = TableAfter
          /\ currOffset' = TableAfter + 1
          /\ j' = j + 1
          /\ i' = 0
          /\ verdict' = IF contProcess THEN "checking" ELSE "ok"
     ELSE verdict' = "corrupt" /\ UNCHANGED <<mhb, hb, currOffset, j, i>>
  /\ UNCHANGED <<con, currBlock, contProcess>>

WalkStep == EndOfEntries \/ CheckBlock \/ LastTable \/ NextTable
===============================================================================
