----------------------------- MODULE SuProperties -----------------------------
(***************************************************************************)
(* What a reader of su_check's report may believe, against containers      *)
(* built as the format has it.                                             *)
(***************************************************************************)
EXTENDS SuCheck

-------------------------------------------------------------------------------
(* A container of n data blocks: tables of PerTable entries, each in front *)
(* of its blocks, and behind the blocks of the first one a main table, if  *)
(* there is more than one.                                                 *)

Tables(n) == (n + PerTable - 1) \div PerTable
Data(k) == [id |-> <<"data", k>>, entries |-> [e \in 1..PerTable |-> <<"bytes", k>>], level |-> 1]

Table(n, t) ==
  [id |-> <<"table", t>>, level |-> 1,
   entries |-> [e \in 1..PerTable |->
     LET k == t * PerTable + e IN IF k <= n THEN Sha(Data(k)) ELSE Zero]]

Main(n) ==
  [id |-> <<"main", 0>>, level |-> 0,
   entries |-> [e \in 1..PerTable |->
     IF e <= Tables(n) THEN Sha(Table(n, e - 1)) ELSE Zero]]

(* Where they lie, in blocks from the first hash table. *)
MainPlace == PerTable + 1
TablePlace(t) == IF t = 0 THEN 0 ELSE t * (PerTable + 1) + 1

BlocksLen(n) == n + Tables(n) + (IF Tables(n) > 1 THEN 1 ELSE 0)

Blocks(n) ==
  [x \in 1..BlocksLen(n) |->
     IF x = MainPlace + 1 THEN Main(n)
     ELSE LET place == IF x > MainPlace THEN x - 2 ELSE x - 1
              t == place \div (PerTable + 1)
              e == place % (PerTable + 1)
          IN IF e = 0 THEN Table(n, t) ELSE Data(t * PerTable + e)]

Whole(n) ==
  [headerOk |-> TRUE, blocks |-> Blocks(n), size |-> n,
   root |-> Sha(IF Tables(n) > 1 THEN Main(n) ELSE Table(n, 0))]

-------------------------------------------------------------------------------
(* What the manifests name.                                                *)

(* A block whose bytes are taken for a table's first entry does not vouch  *)
(* for the block behind it.                                                *)
Senseless(c, x) == c.blocks[x].entries[1] \notin {Zero, Sha(c.blocks[x + 1])}

(* A container of up to PerTable tables, all a main table has entries for, *)
(* with the root hash it was signed with and blocks that may be damaged,   *)
(* but for three things: the first table is whole, senseless or, with a    *)
(* main table that vouches for it, full of entries; no other table is made *)
(* a main one; and the main one is one, or senseless.                      *)
MaybeDamaged(c) ==
  /\ c.size \in 1..(PerTable * PerTable)
  /\ c.headerOk \in BOOLEAN
  /\ c = [Whole(c.size) EXCEPT !.headerOk = c.headerOk, !.blocks = c.blocks]
  /\ c.blocks = [x \in 1..BlocksLen(c.size) |-> c.blocks[x]]
  /\ \/ c.blocks[1] = Table(c.size, 0) \/ Senseless(c, 1)
     \/ Tables(c.size) > 1 /\ \A e \in 1..PerTable : c.blocks[1].entries[e] # Zero
  /\ \A t \in 1..(Tables(c.size) - 1) : c.blocks[TablePlace(t) + 1].level # 0
  /\ Tables(c.size) > 1 => c.blocks[MainPlace + 1].level = 0 \/ Senseless(c, MainPlace + 1)

IsItem(u, it) ==
  /\ it.name \in {"none", "flash", "other"} /\ it.folder # "base"
  /\ it.name # "none" /\ (it.name = "flash" \/ u.schema = 1 \/ it.type = "xcontent") =>
       it.disk \in {Absent, Empty} \/ MaybeDamaged(it.disk)

(* The items of a manifest, or the package where there is no manifest; no  *)
(* hash of a block of data is an entry of zero bytes.                      *)
ASSUME UpdatesAssumption ==
  /\ \A u \in Updates :
       /\ Len(u.items) \in Nat /\ u.items = [k \in 1..Len(u.items) |-> u.items[k]]
       /\ u.argc \in {1, 2} /\ "base" \notin u.dirs
       /\ u.header \in [xmnp : BOOLEAN, sha : BOOLEAN]
       /\ \A k \in 1..Len(u.items) : IsItem(u, u.items[k])
       /\ u.schema = 0 => u.package \in {Absent, Empty} \/ MaybeDamaged(u.package)
  /\ \A k \in 1..(PerTable * PerTable) : Sha(Data(k)) # Zero

-------------------------------------------------------------------------------
(* Type invariant.  blockInfo has one entry more than the file has blocks, *)
(* and no item behind the last is looked at.                               *)
TypeOK ==
  /\ verdict \in {"none", "checking", "ok", "corrupt"}
  /\ verdict # "none" => hb \in 0..(Length - 1) /\ currOffset \in 0..Length
  /\ mhb \in (0..Length) \cup {NoBlock}
  /\ i \in 0..PerTable /\ j \in 0..PerTable
  /\ currBlock \in 0..(Length + 1)
  /\ contProcess \in BOOLEAN
  /\ pc \in {"start", "package", "items", "walk", "finish", "report"}
  /\ pc = "items" => item \in DOMAIN update.items
  /\ unopened \subseteq 0..Len(update.items)

(* A container as the format has it is never called corrupt, whatever the  *)
(* fill of its last table: conCheckHashes finds every table where it is.   *)
WholeContainersPass ==
  verdict = "corrupt" => con # Whole(con.size)

(* When conCheckHashes accepts a container, its data blocks, main table    *)
(* and tables behind the first are the original ones: damage to any one    *)
(* block has been found through the hash above it.                         *)
AcceptedIsIntact ==
  verdict = "ok" =>
    \A k \in 2..Len(Blocks(con.size)) :
      k <= Length /\ con.blocks[k] = Blocks(con.size)[k]

(* A manifest as the console takes it. *)
Genuine(u) ==
  /\ <<u.schema, u.magic>> \in {<<1, "xman">>, <<3, "xsym">>, <<3, "xonm">>}
  /\ u.header = [xmnp |-> TRUE, sha |-> TRUE] /\ u.length = "fits"

Good(it) ==
  /\ it.name # "none" /\ it.disk \notin {Absent, Empty}
  /\ IF it.name = "flash" \/ update.schema = 1 \/ it.type = "xcontent"
     THEN (it.name = "flash" \/ it.size # 0) /\ it.disk = Whole(it.disk.size)
     ELSE it.type = "file" /\ it.size # 0 /\ it.disk = Intact

GoodItems == {k \in DOMAIN update.items : Good(update.items[k])}

(* The number of good files in the summary is the number of files of the   *)
(* manifest that are there and intact, and none was counted twice.         *)
SummaryCounts ==
  pc = "report" /\ Genuine(update) =>
    /\ ttl.filesOk + ttl.conOk = Cardinality(GoodItems)
    /\ ttl.filesChecked + ttl.conChecked <= Len(update.items)

(* What the folder may hold: the manifest in its place and, of a genuine   *)
(* one, the good files without the package that goes to flash, each in its *)
(* own place.                                                              *)
MayHold(c) ==
  \/ c.item = 0 /\ c.path = ManifestPath
  \/ /\ Genuine(update) /\ c.item \in GoodItems
     /\ update.items[c.item].name # "flash"
     /\ c.path = Destination(update.items[c.item])

(* What an item's place holds at the end: the item or a later one with the *)
(* same place.                                                             *)
Delivered(k) ==
  \E c \in copied : c.path = Destination(update.items[k]) /\ c.item >= k

(* outfilepath is one buffer for all items, filled long before it is used: *)
(* at no time does the folder hold a file that was not verified, or one in *)
(* another's place.  In the end every good file of a genuine manifest is   *)
(* in its place unless dump_buffer_hex said that it could not be opened,   *)
(* which is what happens to a container for a folder nobody has made.      *)
CopyIsExact ==
  /\ \A c \in copied : copyToFolder /\ MayHold(c)
  /\ pc = "report" /\ copyToFolder /\ Genuine(update) =>
       \A k \in GoodItems :
         update.items[k].name # "flash" => k \in unopened \/ Delivered(k)
===============================================================================
