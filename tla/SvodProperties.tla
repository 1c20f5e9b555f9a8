---------------------------- MODULE SvodProperties ----------------------------
(***************************************************************************)
(* What must be true of the folder iso2svod leaves behind, stated from the *)
(* side of a reader that trusts only the package header.                   *)
(***************************************************************************)
EXTENDS SvodWriter, FiniteSets

CONSTANT Unreadable   \* what a reader gets from a package that does not verify

Published == package # NoPackage

(* The hash of file f's table, taken from the link before it. *)
Link(f) == IF f = 1 THEN package.FirstFragmentHash ELSE files[f - 1].table.next

BlockIntact(block, hash) ==
  /\ block # Torn
  /\ Sha(block.hashes) = hash
  /\ \A u \in 1..Len(block.data) : Sha(block.data[u]) = block.hashes[u]

FileIntact(f) ==
  /\ Sha(files[f].table) = Link(f)
  /\ \A b \in 1..Len(files[f].blocks) :
       BlockIntact(files[f].blocks[b], files[f].table.entries[b])

(* A unit is found by arithmetic alone: every file but the last has        *)
(* BlocksPerFile blocks, every block but the last UnitsPerBlock units.     *)
UnitAt(n) ==
  LET f == (n \div (UnitsPerBlock * BlocksPerFile)) + 1
      b == ((n \div UnitsPerBlock) % BlocksPerFile) + 1
      u == (n % UnitsPerBlock) + 1
  IN  IF /\ f \in 1..Len(files)
         /\ b \in 1..Len(files[f].blocks)
         /\ u \in 1..Len(files[f].blocks[b].data)
      THEN files[f].blocks[b].data[u]
      ELSE Blank

Delivered ==
  IF ~Published THEN << >>
  ELSE IF \A f \in 1..Len(files) : FileIntact(f)
       THEN [k \in 1..(package.NumberOfDataBlocks + 1) |-> UnitAt(k - 1)]
       ELSE Unreadable

Status == IF Published THEN "published" ELSE IF outDir THEN "building" ELSE "absent"

Package == INSTANCE SvodPackage WITH
  ImageUnits <- {DataUnits(s) : s \in ImageSizes},
  status     <- Status,
  delivered  <- Delivered

-------------------------------------------------------------------------------
(* Type invariant of the writer's folder and program counters. *)
TypeOK ==
  /\ outDir \in BOOLEAN
  /\ pc \in {"idle", "open", "prepare", "newfile", "fill", "write", "seal",
             "fix", "dump"}
  /\ retVal \in {"none", "running", "ok", "failed", "killed"}
  /\ runs \in 0..MaxRuns
  /\ sectors \in ImageSizes \cup {0}
  /\ sectorsRem \in 0..sectors
  /\ curFileNum \in Nat /\ curBlock \in 0..BlocksPerFile /\ curOff \in {0, 1}
  /\ sectorsToHash \in 0..UnitsPerBlock
  /\ fixNum \in Int

(* iso2svod implements the abstract package: the header dumped by main is  *)
(* the commit point, what it roots verifies down to every unit written by  *)
(* writeIsoBody, and no later process changes a published package.         *)
PackageSpec == Package!Spec

(* xMeta->DataFiles and DataFilesSize, computed by calcDataFileSizes       *)
(* before the first write, agree with the files writeIsoBody produced.     *)
BlockUnits(f, b) ==
  IF files[f].blocks[b] = Torn THEN {}
  ELSE {<<f, b, u>> : u \in 0..Len(files[f].blocks[b].data)}
FileUnits(f) == {<<f, 0, 0>>} \cup UNION {BlockUnits(f, b) : b \in DOMAIN files[f].blocks}
UnitsOnDisk == UNION {FileUnits(f) : f \in DOMAIN files}
HeaderTruthful ==
  Published =>
    /\ package.DataFiles = Len(files)
    /\ package.DataFilesSize = Cardinality(UnitsOnDisk)

(* Hash slots past the last unit of a block, past the last block of a file *)
(* and past the last file hold zeroes: the memsets of the two buffers that *)
(* writeIsoBody reuses for every block and file leave nothing behind.      *)
UnusedSlotsBlank ==
  Published =>
    /\ \A f \in DOMAIN files :
         /\ \A b \in (Len(files[f].blocks) + 1)..BlocksPerFile :
              files[f].table.entries[b] = Blank
         /\ \A b \in DOMAIN files[f].blocks :
              \A u \in (Len(files[f].blocks[b].data) + 1)..UnitsPerBlock :
                files[f].blocks[b].hashes[u] = Blank
    /\ files[Len(files)].table.next = Blank

(* No process writes for ever: whatever fails, main reaches its return.    *)
EveryProcessEnds == (pc = "open") ~> (pc = "idle")

(* Once every sector of the image lies in the data files, the conversion   *)
(* ends with a package header unless the process is killed: writeIsoBody   *)
(* reports success and fixIsoHeaders reaches the first file.               *)
CompleteBodyIsPublished ==
  (pc = "seal" /\ sectorsRem = 0) ~> (Published \/ retVal = "killed")
===============================================================================
