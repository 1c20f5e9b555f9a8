------------------------------- MODULE IsoScan -------------------------------
(***************************************************************************)
(* iso2svod's walk over the directory tables of a disc image (getDiskEnd   *)
(* and getMaxDirectory in isoio.c), which decides which sectors of the     *)
(* disc are copied into the package.                                       *)
(*                                                                         *)
(* A directory table is a sequence of slots, SlotsPerSector to a sector; a *)
(* slot holds an entry or Pad, the 0xFFFF filler that ends the used part   *)
(* of a sector.  A byte count is in multiples of the bytes a slot stands   *)
(* for, so that SectorBytes is to a sector what 0x800 is in the code.      *)
(***************************************************************************)
EXTENDS Integers, Sequences

CONSTANTS
  SlotsPerSector,
  SectorBytes,   \* bytes in a sector
  Width,         \* 2^32 scaled: u32 arithmetic is modulo Width
  FirstEnd,      \* the least maxSector (0x108)
  Images,        \* disc images: [root |-> dir, dirs |-> [dir -> table]]
  Pad,
  NoEntry,       \* no default.xex seen
  ReadFails      \* TRUE if reading a directory table may fail

ASSUME ScanAssumption ==
  /\ SlotsPerSector \in Nat \ {0}
  /\ SectorBytes \in Nat \ {0}
  /\ Width \in Nat /\ Width % SectorBytes = 0
  /\ FirstEnd \in Nat
  /\ ReadFails \in BOOLEAN

(* An entry is [kind, sector, size, xex, dir]; dir is the table it leads   *)
(* to, meaningful when kind is "dir", and xex tells a file default.xex.    *)
IsEntry(im, e) ==
  /\ e.kind \in {"file", "dir"} /\ e.sector \in Nat
  /\ e.size \in 0..(Width - SectorBytes)
  /\ e.kind = "dir" /\ e.size # 0 => e.dir \in DOMAIN im.dirs

(* The format: tables of whole sectors, filler only behind the entries of  *)
(* a sector, a root directory that is not empty.  No size is so close to   *)
(* 2^32 that rounding it up wraps around.                                  *)
SectorOf(k) == (k - 1) \div SlotsPerSector
WellFormed(im) ==
  /\ im.root.dir \in DOMAIN im.dirs /\ im.root.sector \in Nat
  /\ im.root.size \in 1..(Width - SectorBytes)
  /\ \A d \in DOMAIN im.dirs :
       LET t == im.dirs[d]
       IN  /\ Len(t) \in Nat /\ DOMAIN t = 1..Len(t) /\ Len(t) % SlotsPerSector = 0
           /\ \A k \in DOMAIN t :
                IF t[k] = Pad
                THEN \A m \in k..Len(t) : SectorOf(m) = SectorOf(k) => t[m] = Pad
                ELSE IsEntry(im, t[k])

ASSUME ImagesAssumption == \A im \in Images : WellFormed(im)

VARIABLES
  image,
  pc,          \* "scan", "end" or "done"
  stack,       \* active getMaxDirectory calls: [dir |-> , off |-> ]
  ret,         \* value of the last call that returned
  minSector, maxSector,
  defaultXex

vars == <<image, pc, stack, ret, minSector, maxSector, defaultXex>>

(* (x + 0x7FF) & ~0x7FF on a u32 *)
RoundUp(x) == (((x + SectorBytes - 1) % Width) \div SectorBytes) * SectorBytes

(* Mutant of SizeInSectors: a last, part-used sector is not counted. *)
WholeSectors(size) == size \div SectorBytes

SizeInSectors(size) == RoundUp(size) \div SectorBytes

(* Mutants of AlignSlot: the mask is forgotten; the sum is forgotten. *)
UnmaskedSlot(off) == off + SlotsPerSector
AlignDown(off) == (off \div SlotsPerSector) * SlotsPerSector

(* (off + 0x7FF) & ~0x7FF on an offset in slots *)
AlignSlot(off) ==
  ((off + SlotsPerSector - 1) \div SlotsPerSector) * SlotsPerSector

Higher(a, b) == IF a > b THEN a ELSE b
Lower(a, b)  == IF a < b THEN a ELSE b

Root == image.root

(* getDiskEnd up to the call for the root directory.  rootDirSize is a     *)
(* byte count and is added to a sector number as it is.                    *)
Init ==
  /\ image \in Images
  /\ pc = "scan"
  /\ stack = <<[dir |-> Root.dir, off |-> 0, entered |-> FALSE]>>
  /\ ret = FALSE
  /\ minSector = Root.sector
  /\ maxSector = Higher(Root.sector + RoundUp(Root.size), FirstEnd)
  /\ defaultXex = NoEntry

Top   == stack[Len(stack)]
Table == image.dirs[Top.dir]
Slot  == Table[Top.off + 1]

Return(value) ==
  /\ ret' = value
  /\ stack' = SubSeq(stack, 1, Len(stack) - 1)
  /\ pc' = IF Len(stack) = 1 THEN "end" ELSE "scan"

(* The start of a call: an empty table, a read of the whole table. *)
EnterDirectory ==
  /\ pc = "scan" /\ ~Top.entered
  /\ \/ /\ Table = << >>
        /\ Return(TRUE)
     \/ /\ Table # << >> /\ ReadFails
        /\ Return(FALSE)
     \/ /\ Table # << >>
        /\ stack' = [stack EXCEPT ![Len(stack)].entered = TRUE]
        /\ UNCHANGED <<pc, ret>>
  /\ UNCHANGED <<image, minSector, maxSector, defaultXex>>

AtSlot == pc = "scan" /\ Top.entered /\ Top.off < Len(Table)

SkipPadding ==
  /\ AtSlot /\ Slot = Pad
  /\ stack' = [stack EXCEPT ![Len(stack)].off = AlignSlot(@)]
  /\ UNCHANGED <<image, pc, ret, minSector, maxSector, defaultXex>>

WidenExtent(e) ==
  /\ maxSector' = Higher(maxSector, e.sector + SizeInSectors(e.size))
  /\ minSector' = Lower(minSector, e.sector)

Advanced == [stack EXCEPT ![Len(stack)].off = @ + 1]

(* Mutant of ExecutableAfter: a later file makes the walk forget it. *)
ExecutableLastOnly(e) == IF e.xex THEN e ELSE NoEntry

ExecutableAfter(e) == IF e.xex THEN e ELSE defaultXex

TakeFile ==
  /\ AtSlot /\ Slot # Pad /\ Slot.kind = "file"
  /\ WidenExtent(Slot)
  /\ defaultXex' = ExecutableAfter(Slot)
  /\ stack' = Advanced
  /\ UNCHANGED <<image, pc, ret>>

(* A subdirectory that is not empty is walked before the next entry; what  *)
(* the recursive call returns is not looked at.                            *)
TakeDirectory ==
  /\ AtSlot /\ Slot # Pad /\ Slot.kind = "dir"
  /\ WidenExtent(Slot)
  /\ stack' = IF Slot.size # 0
              THEN Append(Advanced, [dir |-> Slot.dir, off |-> 0, entered |-> FALSE])
              ELSE Advanced
  /\ UNCHANGED <<image, pc, ret, defaultXex>>

LeaveDirectory ==
  /\ pc = "scan" /\ Top.entered /\ Top.off >= Len(Table)
  /\ Return(TRUE)
  /\ UNCHANGED <<image, minSector, maxSector, defaultXex>>

UnitEnd(sector) == ((sector + 1) \div 2) * 2

(* getDiskEnd after the walk: whole 0x1000-byte units. *)
RoundToUnits ==
  /\ pc = "end"
  /\ pc' = "done"
  /\ minSector' = IF ret THEN (minSector \div 2) * 2 ELSE minSector
  /\ maxSector' = IF ret THEN UnitEnd(maxSector) ELSE maxSector
  /\ UNCHANGED <<image, stack, ret, defaultXex>>

Next ==
  \/ EnterDirectory \/ SkipPadding \/ TakeFile \/ TakeDirectory
  \/ LeaveDirectory \/ RoundToUnits

Spec == Init /\ [][Next]_vars /\ WF_vars(Next)
-------------------------------------------------------------------------------
Succeeded == pc = "done" /\ ret

(* The directories a reader of the disc can reach from the root, as the    *)
(* least set closed under the entries of their tables.                     *)
EntriesOf(d) == {image.dirs[d][k] : k \in DOMAIN image.dirs[d]} \ {Pad}
SubDirs(ds) == {e.dir : e \in {x \in UNION {EntriesOf(d) : d \in ds} :
                                 x.kind = "dir" /\ x.size # 0}}
ReachableDirs ==
  CHOOSE ds \in SUBSET DOMAIN image.dirs :
    /\ Root.dir \in ds /\ SubDirs(ds) \subseteq ds
    /\ \A es \in SUBSET ds :
         (Root.dir \in es /\ SubDirs(es) \subseteq es) => es = ds
ReachableEntries == UNION {EntriesOf(d) : d \in ReachableDirs}

LastByteSector(e) == e.sector + ((e.size + SectorBytes - 1) \div SectorBytes)

(* Type invariant of the walk. *)
TypeOK ==
  /\ pc \in {"scan", "end", "done"}
  /\ ret \in BOOLEAN
  /\ minSector \in Nat /\ maxSector \in Nat
  /\ \A k \in DOMAIN stack :
       /\ stack[k].dir \in DOMAIN image.dirs
       /\ stack[k].off \in 0..Len(image.dirs[stack[k].dir])

(* After a successful parse every sector of every file and directory that  *)
(* can be reached from the root lies in [minSector, maxSector), the range  *)
(* writeIsoBody copies: the walk misses no entry behind padding or in a    *)
(* subdirectory.                                                           *)
AllDataCovered ==
  Succeeded => \A e \in ReachableEntries \cup {Root} :
    minSector <= e.sector /\ LastByteSector(e) <= maxSector

(* The range handed to writeIsoBody is a whole, positive number of units,  *)
(* which is what its arithmetic relies on.                                 *)
RangeIsWholeUnits ==
  Succeeded => (maxSector - minSector) % 2 = 0 /\ maxSector > minSector

(* The package gets all that can be reached, in units the writer counts    *)
(* in.                                                                     *)
DataCovered == AllDataCovered /\ RangeIsWholeUnits

(* The title's metadata is taken from a default.xex of the disc whenever   *)
(* there is one that can be reached, in whatever directory: no later entry *)
(* makes the walk forget it.  Where only the root has one it is that one.  *)
ExecutableFound ==
  Succeeded =>
    LET xexes == {e \in ReachableEntries : e.kind = "file" /\ e.xex}
    IN  IF xexes = {} THEN defaultXex = NoEntry ELSE defaultXex \in xexes
===============================================================================
