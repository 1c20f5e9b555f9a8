------------------------------ MODULE SvodLayout ------------------------------
(***************************************************************************)
(* The geometry of an SVOD package, as iso2svod computes it before it      *)
(* writes a byte (calcDataFileSizes and calcDataBlocks in isoio.c).        *)
(*                                                                         *)
(* Sizes are counted in units: a unit is the 0x1000 bytes (two disc        *)
(* sectors) that one level-0 hash covers.  A block is one unit of hashes   *)
(* followed by at most UnitsPerBlock units of data, a data file is one     *)
(* unit of hashes followed by at most BlocksPerFile blocks.                *)
(***************************************************************************)
EXTENDS Integers

CONSTANTS
  UnitsPerBlock,   \* level-0 entries a block uses (0xCC in the code)
  BlocksPerFile    \* level-1 entries a data file uses (0xCB in the code)

ASSUME LayoutAssumption ==
  /\ UnitsPerBlock \in Nat /\ UnitsPerBlock > 1
  /\ BlocksPerFile \in Nat /\ BlocksPerFile > 0

(* dataBlocks = x / n; if (x % n) dataBlocks++ *)
CeilDiv(x, n) == (x \div n) + (IF x % n # 0 THEN 1 ELSE 0)

(* Mutant of DataUnits: the XISO header unit is forgotten. *)
DataUnitsWithoutHead(sectors) == (sectors + 1) \div 2

(* The XISO header unit, then the units that hold sectors min .. max - 1. *)
DataUnits(sectors) == ((sectors + 1) \div 2) + 1

DataBlocks(sectors) == CeilDiv(DataUnits(sectors), UnitsPerBlock)

DataFiles(sectors) == CeilDiv(DataBlocks(sectors), BlocksPerFile)

(* xMeta->DataFilesSize, in units. *)
DataFilesSize(sectors) ==
  DataFiles(sectors) + DataUnits(sectors) + DataBlocks(sectors)

(* SvodVolumeDescriptor.NumberOfDataBlocks: the header unit is not counted; *)
(* 24 bits.                                                                *)
NumberOfDataBlocks(sectors) == (sectors \div 2) % 16777216
===============================================================================
