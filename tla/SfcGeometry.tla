------------------------------ MODULE SfcGeometry ------------------------------
(***************************************************************************)
(* SFC_init (scriptsetc/flash_config.c): the geometry of a console's flash *)
(* from the configuration register of its controller.  Sizes are in bytes. *)
(***************************************************************************)
EXTENDS Integers

CONSTANTS
  Registers   \* what SFC_readreg(SFC_CONFIG) may return

Kind(reg)   == (reg \div 2^17) % 4
Layout(reg) == (reg \div 2^4) % 4

(* Mutant of Shift: one of its two fields is forgotten. *)
ShiftOfOneField(reg) == ((reg \div 2^21) % 16) + 23

Shift(reg)  == ((reg \div 2^19) % 4) + ((reg \div 2^21) % 16) + 23

(* 0x1 << Shift is an int. *)
ASSUME SfcAssumption ==
  \A reg \in Registers :
    reg \in Nat /\ (Kind(reg) # 0 /\ Layout(reg) \in {2, 3} => Shift(reg) < 31)

VARIABLES
  config,
  sfc,    \* the fields SFC_init fills in
  sfcRet  \* what it returns, -1 before

sfcVars == <<config, sfc, sfcRet>>

page_sz == 512
meta_sz == 16

NoGeometry ==
  [meta_type |-> 0, blocks_per_lg_block |-> 0, block_sz |-> 0, size_bytes |-> 0,
   size_usable_fs |-> 0]

SmallBlocks(meta, blocks, usable) ==
  [meta_type |-> meta, blocks_per_lg_block |-> 8, block_sz |-> 16384,
   size_bytes |-> blocks * 2^14, size_usable_fs |-> usable]

LargeBlocks(size, usable) ==
  [meta_type |-> 2, blocks_per_lg_block |-> 1, block_sz |-> size,
   size_bytes |-> 2^Shift(config), size_usable_fs |-> usable]

(* Pre-Jasper controllers. *)
OriginalSfc ==
  IF Layout(config) = 1 THEN SmallBlocks(0, 1024, 992)
  ELSE IF Layout(config) = 2 THEN SmallBlocks(0, 2048, 1984)
  ELSE SmallBlocks(0, 4096, 3968)

NewSfcSmall ==
  IF Layout(config) = 0 \/ Kind(config) = 1
  THEN SmallBlocks(1, 1024, 992) ELSE SmallBlocks(1, 4096, 3968)

NewSfcLarge ==
  IF Layout(config) = 2 THEN LargeBlocks(131072, 480) ELSE LargeBlocks(262144, 240)

(* The code of an unsupported type, 0 for the others. *)
Refusal ==
  CASE Kind(config) = 3                         -> 3
    [] Kind(config) = 0 /\ Layout(config) = 0   -> 1
    [] Kind(config) = 1 /\ Layout(config) = 0   -> 2
    [] OTHER                                    -> 0

Geometry ==
  IF Kind(config) = 0 THEN OriginalSfc
  ELSE IF Layout(config) < 2 THEN NewSfcSmall
  ELSE NewSfcLarge

(* What is derived from the fields at the end. *)
AddrConfig    == (sfc.size_usable_fs - 4) * sfc.block_sz
LenConfig     == sfc.block_sz * 4
SizeBlocks    == sfc.size_bytes \div sfc.block_sz
BlockSizePhys == (sfc.block_sz \div page_sz) * (page_sz + meta_sz)
SizeMb        == sfc.size_bytes \div 2^20

SfcInit == config \in Registers /\ sfc = NoGeometry /\ sfcRet = -1

SFC_init ==
  /\ sfcRet = -1
  /\ sfcRet' = Refusal
  /\ sfc' = IF Refusal = 0 THEN Geometry ELSE NoGeometry
  /\ UNCHANGED config

SfcNext == SFC_init

SfcSpec == SfcInit /\ [][SfcNext]_sfcVars /\ WF_sfcVars(SfcNext)
-------------------------------------------------------------------------------
(* Type invariant of the geometry. *)
SfcTypeOK == sfcRet \in -1..3 /\ sfc.meta_type \in 0..2

(* Six of the eight lines of the list at the top of the file: the size of *)
(* a console's flash.  Not among them are 00023030, listed as 64 megabytes *)
(* but only inferred, which comes out as large blocks in 8 megabytes, and  *)
(* C0462002, of another kind of memory, which is refused.                  *)
Documented ==
  {<<\h00043000, 16>>, <<\h00023010, 16>>, <<\h008A3020, 256>>, <<\h00AA3020, 512>>,
   <<\h01198030, 64>>, <<\h01198010, 16>>}

(* Each of the six registers is accepted with the size it is listed with.  *)
(* In every accepted geometry the blocks tile the flash, with the spare    *)
(* bytes of every page counted, and the console's settings end inside the  *)
(* flash unless it is one of large blocks in less than 64 megabytes, whose *)
(* count of usable blocks exceeds it.                                      *)
GeometryExact ==
  /\ sfcRet \in 1..3 => \A line \in Documented : line[1] # config
  /\ sfcRet = 0 =>
       /\ \A line \in Documented : line[1] = config => SizeMb = line[2]
       /\ SizeBlocks * sfc.block_sz = sfc.size_bytes
       /\ BlockSizePhys * SizeBlocks = sfc.size_bytes + (sfc.size_bytes \div page_sz) * meta_sz
       /\ sfc.meta_type < 2 \/ SizeMb >= 64 => AddrConfig + LenConfig <= sfc.size_bytes
===============================================================================
