------------------------------- MODULE MCSvod -------------------------------
(***************************************************************************)
(* Two geometries for TLC.  A size of s sectors makes s/2 + 1 units.       *)
(*                                                                         *)
(* Two units a block, two blocks a file: up to 6 sectors fit one file; 8   *)
(* to 20 need two or three, the last block and the last file part full or  *)
(* exactly full.                                                           *)
(* Three units a block, two blocks a file: LongSizes has every fill of the *)
(* last block and of the last file for two and three files.                *)
(***************************************************************************)
EXTENDS SvodProperties

MultiFileSizes == {8, 10, 12, 14, 16, 18, 20}
SingleFileSizes == {2, 4, 6}
LongSizes == {2 * k : k \in 6..17}
=============================================================================
