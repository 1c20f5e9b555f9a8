------------------------------ MODULE PatchEngine ------------------------------
(***************************************************************************)
(* The firmware path of start() in reboot_core/main.c: the 1BL is copied   *)
(* to low memory, patchEngine applies the first patch list of the NAND     *)
(* image to it and lays the three lists that follow out for the boot       *)
(* loaders to come, and the virtual fuses are copied behind them, right    *)
(* below the word the other threads poll.                                  *)
(*                                                                         *)
(* Memory is counted in 32-bit words.  remote is memory from PATCH_REM_DST *)
(* on: three slots of SlotWords, then FuseWords fuses, a gap, and at       *)
(* HoldWord the word at primary_hold_addr.                                 *)
(***************************************************************************)
EXTENDS Naturals, Sequences

CONSTANTS
  LowWords,    \* words of low memory the 1BL occupies
  SlotWords,   \* 0x1000 / 4
  FuseWords,   \* 0x60 / 4
  HoldWord,    \* 0x3078 / 4
  Lists,       \* contents the patch area of the NAND may have: [words |->,
               \*   patches |->, at |->, sections |->, from |->], see IsArea
  End,         \* 0xFFFFFFFF
  Old,         \* what a word held before
  Soc, Fuse    \* a word of the 1BL, a word of the fuses

ASSUME PatchAssumption ==
  /\ LowWords \in Nat /\ SlotWords \in Nat \ {0} /\ FuseWords \in Nat
  /\ HoldWord \in Nat /\ HoldWord >= 3 * SlotWords + FuseWords

Slots == 3

(* What a boot loader to come is to find: words up to End, at most a slot  *)
(* full.  A patch for a later stage has no data that looks like End.       *)
IsSection(list) ==
  /\ Len(list) \in 1..SlotWords
  /\ \A k \in 1..Len(list) : list[k] = End <=> k = Len(list)

(* The patch area: of every patch for the 1BL address, count and data, the *)
(* k-th from word at[k] on, then End, then section s from from[s] on.      *)
IsArea(f) ==
  LET last == Len(f.patches) + 1
      Begin(k) == f.at[k]
  IN  /\ Len(f.patches) \in Nat /\ Len(f.words) \in Nat
      /\ f.at \in [1..last -> 1..Len(f.words)]
      /\ Begin(1) = 1 /\ f.words[Begin(last)] = End
      /\ \A k \in 1..Len(f.patches) :
           LET p == f.patches[k]
           IN  /\ p.addr \in Nat /\ p.addr # End /\ Len(p.data) \in Nat
               /\ f.words[Begin(k)] = p.addr /\ f.words[Begin(k) + 1] = Len(p.data)
               /\ \A m \in 1..Len(p.data) : f.words[Begin(k) + 1 + m] = p.data[m]
               /\ Begin(k + 1) = Begin(k) + 2 + Len(p.data)
      /\ f.from \in [1..(Slots + 1) -> Nat] /\ f.from[1] = Begin(last) + 1
      /\ \A s \in 1..Slots :
           /\ IsSection(f.sections[s])
           /\ \A k \in 1..Len(f.sections[s]) : f.words[f.from[s] + k - 1] = f.sections[s][k]
           /\ f.from[s + 1] = f.from[s] + Len(f.sections[s])
      /\ Len(f.words) = f.from[Slots + 1] - 1

ASSUME ListsAssumption == \A f \in Lists : IsArea(f)

VARIABLES
  flash,     \* the patch area of the NAND
  src,       \* patchEngine's s
  low, remote,
  slot,      \* patchEngine's count: lists laid out so far
  dst,       \* patchEngine's tmp, as an index of remote
  enginePc

engineVars == <<flash, src, low, remote, slot, dst, enginePc>>

RemoteWords == 0..HoldWord

words == flash.words

EngineInit ==
  /\ flash \in Lists
  /\ src = 1
  /\ low = [a \in 0..(LowWords - 1) |-> Old]
  /\ remote = [a \in RemoteWords |-> Old]
  /\ slot = 0 /\ dst = 0
  /\ enginePc = "copy"

CopySoc ==
  /\ enginePc = "copy"
  /\ low' = [a \in DOMAIN low |-> Soc]
  /\ enginePc' = "apply"
  /\ UNCHANGED <<flash, src, remote, slot, dst>>

(* Mutant of Hit: the first word of a patch is left out. *)
HitAfter(a, addr, count) == a > addr /\ a < addr + count

Hit(a, addr, count) == a >= addr /\ a < addr + count

(* Mutant of AfterPatch: s stays on the patch. *)
AtPatch(count) == src

AfterPatch(count) == src + 2 + count

(* One turn of the first loop: a patch, written over low memory. *)
ApplyPatch ==
  /\ enginePc = "apply" /\ words[src] # End
  /\ LET addr  == words[src]
         count == words[src + 1]
     IN  /\ low' = [a \in DOMAIN low |->
                     IF Hit(a, addr, count)
                     THEN words[src + 2 + (a - addr)] ELSE low[a]]
         /\ src' = AfterPatch(count)
  /\ UNCHANGED <<flash, remote, slot, dst, enginePc>>

ListEnds ==
  /\ enginePc = "apply" /\ words[src] = End
  /\ src' = src + 1
  /\ enginePc' = "move"
  /\ UNCHANGED <<flash, low, remote, slot, dst>>

(* Mutant of NextSlot: the lists are laid out back to back. *)
NextSlotPacked == dst + 1

NextSlot == (slot + 1) * SlotWords
NextWord == dst + 1

(* One turn of the second loop: a word, and after End the next slot. *)
MoveWord ==
  /\ enginePc = "move" /\ slot < Slots
  /\ remote' = [remote EXCEPT ![dst] = words[src]]
  /\ src' = src + 1
  /\ IF words[src] = End
     THEN slot' = slot + 1 /\ dst' = NextSlot
     ELSE UNCHANGED slot /\ dst' = NextWord
  /\ UNCHANGED <<flash, low, enginePc>>

(* Mutant of IsFuse: one word off. *)
IsFuseShifted(a) == a > Slots * SlotWords /\ a <= Slots * SlotWords + FuseWords

IsFuse(a) == a >= Slots * SlotWords /\ a < Slots * SlotWords + FuseWords

CopyFuses ==
  /\ enginePc = "move" /\ slot = Slots
  /\ remote' = [a \in RemoteWords |-> IF IsFuse(a) THEN Fuse ELSE remote[a]]
  /\ enginePc' = "boot"
  /\ UNCHANGED <<flash, src, low, slot, dst>>

EngineNext == CopySoc \/ ApplyPatch \/ ListEnds \/ MoveWord \/ CopyFuses
-------------------------------------------------------------------------------
(* Type invariant. *)
EngineTypeOK ==
  /\ src \in 1..(Len(words) + 1)
  /\ slot \in 0..Slots /\ dst \in RemoteWords
  /\ enginePc \in {"copy", "apply", "move", "boot"}

Covers(p, a) == a >= p.addr /\ a < p.addr + Len(p.data)

(* What low memory must hold at a: the word of the last patch that covers  *)
(* it, or the 1BL's.                                                       *)
Patched(a) ==
  LET ps   == flash.patches
      hits == {k \in DOMAIN ps : Covers(ps[k], a)}
  IN  IF hits = {} THEN Soc
      ELSE LET k == CHOOSE m \in hits : \A n \in hits : n <= m
           IN  ps[k].data[a - ps[k].addr + 1]

(* The 1BL is started with exactly the patches of the first list applied,  *)
(* a later one over an earlier one, even where patch data looks like the   *)
(* end marker.                                                             *)
SocPatched == enginePc = "boot" => \A a \in DOMAIN low : low[a] = Patched(a)

(* Each boot loader to come finds its whole list at the start of its slot, *)
(* whatever the lists before and after it contain.                         *)
ListsInPlace ==
  enginePc = "boot" =>
    \A n \in 1..Slots :
      LET list == flash.sections[n]
      IN  \A k \in 1..Len(list) : remote[(n - 1) * SlotWords + k - 1] = list[k]

(* The fuses are complete, and nothing is ever written over the word that  *)
(* holds the other threads: they stay where they are.                      *)
FusesBelowHoldWord ==
  /\ remote[HoldWord] = Old
  /\ enginePc = "boot" => \A a \in 0..(FuseWords - 1) : remote[3 * SlotWords + a] = Fuse
================================================================================
