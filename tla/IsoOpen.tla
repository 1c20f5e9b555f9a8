------------------------------- MODULE IsoOpen -------------------------------
(***************************************************************************)
(* How iso2svod opens a disc image (isoio.c): getXgdBaseOffset tries three *)
(* places for the volume descriptor, and everything read later is counted  *)
(* from the one that was found.                                            *)
(*                                                                         *)
(* Offsets are in sectors.  A file is [size, at]: its size and the         *)
(* descriptors in it, at[o] being [head, tail, root] or Other.             *)
(***************************************************************************)
EXTENDS Integers

CONSTANTS
  Files,        \* what the command line may name, or NoFile
  Xdki, Xgd3, Xgd2,  \* where the descriptor of each format lies
  Other, NoFile

(* A descriptor lies inside its file. *)
IsFile(f) ==
  /\ f.size \in Nat
  /\ \A o \in DOMAIN f.at : o < f.size

ASSUME OpenAssumption ==
  /\ {Xdki, Xgd3, Xgd2} \subseteq Nat
  /\ \A f \in Files : f = NoFile \/ IsFile(f)

VARIABLES
  file,
  openPc,       \* "open", "xdki", "xgd3", "xgd2", "opened" or "failed"
  sectorBuffer, \* what the last read brought
  baseOffset, root

openVars == <<file, openPc, sectorBuffer, baseOffset, root>>

IsoBase == Xdki

OpenInit ==
  /\ file \in Files
  /\ openPc = "open" /\ sectorBuffer = Other /\ baseOffset = 0 /\ root = Other

OpenFile ==
  /\ openPc = "open"
  /\ openPc' = IF file = NoFile THEN "failed" ELSE "xdki"
  /\ UNCHANGED <<file, sectorBuffer, baseOffset, root>>

(* A read at the end brings part of a sector; without a whole descriptor   *)
(* the test for the magic fails.                                           *)
DescriptorAt(o) == IF o \in DOMAIN file.at THEN file.at[o] ELSE Other
HasHead(d) == d # Other /\ d.head

HasBoth(d) == HasHead(d) /\ d.tail

(* Mutant of Base: the place of the descriptor is taken for the start. *)
PlaceOf(o) == o

Base(o) == o - IsoBase

(* getXgdBaseOffset for one place. *)
Try(from, o, found, next) ==
  /\ openPc = from
  /\ IF file.size > o
     THEN /\ sectorBuffer' = DescriptorAt(o)
          /\ IF found
             THEN baseOffset' = Base(o) /\ root' = DescriptorAt(o).root /\ openPc' = "opened"
             ELSE openPc' = next /\ UNCHANGED <<baseOffset, root>>
     ELSE openPc' = next /\ UNCHANGED <<sectorBuffer, baseOffset, root>>
  /\ UNCHANGED file

TryXdki == Try("xdki", Xdki, HasBoth(DescriptorAt(Xdki)), "xgd3")
TryXgd3 == Try("xgd3", Xgd3, HasHead(DescriptorAt(Xgd3)), "xgd2")
TryXgd2 == Try("xgd2", Xgd2, HasHead(DescriptorAt(Xgd2)), "failed")

(* setIsoSector *)
Sought(sector) == baseOffset + sector

OpenNext == OpenFile \/ TryXdki \/ TryXgd3 \/ TryXgd2

OpenSpec == OpenInit /\ [][OpenNext]_openVars /\ WF_openVars(OpenNext)
-------------------------------------------------------------------------------
(* Type invariant of opening. *)
OpenTypeOK ==
  /\ openPc \in {"open", "xdki", "xgd3", "xgd2", "opened", "failed"}
  /\ baseOffset \in {0, Xgd3 - IsoBase, Xgd2 - IsoBase}

(* An image with one complete descriptor, and no head of one at the places *)
(* behind the first, is opened at it: its root is taken, and the sector    *)
(* the descriptor has on every disc is the descriptor.                     *)
Volumes == {o \in {Xdki, Xgd3, Xgd2} : HasBoth(DescriptorAt(o))}
Heads == {o \in {Xgd3, Xgd2} : HasHead(DescriptorAt(o))}
OpensAtVolume ==
  openPc \in {"opened", "failed"} /\ file # NoFile =>
    \A o \in {Xdki, Xgd3, Xgd2} :
      Volumes = {o} /\ Heads \subseteq {o} =>
        openPc = "opened" /\ Sought(IsoBase) = o /\ root = DescriptorAt(o).root
===============================================================================
