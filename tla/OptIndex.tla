------------------------------- MODULE OptIndex -------------------------------
(***************************************************************************)
(* opt_idx (opt_idx.cpp): the index of the addon patches, one entry for    *)
(* each distinct list of patched places.                                   *)
(*                                                                         *)
(* Files are sequences of 32-bit words; NameWords of them hold the name of *)
(* an entry, the first one standing for all its letters.  A name is        *)
(* <<stem, rest>>: what FOR_BASEBUILD looks for at its start, and what     *)
(* follows.                                                                *)
(***************************************************************************)
EXTENDS Integers, Sequences

CONSTANTS
  PatchNames,   \* the names: all files', and what fixupName makes of them
  Folders,      \* sets of patch files: [name, words, tail]; tail: bytes behind the words
  Bases,        \* contents of the base index, or Missing
  NameWords,    \* 4
  Width,        \* 2^32 bytes, in words
  Nul, Missing,
  MaxCalls      \* calls of the tool

VARIABLES
  baseBuild,    \* built with FOR_BASEBUILD
  folder, left, \* the folder of patches; what FindNextFile still returns of it
  idx,          \* the index files: "base" and "addon"
  pfiles,
  optPc,        \* "load", "scan", "output", "done", "unwritten" or "crashed"
  calls

optVars == <<baseBuild, folder, left, idx, pfiles, optPc, calls>>

GoodNames == {"nomu", "notrinmu", "nofcrt", "nohdd", "nohdmiwait"}
ScedeNames == {"nomu", "notrinmu"}

(* fixupName, the letters' case and the path left out. *)
FixupName(name) ==
  LET out == IF baseBuild /\ name[1] \in GoodNames THEN <<name[1], "">> ELSE name
  IN  IF out[1] \in ScedeNames /\ out[2] = "" THEN <<"nointmu", "">> ELSE out

ItemAt(words, off) == [offset |-> words[off + 1], size |-> words[off + 2]]

-------------------------------------------------------------------------------
(* loadAddonBaseIdx: where an entry starts, and the entries in front of it. *)
Entries(words) ==
  LET Read[k \in 0..words[1]] ==
        IF k = 0 THEN [off |-> 1, list |-> << >>]
        ELSE LET at    == Read[k - 1].off
                 pttl  == words[at + 1]
                 names == at + 1 + 2 * pttl
             IN  [off  |-> names + NameWords,
                  list |-> Append(Read[k - 1].list,
                             [fname |-> words[names + 1],
                              pitm  |-> [j \in 1..pttl |-> ItemAt(words, at + 2 * j - 1)]])]
  IN  Read[words[1]].list

EntryWords(e) ==
  LET n == Len(e.pitm)
      Field(w) == IF w % 2 = 0 THEN e.pitm[w \div 2].offset ELSE e.pitm[w \div 2].size
  IN  [w \in 1..(2 * n + 1 + NameWords) |->
         IF w = 1 THEN n
         ELSE IF w <= 2 * n + 1 THEN Field(w)
         ELSE IF w = 2 * n + 2 THEN e.fname ELSE Nul]

(* outputIdx *)
IndexWords(entries) ==
  LET Out[k \in 0..Len(entries)] ==
        IF k = 0 THEN <<Len(entries)>> ELSE Out[k - 1] \o EntryWords(entries[k])
  IN  Out[Len(entries)]

TotalWords(entries) ==
  LET Total[k \in 0..Len(entries)] ==
        IF k = 0 THEN 1 ELSE Total[k - 1] + 2 * Len(entries[k].pitm) + 1 + NameWords
  IN  Total[Len(entries)]

(* curroff < len-8, on unsigned numbers *)
MoreItems(off, words) == off < (Len(words) - 2) % Width

(* processPatchFile: the loop over the patches of one file. *)
PatchRead(words) ==
  LET Read[k \in 0..Len(words)] ==
        IF k = 0 THEN [off |-> 0, list |-> << >>]
        ELSE LET r == Read[k - 1]
             IN  IF MoreItems(r.off, words)
                 THEN LET item == ItemAt(words, r.off)
                      IN  [off  |-> (r.off + item.size + 2) % Width,
                           list |-> Append(r.list, item)]
                 ELSE r
  IN  Read[Len(words)]

PatchItems(words) == PatchRead(words).list

PatchReadable(file) == file.words # << >> /\ file.tail = 0

(* Mutant of SamePlaces: the sizes decide. *)
SameSizes(a, b) ==
  Len(a) = Len(b) /\ \A j \in DOMAIN a : a[j].size = b[j].size

SamePlaces(a, b) == Len(a) = Len(b) /\ \A j \in DOMAIN a : a[j] = b[j]

ShouldAdd(items) == \A k \in DOMAIN pfiles : ~SamePlaces(pfiles[k].pitm, items)

-------------------------------------------------------------------------------
(* A patch file has numbers, and no size in it takes the offset back over  *)
(* the end of the numbers: the loop comes to its end.  The base was        *)
(* written by the tool: no list in it is empty, and none is there twice.   *)
PatchList == Seq([offset : Nat, size : Nat])
IndexEntries == [fname : PatchNames, pitm : PatchList \ {<< >>}]
NoneTwice(entries) ==
  \A k, m \in DOMAIN entries : entries[k].pitm = entries[m].pitm => k = m

IsPatchFile(f) ==
  /\ f.name \in PatchNames /\ f.words \in Seq(Nat) /\ f.tail \in Nat
  /\ PatchReadable(f) /\ Len(f.words) # 1 => ~MoreItems(PatchRead(f.words).off, f.words)
IsBase(words) == Entries(words) \in Seq(IndexEntries) /\ NoneTwice(Entries(words))

ASSUME OptAssumption ==
  /\ <<"nointmu", "">> \in PatchNames /\ \A n \in PatchNames : <<n[1], "">> \in PatchNames
  /\ NameWords \in Nat \ {0} /\ Width \in Nat \ {0}
  /\ \A d \in Folders : \A f \in d : IsPatchFile(f)
  /\ \A b \in Bases : b = Missing \/ IsBase(b)

-------------------------------------------------------------------------------
OutFile == IF baseBuild THEN "base" ELSE "addon"

OptInit ==
  /\ baseBuild \in BOOLEAN
  /\ folder \in Folders /\ left = {}
  /\ \E b \in Bases : idx = [f \in {"base", "addon"} |-> IF f = "base" THEN b ELSE Missing]
  /\ pfiles = << >> /\ optPc = "load" /\ calls = 1

LoadBase ==
  /\ optPc = "load"
  /\ pfiles' = IF idx["base"] # Missing THEN Entries(idx["base"]) ELSE << >>
  /\ left' = folder
  /\ optPc' = "scan"
  /\ UNCHANGED <<baseBuild, folder, idx, calls>>

(* The order of the files is the file system's. *)
ProcessPatchFile ==
  /\ optPc = "scan"
  /\ \E file \in left :
       /\ left' = left \ {file}
       /\ PatchReadable(file) => Len(file.words) # 1
       /\ LET items == PatchItems(file.words)
          IN  pfiles' = IF PatchReadable(file) /\ items # << >> /\ ShouldAdd(items)
                        THEN Append(pfiles, [fname |-> FixupName(file.name), pitm |-> items])
                        ELSE pfiles
  /\ UNCHANGED <<baseBuild, folder, idx, optPc, calls>>

(* With one word the bound wraps, and the loop reads on behind the buffer. *)
ReadBehind ==
  /\ optPc = "scan"
  /\ \E file \in left : PatchReadable(file) /\ Len(file.words) = 1
  /\ optPc' = "crashed"
  /\ UNCHANGED <<baseBuild, folder, left, idx, pfiles, calls>>

ScanDone ==
  /\ optPc = "scan" /\ left = {}
  /\ optPc' = "output"
  /\ UNCHANGED <<baseBuild, folder, left, idx, pfiles, calls>>

(* dump_buffer_hex prints it when the file cannot be opened, and the old   *)
(* index stays.                                                            *)
OutputIdx ==
  /\ optPc = "output"
  /\ LET dumps == pfiles # << >> /\ Len(IndexWords(pfiles)) = TotalWords(pfiles)
     IN  \E opened \in BOOLEAN :
           /\ idx' = IF dumps /\ opened THEN [idx EXCEPT ![OutFile] = IndexWords(pfiles)]
                     ELSE idx
           /\ optPc' = IF dumps /\ ~opened THEN "unwritten" ELSE "done"
  /\ UNCHANGED <<baseBuild, folder, left, pfiles, calls>>

(* The tool is called again, with another folder in place. *)
CallAgain ==
  /\ optPc \in {"done", "unwritten", "crashed"} /\ calls < MaxCalls
  /\ folder' \in Folders
  /\ pfiles' = << >> /\ left' = {} /\ optPc' = "load" /\ calls' = calls + 1
  /\ UNCHANGED <<baseBuild, idx>>

OptNext ==
  LoadBase \/ ProcessPatchFile \/ ReadBehind \/ ScanDone \/ OutputIdx \/ CallAgain

OptSpec == OptInit /\ [][OptNext]_optVars /\ WF_optVars(OptNext)
-------------------------------------------------------------------------------
(* The places of every file that could be read, and those of an index. *)
Lists == {PatchItems(file.words) : file \in {f \in folder : PatchReadable(f)}} \ {<< >>}
Listed(entries) == {entries[k].pitm : k \in DOMAIN entries}

(* Type invariant of the tool. *)
OptTypeOK ==
  /\ optPc \in {"load", "scan", "output", "done", "unwritten", "crashed"}
  /\ baseBuild \in BOOLEAN
  /\ folder \in Folders /\ left \subseteq folder
  /\ pfiles \in Seq(IndexEntries)

(* What has been written is read back by the next call as it was meant,    *)
(* whatever the lengths of the lists.                                      *)
IndexLoads ==
  optPc = "done" /\ pfiles # << >> => Entries(idx[OutFile]) = pfiles

(* The index has the places of every patch file, in whatever order the     *)
(* files were found, no list twice, and still holds all of the base: a     *)
(* base that is built in several calls loses and repeats nothing.  The     *)
(* next call reads it back as it was meant.                                *)
IndexExact ==
  /\ IndexLoads
  /\ optPc = "done" =>
       /\ Lists \subseteq Listed(pfiles)
       /\ NoneTwice(pfiles)
       /\ idx["base"] # Missing =>
            \A k \in DOMAIN Entries(idx["base"]) :
              \E m \in DOMAIN pfiles : pfiles[m] = Entries(idx["base"])[k]
===============================================================================
