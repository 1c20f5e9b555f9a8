---------------------------- MODULE PatchContainer ----------------------------
(***************************************************************************)
(* dl_patches (dl_patches.c): the patch sets of all console types in one   *)
(* container, a header of entries in front of the contents.                *)
(*                                                                         *)
(* A file is a sequence of cells.  fileList is the list of patch sets:     *)
(* which console and exploit each is for, and whether a second name is     *)
(* tried.                                                                  *)
(*                                                                         *)
(* Left out: malloc returning NULL for an item, which would be counted but *)
(* not written, and the results of WriteFile, which the tool does not look *)
(* at.                                                                     *)
(***************************************************************************)
EXTENDS Integers, Sequences

CONSTANTS
  fileList,   \* sequence of [type, altname]
  Disks,      \* functions from <<item, "file" or "alt">> to contents or Gone
  Cells,
  Gone,
  Junk        \* a cell ReadFile has not filled

Items == DOMAIN fileList

(* The list has no type twice; a file's contents are cells. *)
IsDisk(d) == \A k \in Items, name \in {"file", "alt"} : d[<<k, name>>] \in Seq(Cells) \cup {Gone}

ASSUME ContainerAssumption ==
  /\ Len(fileList) \in Nat /\ Items = 1..Len(fileList)
  /\ \A k \in Items : fileList[k].altname \in BOOLEAN
  /\ \A j, k \in Items : fileList[j].type = fileList[k].type => j = k
  /\ \A d \in Disks : IsDisk(d)
  /\ Junk \in Cells /\ Gone \notin Seq(Cells)

VARIABLES
  patches,    \* the files there are
  listItem,   \* the item in turn
  data,       \* fileList's data: contents, or Gone for NULL
  cnt, currOff,
  header,     \* [numEntries, inf]
  container,  \* the cells behind the header
  listPc      \* "get", "header", "content", "done" or "failed"

listVars == <<patches, listItem, data, cnt, currOff, header, container, listPc>>

NoHeader == [numEntries |-> 0, inf |-> << >>]

(* The output file is created before anything is read. *)
ListInit ==
  /\ patches \in Disks
  /\ listItem = 1 /\ cnt = 0 /\ currOff = 0
  /\ data = [k \in Items |-> Gone]
  /\ header = NoHeader /\ container = << >>
  /\ listPc \in {"get", "failed"}

Found ==
  IF patches[<<listItem, "file">>] # Gone THEN patches[<<listItem, "file">>]
  ELSE IF fileList[listItem].altname THEN patches[<<listItem, "alt">>] ELSE Gone

(* What ReadFile may have put into the buffer when it returns. *)
ReadResults(content) ==
  {[k \in DOMAIN content |-> IF k <= n THEN content[k] ELSE Junk] : n \in 0..Len(content)}

(* A short read is reported, and taken all the same. *)
GetItemData ==
  /\ listPc = "get" /\ listItem \in Items
  /\ IF Found # Gone
     THEN /\ \E buffer \in ReadResults(Found) : data' = [data EXCEPT ![listItem] = buffer]
          /\ cnt' = cnt + 1
     ELSE UNCHANGED <<data, cnt>>
  /\ listItem' = listItem + 1
  /\ UNCHANGED <<patches, currOff, header, container, listPc>>

(* The header has room for the entries that were counted, if there is      *)
(* memory for it.                                                          *)
MakeHeader ==
  /\ listPc = "get" /\ listItem \notin Items
  /\ listPc' \in {"header", "failed"}
  /\ header' = IF listPc' = "header" THEN [numEntries |-> cnt, inf |-> << >>] ELSE header
  /\ listItem' = 1
  /\ UNCHANGED <<patches, data, cnt, currOff, container>>

Present(k) == data[k] # Gone

InfoOf(k) ==
  [consoleType |-> fileList[k].type, size |-> Len(data[k]), offset |-> currOff]

(* Mutant of OffsetStep: an offset per entry, not per cell. *)
EntryStep(k) == 1

OffsetStep(k) == Len(data[k])

AddInfo ==
  /\ listPc = "header" /\ listItem \in Items
  /\ IF Present(listItem)
     THEN /\ header' = [numEntries |-> header.numEntries,
                        inf |-> Append(header.inf, InfoOf(listItem))]
          /\ currOff' = currOff + OffsetStep(listItem)
     ELSE UNCHANGED <<header, currOff>>
  /\ listItem' = listItem + 1
  /\ UNCHANGED <<patches, data, cnt, container, listPc>>

WriteHeader ==
  /\ listPc = "header" /\ listItem \notin Items
  /\ listItem' = 1 /\ listPc' = "content"
  /\ UNCHANGED <<patches, data, cnt, currOff, header, container>>

WriteContent ==
  /\ listPc = "content" /\ listItem \in Items
  /\ container' = IF Present(listItem) THEN container \o data[listItem] ELSE container
  /\ listItem' = listItem + 1
  /\ UNCHANGED <<patches, data, cnt, currOff, header, listPc>>

CloseContainer ==
  /\ listPc = "content" /\ listItem \notin Items
  /\ listPc' = "done"
  /\ UNCHANGED <<patches, listItem, data, cnt, currOff, header, container>>

ListNext ==
  GetItemData \/ MakeHeader \/ AddInfo \/ WriteHeader \/ WriteContent \/ CloseContainer

ListSpec == ListInit /\ [][ListNext]_listVars /\ WF_listVars(ListNext)
-------------------------------------------------------------------------------
(* Type invariant of the container. *)
ListTypeOK ==
  /\ listPc \in {"get", "header", "content", "done", "failed"}
  /\ patches \in Disks
  /\ listItem \in 1..(Len(fileList) + 1)
  /\ data \in [Items -> Seq(Cells) \cup {Gone}]
  /\ cnt \in Nat /\ currOff \in Nat
  /\ header.numEntries \in Nat /\ header.inf \in Seq(
       [consoleType : {fileList[k].type : k \in Items}, size : Nat, offset : Nat])
  /\ container \in Seq(Cells)

(* Contents an item may have on the disk, the alternate name only when the *)
(* first one is missing.                                                   *)
SourceOf(k) ==
  IF patches[<<k, "file">>] # Gone \/ ~fileList[k].altname
  THEN patches[<<k, "file">>] ELSE patches[<<k, "alt">>]

Infos == {header.inf[j] : j \in DOMAIN header.inf}

(* A reader of the container finds the patch set of each type that was on  *)
(* the disk through its entry, in the length it had, and no other; a read  *)
(* that came up short moves no other set and leaks nothing into it.        *)
ContainerExact ==
  listPc = "done" =>
    /\ header.numEntries = Len(header.inf)
    /\ {e.consoleType : e \in Infos}
         = {fileList[k].type : k \in {m \in Items : SourceOf(m) # Gone}}
    /\ \A k \in Items, e \in Infos : e.consoleType = fileList[k].type =>
         /\ e.size = Len(SourceOf(k)) /\ e.offset + e.size <= Len(container)
         /\ \A c \in 1..e.size : container[e.offset + c] \in {SourceOf(k)[c], Junk}
===============================================================================
