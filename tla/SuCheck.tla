-------------------------------- MODULE SuCheck --------------------------------
(***************************************************************************)
(* su_check (main.c): the manifest of a system update is read, each file   *)
(* it names is checked, those that are good are copied to a folder, and a  *)
(* summary is printed.                                                     *)
(*                                                                         *)
(* An item of the manifest is [name, type, size, disk, folder, dest]; disk *)
(* is what lies under its source name: Absent, Empty, a container for      *)
(* StfsWalk, or for a plain file whether its hash is the manifest's.       *)
(* folder and dest tell where it goes: folder is "system" for the content  *)
(* of FFFE07DF\00008000, any other name for a container of other ids or    *)
(* for the version of a plain file.                                        *)
(*                                                                         *)
(* Left out: fwrite's result, which the tool does not look at, so a copy   *)
(* is a file that could be opened; and that verifyFile hashes the bytes    *)
(* the manifest counts but writes all the file has, so that a tail is      *)
(* copied unchecked.                                                       *)
(***************************************************************************)
EXTENDS StfsWalk, Integers, FiniteSets

CONSTANTS
  Updates,         \* [schema, magic, header, length, items, package, argc, dirs];
                   \* schema 0: no manifest; header has the fields xmnp and sha; argc
                   \* is 2 if a folder is named, which has the folders dirs before
  Absent, Empty,
  Intact, Damaged  \* a plain file whose hash is, or is not, the manifest's

ASSUME CheckAssumption ==
  \A u \in Updates : u.schema \in 0..3 /\ (u.schema = 0 => u.items = << >>)

VARIABLES
  update,
  copyToFolder,
  pc, item,      \* "start", "package", "items", "walk", "finish", "report"
  doCopy,        \* verifyContainer's argument
  ttl,           \* [filesChecked, filesOk, conChecked, conOk]
  outfilepath,   \* where dump_buffer_hex shall write, << >> at first
  dirs,          \* the folders that are there; "base" is the one named
  copied,        \* files written, [path, item], item 0 being the manifest
  unopened       \* items for which no file could be opened

folderVars == <<outfilepath, dirs, copied, unopened>>
main == <<update, copyToFolder, pc, item, doCopy, ttl, folderVars>>
vars == <<walk, main>>

Init ==
  /\ WalkInit
  /\ update \in Updates
  /\ copyToFolder = FALSE /\ pc = "start" /\ item = 1 /\ doCopy = FALSE
  /\ ttl = [filesChecked |-> 0, filesOk |-> 0, conChecked |-> 0, conOk |-> 0]
  /\ outfilepath = << >> /\ dirs = {} /\ copied = {} /\ unopened = {}

Item == update.items[item]

(* The second magic goes with the schema; what else is wrong is reported   *)
(* together.                                                               *)
VerifyManifestHeader(u) ==
  /\ u.schema = 1 => u.magic = "xman"
  /\ u.schema = 3 => u.magic \in {"xsym", "xonm"}
  /\ u.schema \in {1, 3}
  /\ u.header.xmnp /\ u.header.sha

(* parseManifest: "short" is less than 0x164 bytes, "long" more than 0x10000. *)
ParseManifest(u) == u.length = "fits" /\ VerifyManifestHeader(u)

(* createDir: a folder that is there already will do. *)
CreateDir(mkdir) == mkdir \in {"made", "exists"}

(* Mutant of Rest: one item too many. *)
OneMoreItem(k) == IF k > Len(update.items) + 1 THEN "finish" ELSE "items"

Rest(k) == IF k > Len(update.items) THEN "finish" ELSE "items"

(* makeDefaultDirs leaves the last of its four paths in outfilepath. *)
DefaultDir == <<"system", "">>

(* main up to verifyManifestItems.  createDir may fail, for the folder and *)
(* for those makeDefaultDirs puts into it, which nobody looks at; schema 1 *)
(* is never copied.                                                        *)
Start ==
  /\ pc = "start"
  /\ \E mkdir \in {"made", "exists", "error"}, defaultDirs \in BOOLEAN :
       LET made == update.argc = 2 /\ CreateDir(mkdir)
       IN  /\ mkdir = "made" => update.dirs = {}
           /\ copyToFolder' = (made /\ ~(update.schema = 1 /\ ParseManifest(update)))
           /\ dirs' = IF made
                      THEN {"base"} \cup update.dirs
                             \cup (IF defaultDirs THEN {"system"} ELSE {})
                      ELSE {}
           /\ outfilepath' = IF made THEN DefaultDir ELSE << >>
  /\ pc' = IF update.schema # 0
           THEN IF ParseManifest(update) THEN Rest(1) ELSE "finish"
           ELSE "package"
  /\ UNCHANGED <<walk, update, item, doCopy, ttl, copied, unopened>>

(* Mutant of NextItem: the item is checked again. *)
SameItem == item' = item /\ pc' = Rest(item)

NextItem == item' = item + 1 /\ pc' = Rest(item + 1)

(* readFileToBuf: the length read, 0 for a file that is there and empty,   *)
(* -1 for NULL.                                                            *)
ReadFileToBuf(disk) == IF disk = Absent THEN -1 ELSE IF disk = Empty THEN 0 ELSE 1

Readable(size, disk) == size # 0 /\ ReadFileToBuf(disk) > 0

(* verifyContainer: what cannot be read is neither walked nor counted. *)
OpenContainer(size, disk, copy) ==
  /\ IF Readable(size, disk)
     THEN /\ StartWalk(disk)
          /\ ttl' = [ttl EXCEPT !.conChecked = @ + 1]
          /\ pc' = "walk"
          /\ UNCHANGED item
     ELSE NextItem /\ UNCHANGED <<walk, ttl>>
  /\ doCopy' = copy
  /\ UNCHANGED <<update, copyToFolder, dirs, copied, unopened>>

(* No manifest: the package on its own, in one of two places. *)
CheckPackage ==
  /\ pc = "package"
  /\ OpenContainer(1, update.package, FALSE)
  /\ UNCHANGED outfilepath

CheckFlash ==
  /\ pc = "items" /\ Item.name = "flash"
  /\ OpenContainer(1, Item.disk, FALSE)
  /\ UNCHANGED outfilepath

(* Where an item goes, below the folder named. *)
Destination(it) == <<it.folder, it.dest>>

(* Mutant of OutPath: the path is only filled in once. *)
PathOnce(it) == IF copyToFolder /\ outfilepath = DefaultDir THEN Destination(it) ELSE outfilepath

OutPath(it) == IF copyToFolder THEN Destination(it) ELSE outfilepath

IsContainer == update.schema = 1 \/ Item.type = "xcontent"

CheckContainer ==
  /\ pc = "items" /\ Item.name = "other" /\ IsContainer
  /\ OpenContainer(Item.size, Item.disk, TRUE)
  /\ outfilepath' = OutPath(Item)

Copies(verified) == copyToFolder /\ verified

(* dump_buffer_hex: it says so if the file cannot be opened, and its       *)
(* callers do not ask; opening a file that is there empties it.            *)
Dump(k, path, opened) ==
  IF opened /\ path[1] \in dirs'
  THEN /\ copied' = {c \in copied : c.path # path} \cup {[path |-> path, item |-> k]}
       /\ UNCHANGED unopened
  ELSE unopened' = unopened \cup {k} /\ UNCHANGED copied

(* verifyFile, and the folder of the version in front of it. *)
CheckFile ==
  /\ pc = "items" /\ Item.name = "other" /\ ~IsContainer /\ Item.type = "file"
  /\ outfilepath' = OutPath(Item)
  /\ \E made, opened \in BOOLEAN :
       /\ dirs' = IF copyToFolder /\ made THEN dirs \cup {Item.folder} ELSE dirs
       /\ IF Readable(Item.size, Item.disk)
          THEN LET ok == Item.disk = Intact
               IN  /\ ttl' = [ttl EXCEPT !.filesChecked = @ + 1,
                                         !.filesOk = IF ok THEN @ + 1 ELSE @]
                   /\ IF Copies(ok) THEN Dump(item, outfilepath', opened)
                      ELSE UNCHANGED <<copied, unopened>>
          ELSE UNCHANGED <<ttl, copied, unopened>>
  /\ NextItem
  /\ UNCHANGED <<walk, update, copyToFolder, doCopy>>

(* An item without a source name, or of neither type. *)
SkipItem ==
  /\ pc = "items"
  /\ Item.name = "none"
       \/ (Item.name = "other" /\ ~IsContainer /\ Item.type # "file")
  /\ NextItem
  /\ UNCHANGED <<walk, update, copyToFolder, doCopy, ttl, folderVars>>

Walk == pc = "walk" /\ WalkStep /\ UNCHANGED main

(* Mutant of Verified: the headers suffice. *)
HeadersVerified == con.headerOk

Verified == verdict = "ok"

(* verifyContainer after conCheckHeader. *)
ContainerDone ==
  /\ pc = "walk" /\ verdict # "checking"
  /\ ttl' = [ttl EXCEPT !.conOk = IF Verified THEN @ + 1 ELSE @]
  /\ UNCHANGED <<outfilepath, dirs>>
  /\ IF doCopy /\ Copies(Verified)
     THEN \E opened \in BOOLEAN : Dump(item, outfilepath, opened)
     ELSE UNCHANGED <<copied, unopened>>
  /\ NextItem
  /\ UNCHANGED <<walk, update, copyToFolder, doCopy>>

ManifestPath == <<"base", "system.manifest">>

(* The manifest is copied whatever the checks have shown. *)
Finish ==
  /\ pc = "finish"
  /\ UNCHANGED dirs
  /\ IF copyToFolder /\ update.schema # 0
     THEN /\ outfilepath' = ManifestPath
          /\ \E opened \in BOOLEAN : Dump(0, outfilepath', opened)
     ELSE UNCHANGED <<outfilepath, copied, unopened>>
  /\ pc' = "report"
  /\ UNCHANGED <<walk, update, copyToFolder, item, doCopy, ttl>>

Next ==
  \/ Start \/ CheckPackage \/ CheckFlash \/ CheckContainer \/ CheckFile
  \/ SkipItem \/ Walk \/ ContainerDone \/ Finish

Spec == Init /\ [][Next]_vars /\ WF_vars(Next)
===============================================================================
