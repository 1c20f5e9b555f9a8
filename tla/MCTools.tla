------------------------------- MODULE MCTools -------------------------------
(***************************************************************************)
(* The tools that run on their own: a behaviour is that of one of them.    *)
(*                                                                         *)
(* su_check.  Three entries a table.  Containers of up to three tables,    *)
(* each fill of the last one, whole or with one change: a block replaced,  *)
(* an entry of a table behind the first, or of the main one, zeroed or     *)
(* replaced, or one of a first table that has a main one replaced.         *)
(* One such container a manifest, or two items of which each is one of a   *)
(* few and which go to one place or to two; and manifests with anything    *)
(* wrong in their headers.  A folder is named for all but the first.       *)
(***************************************************************************)
EXTENDS SuProperties, PatchContainer, OptIndex, FlashIni, SfcGeometry, SequencesExt

CONSTANTS
  Tools,            \* the tools that may be started
  Off               \* the value of the variables of a tool that does not run

VARIABLES
  tool

JunkBlock == [id |-> <<"junk", 0>>, entries |-> [e \in 1..PerTable |-> <<"bytes", 0>>], level |-> 1]

Replaced(c, k) == [c EXCEPT !.blocks[k] = JunkBlock]
Changed(c, k, e, to) == [c EXCEPT !.blocks[k].entries[e] = to]
TablesOf(c) == {k \in DOMAIN c.blocks : c.blocks[k].id[1] \in {"table", "main"}}

Damages(c) ==
  {Replaced(c, k) : k \in DOMAIN c.blocks}
    \cup {Changed(c, k, e, to) : k \in TablesOf(c) \ {1}, e \in 1..PerTable,
                                 to \in {Zero, <<"bytes", 0>>}}
    \cup {Changed(c, 1, e, <<"bytes", 0>>) : e \in IF Tables(c.size) > 1 THEN 1..PerTable ELSE {}}
    \cup {[c EXCEPT !.headerOk = FALSE]}

(* A last table of one block, behind two or more, is left to               *)
(* LastBlockSizes.                                                         *)
LastBlockSizes == {7}
Sizes == (1..9) \ LastBlockSizes
Containers == {Whole(n) : n \in Sizes} \cup UNION {Damages(Whole(n)) : n \in Sizes}

It(name, type, size, disk, goesTo) ==
  [name |-> name, type |-> type, size |-> size, disk |-> disk, folder |-> goesTo, dest |-> "a"]
FewContainers == {Absent, Empty, Whole(2), Replaced(Whole(2), 2)}
FewItems ==
  {It("other", "xcontent", 1, d, "system") : d \in FewContainers}
    \cup {It("other", "xcontent", 0, Whole(2), "system"),
          It("other", "xcontent", 1, Whole(2), "elsewhere")}
    \cup {It("flash", "xcontent", 1, d, "system") : d \in FewContainers}
    \cup {It("other", "file", 1, d, "version") : d \in {Absent, Empty, Intact, Damaged}}
    \cup {It("other", "file", 0, Intact, "version"),
          It("none", "file", 1, Absent, "version"), It("other", "neither", 1, Intact, "version")}

Manifest(schema, magic, its, p) ==
  [schema |-> schema, magic |-> magic, header |-> [xmnp |-> TRUE, sha |-> TRUE],
   length |-> "fits", items |-> its, package |-> p, argc |-> 2, dirs |-> {}]
Unnamed(u) == [u EXCEPT !.argc = 1]

OneItem(schema) ==
  <<IF schema = 1 THEN It("other", "xcontent", 1, Whole(2), "system")
    ELSE It("other", "file", 1, Intact, "version")>>
OneContainer(c) == <<It("other", "xcontent", 1, c, "system")>>
Headers == [xmnp : BOOLEAN, sha : BOOLEAN]
FalseManifests ==
  {[Manifest(s, m, OneItem(s), Absent) EXCEPT !.header = h, !.length = n] :
     s \in 1..3, m \in {"xman", "xsym", "xonm", "other"}, h \in Headers,
     n \in {"short", "fits", "long"}}

AllUpdates ==
  {Unnamed(Manifest(3, "xsym", OneContainer(c), Absent)) : c \in Containers}
    \cup {Manifest(3, "xonm", <<a, [b EXCEPT !.dest = d]>>, Absent) :
            a \in FewItems, b \in FewItems, d \in {"a", "b"}}
    \cup {[Manifest(3, "xsym", <<a, b>>, Absent) EXCEPT !.dirs = {"elsewhere"}] :
            a \in FewItems, b \in {It("other", "xcontent", 1, Whole(2), "elsewhere")}}
    \cup {Manifest(1, "xman", OneContainer(c), Absent) : c \in FewContainers}
    \cup {Manifest(0, "other", << >>, p) : p \in FewContainers}
    \cup FalseManifests

LastBlockDamaged ==
  {Unnamed(Manifest(3, "xsym", OneContainer(Replaced(c, Len(c.blocks))), Absent)) :
     c \in {Whole(n) : n \in LastBlockSizes}}

-------------------------------------------------------------------------------
(* opt_idx.  Files of up to two patches with up to one word of data, one   *)
(* of a wrong length, an empty one and one that is nothing but a           *)
(* terminator; two to a folder, and two calls.                             *)
PatchWords(items) ==
  FlattenSeq([k \in DOMAIN items |->
    <<items[k][1], items[k][2]>> \o [w \in 1..items[k][2] |-> 7]]) \o <<99>>

PatchFile(name, words, tail) == [name |-> name, words |-> words, tail |-> tail]
PatchLists ==
  {PatchWords(l) : l \in {<< >>, <<<<1, 1>>>>, <<<<2, 1>>>>,
                          <<<<1, 1>>, <<2, 0>>>>, <<<<2, 1>>, <<1, 1>>>>}}
SomeNames ==
  {<<"nomu", "">>, <<"nofcrt", "_17559">>, <<"nofcrt", "">>, <<"nohdd", "">>, <<"dlaunch", "">>,
   <<"nointmu", "">>}
FirstFiles ==
  {PatchFile(<<"nomu", "">>, w, 0) : w \in PatchLists \cup {<< >>}}
    \cup {PatchFile(<<"nomu", "">>, PatchWords(<<<<3, 0>>>>), 2)}
SecondFiles == {PatchFile(<<"nofcrt", "_17559">>, w, 0) : w \in PatchLists}
SomeFolders == {{}} \cup {{f, g} : f \in FirstFiles, g \in SecondFiles}

SomeBases ==
  {Missing, <<1, 1, 1, 1, <<"nofcrt", "">>, 0, 0, 0>>,
   <<2, 1, 3, 0, <<"dlaunch", "">>, 0, 0, 0, 1, 2, 1, <<"nohdd", "">>, 0, 0, 0>>}

-------------------------------------------------------------------------------
(* ini_creator.  One file in front of two others: boot loaders with each   *)
(* letter and with versions at the bounds of the sections.                 *)
ImageFile(name, kind, letter, ver, cut, path) ==
  [name |-> name, kind |-> kind, letter |-> letter, ver |-> ver, cut |-> cut, path |-> path]

Bl(name, letter, ver) == ImageFile(name, "bl", letter, ver, FALSE, TRUE)
Versions == {999, 1000, 1001, 1999, 4532, 5999, 6000, 6754, 7001, 9188, 12998, 12999,
             13000, 13121, 14000, 14999, 15000, 17559}
SomeBls(name) ==
  {Bl(name, 66, v) : v \in Versions} \cup {Bl(name, l, 1888) : l \in {65, 67, 68, 69, 72, 74}}
    \cup {Bl(name, l, v) : l \in {70, 71}, v \in {4532, 17559}}
    \cup {[Bl(name, 66, 1921) EXCEPT !.cut = TRUE], [Bl(name, 68, 1921) EXCEPT !.path = FALSE]}
SomeImageFiles(name) ==
  SomeBls(name) \cup {ImageFile(name, k, 0, 0, FALSE, TRUE) : k \in {"flash", "other", "none"}}

SomeCommandLines ==
  {<<f, g, ImageFile(3, "flash", 0, 0, FALSE, TRUE)>> :
     f \in SomeImageFiles(1), g \in SomeImageFiles(2)}
MisplacedLines ==
  {<<Bl(1, 66, 5000), [Bl(2, 66, 1921) EXCEPT !.cut = TRUE], Bl(3, 68, 5001)>>}

-------------------------------------------------------------------------------
(* dl_patches.  Three types, one of them with a second name; contents of   *)
(* up to two cells.                                                        *)
SomeTypes ==
  <<[type |-> "jtag xenon", altname |-> FALSE],
    [type |-> "glitch trinity", altname |-> TRUE],
    [type |-> "glitch fat", altname |-> FALSE]>>

Content(k, n) == [c \in 1..n |-> <<k, c>>]
Contents(k) == {Gone} \cup {Content(k, n) : n \in 0..2}
Disk(a, b, c, alt) ==
  [p \in (1..3) \X {"file", "alt"} |->
     IF p[2] = "alt" THEN alt ELSE IF p[1] = 1 THEN a ELSE IF p[1] = 2 THEN b ELSE c]
AllDisks ==
  {Disk(a, b, c, alt) : a \in Contents(1), b \in Contents(2), c \in Contents(3), alt \in Contents(4)}

SomeCells == ((1..4) \X (1..2)) \cup {Junk}

-------------------------------------------------------------------------------
(* scriptsetc.  The registers of the list in the source, and every kind    *)
(* and layout with sizes from 8 megabytes up.                              *)
SomeRegisters ==
  {\h00043000, \h00023010, \h008A3020, \h00AA3020, \h01198030, \h01198010, \h00023030}
    \cup {kind * 2^17 + layout * 2^4 + low * 2^19 + high * 2^21 :
             kind \in 0..3, layout \in 0..3, low \in 0..3, high \in 0..4}

-------------------------------------------------------------------------------
toolVars == <<vars, optVars, iniVars, listVars, sfcVars, tool>>

OptOff ==
  /\ baseBuild = Off /\ folder = Off /\ left = Off /\ idx = Off
  /\ pfiles = Off /\ optPc = Off /\ calls = Off
IniOff ==
  /\ argv = Off /\ arg = Off /\ flashFiles = Off /\ otherFiles = Off
  /\ flashBls = Off /\ flashVer = Off /\ ini = Off /\ iniPc = Off
ListOff ==
  /\ patches = Off /\ listItem = Off /\ data = Off /\ cnt = Off /\ currOff = Off
  /\ header = Off /\ container = Off /\ listPc = Off
SfcOff == config = Off /\ sfc = Off /\ sfcRet = Off
SuOff ==
  /\ WalkInit
  /\ update = Off /\ copyToFolder = Off /\ pc = Off /\ item = Off
  /\ doCopy = Off /\ ttl = Off
  /\ outfilepath = Off /\ dirs = Off /\ copied = {} /\ unopened = Off

ToolsInit ==
  /\ tool \in Tools
  /\ \/ tool = "su_check" /\ Init /\ OptOff /\ IniOff /\ ListOff /\ SfcOff
     \/ tool = "opt_idx" /\ OptInit /\ SuOff /\ IniOff /\ ListOff /\ SfcOff
     \/ tool = "ini_creator" /\ IniInit /\ SuOff /\ OptOff /\ ListOff /\ SfcOff
     \/ tool = "dl_patches" /\ ListInit /\ SuOff /\ OptOff /\ IniOff /\ SfcOff
     \/ tool = "scriptsetc" /\ SfcInit /\ SuOff /\ OptOff /\ IniOff /\ ListOff

ToolsNext ==
  \/ tool = "su_check" /\ Next /\ UNCHANGED <<optVars, iniVars, listVars, sfcVars, tool>>
  \/ tool = "opt_idx" /\ OptNext /\ UNCHANGED <<vars, iniVars, listVars, sfcVars, tool>>
  \/ tool = "ini_creator" /\ IniNext /\ UNCHANGED <<vars, optVars, listVars, sfcVars, tool>>
  \/ tool = "dl_patches" /\ ListNext /\ UNCHANGED <<vars, optVars, iniVars, sfcVars, tool>>
  \/ tool = "scriptsetc" /\ SfcNext /\ UNCHANGED <<vars, optVars, iniVars, listVars, tool>>

ToolsSpec == ToolsInit /\ [][ToolsNext]_toolVars /\ WF_toolVars(ToolsNext)
-------------------------------------------------------------------------------
(* The type invariants of the tools' modules. *)
ToolsTypeOK ==
  /\ tool = "su_check" => TypeOK
  /\ tool = "opt_idx" => OptTypeOK
  /\ tool = "ini_creator" => IniTypeOK
  /\ tool = "dl_patches" => ListTypeOK
  /\ tool = "scriptsetc" => SfcTypeOK

(* Each tool gets to its end whatever it reads: su_check to its summary,   *)
(* the others to a file written or to the crash of a single-word patch     *)
(* file or of a name without a path.                                       *)
EveryToolEnds ==
  <>CASE tool = "su_check"    -> pc = "report"
      [] tool = "opt_idx"     -> optPc \in {"done", "unwritten", "crashed"}
      [] tool = "ini_creator" -> iniPc \in {"done", "crashed"}
      [] tool = "dl_patches"  -> listPc \in {"done", "failed"}
      [] tool = "scriptsetc"  -> sfcRet # -1
===============================================================================
