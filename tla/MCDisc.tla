-------------------------------- MODULE MCDisc --------------------------------
(***************************************************************************)
(* What iso2svod does before it writes, each part for itself: opening the  *)
(* image, the walk over its directories, the title's executable, its       *)
(* metadata, the two levels of the decompressor, and the output folder.  A *)
(* behaviour is that of one part; the variables of the others are Off.     *)
(*                                                                         *)
(* The walk.  Images with a root table of up to two sectors, the second    *)
(* one part full, and a subdirectory of one; two slots to a sector, four   *)
(* bytes a sector.  File b lies before the root directory and file d       *)
(* behind every other file; the subdirectory holds default.xex in some     *)
(* images.                                                                 *)
(***************************************************************************)
EXTENDS IsoScan, IsoOpen, XexImage, SpaMetadata, OutputFolder, SequencesExt

CONSTANTS
  Parts,        \* the parts that may run
  Off,          \* the value of the variables of a part that does not run
  Streams, Unused

VARIABLES
  part,
  case, huffPc, codes, x, lens, table, pos, nextSymbol, put, unread, inputEnd, bits, got,
  stream, expected, lzxPc, error, outBytes, endFrame, written, stored, frame,
  framePosn, windowPosn, window, todo, thisRun, frameSize, block, token,
  blockRemaining, blockType, R, headerRead, filesize, started, curpos

DiscFile(s, n, exe) == [kind |-> "file", sector |-> s, size |-> n, xex |-> exe, dir |-> 0]
Directory(d, s, n) == [kind |-> "dir", sector |-> s, size |-> n, xex |-> FALSE, dir |-> d]

RootSector == 8
FileEntries == {DiscFile(17, 5, TRUE), DiscFile(3, 1, FALSE), DiscFile(30, 8, FALSE)}
SubDirEntry == Directory(2, 12, 4)
EmptyDirEntry == Directory(3, 0, 0)

(* Used slots come first in a sector, and a sector in use is not empty. *)
Sector(es) == {<<e, Pad>> : e \in es} \cup {<<e, f>> : e \in es, f \in es}
RootEntries == FileEntries \cup {SubDirEntry, EmptyDirEntry}
RootTables ==
  Sector(RootEntries) \cup
  {s \o <<t, Pad>> : s \in Sector(RootEntries), t \in FileEntries \cup {SubDirEntry}}
SubTables == Sector({DiscFile(40, 3, FALSE), DiscFile(1, 4, FALSE), Directory(4, 20, 4)})

Image(top, sub) ==
  [root |-> [dir |-> 1, sector |-> RootSector, kind |-> "dir", xex |-> FALSE,
             size |-> (Len(top) \div 2) * 4],
   dirs |-> (1 :> top) @@ (2 :> sub) @@ (3 :> << >>) @@ (4 :> <<DiscFile(41, 4, FALSE), Pad>>)]
SomeImages == {Image(r, s) : r \in RootTables, s \in SubTables}

(* An image maker may give a directory without files a sector of padding. *)
PaddedDirImages == {Image(<<SubDirEntry, Pad>>, <<Pad, Pad>>)}

-------------------------------------------------------------------------------
(* Opening.  The three places in their order on the disc; a descriptor     *)
(* with or without its tail or nothing at each, and files that end behind  *)
(* any of them.                                                            *)
Descriptors(o) == {Other} \cup [head: {TRUE}, tail: BOOLEAN, root: {o}]
SomeFiles ==
  {NoFile} \cup {[size |-> n, at |-> [o \in {p \in {2, 5, 9} : p < n} |->
                                      CASE o = 2 -> a [] o = 5 -> b [] o = 9 -> c]] :
     n \in {1, 3, 6, 10}, a \in Descriptors(2), b \in Descriptors(5), c \in Descriptors(9)}

-------------------------------------------------------------------------------
(* Executables.  An image of five cells, the title's section in its        *)
(* middle behind one with another name; raw with zeros, or compressed in   *)
(* one to three fragments of one or two chunks; damaged, or with fields    *)
(* that are missing.                                                       *)
XexCells(from, to) == [k \in 1..(to - from + 1) |-> StreamCell(from + k - 1)]
Chunk(cs) == <<Len(cs)>> \o cs
Fragment(next, chunks) == <<next, 999>> \o FlattenSeq(chunks) \o <<0>>

(* Chunks of these lengths, fragment by fragment. *)
Total(ns) == FoldLeft(LAMBDA a, b : a + b, 0, ns)
SizeOf(f) == 3 + Total(f) + Len(f)
PackedAs(fs) ==
  LET sizes  == FlattenSeq(fs)
      InFront(k) == Total(SubSeq(sizes, 1, k - 1))
      Fits(g) == {k \in 1..Len(sizes) : k <= Len(FlattenSeq(SubSeq(fs, 1, g)))}
      Frag(k) == CHOOSE g \in 1..Len(fs) : k \in Fits(g) /\ (g > 1 => k \notin Fits(g - 1))
      StartsAt(g) == Total([i \in 1..(g - 1) |-> SizeOf(fs[i])])
      CellsOf(k) == XexCells(InFront(k) + 1, InFront(k) + sizes[k])
      ChunksOf(g) == [i \in 1..Len(fs[g]) |-> Chunk(CellsOf(i + Len(FlattenSeq(SubSeq(fs, 1, g - 1)))))]
      Size(g) == IF g > Len(fs) THEN 0 ELSE SizeOf(fs[g])
  IN  [first |-> SizeOf(fs[1]),
       cells |-> FlattenSeq([g \in 1..Len(fs) |-> Fragment(Size(g + 1), ChunksOf(g))]),
       layout |->
         [records |-> << >>,
          fragments |-> [g \in 1..Len(fs) |-> [at |-> StartsAt(g), size |-> SizeOf(fs[g])]],
          chunks |-> [k \in 1..Len(sizes) |->
             [at |-> InFront(k) + k - 1 + 3 * (Frag(k) - 1) + 2, len |-> sizes[k], from |-> InFront(k),
              frag |-> Frag(k)]]]]
Packed ==
  {PackedAs(fs) : fs \in {<< <<2, 3>> >>, << <<2>>, <<1>>, <<2>> >>} \cup {<< <<m>>, <<5 - m>> >> : m \in 1..4}}

FullImage == <<101, 102, 103, 104, 105>>
RawImage  == <<101, 0, 0, 102, 103>>
AllFields == {<<"execution", "descriptor", "sections">>, <<"sections", "other", "descriptor", "execution">>}
SomeSections ==
  {<<[name |-> "other", address |-> 50, size |-> 1], [name |-> "title", address |-> 50 + a, size |-> n]>> :
     a \in 0..2, n \in 1..3}
    \cup {<<[name |-> "title", address |-> 51, size |-> 2], [name |-> "title", address |-> 50, size |-> 1]>>}

Compressed(p, key, fs, ss) ==
  [found |-> TRUE, readable |-> TRUE, magic |-> TRUE, security |-> TRUE, media |-> "media",
   fields |-> fs, behind |-> << >>, exec |-> TRUE, title |-> "title",
   mfg |-> key = "Xex1Key", encrypted |-> key # "none", format |-> "compressed",
   raw |-> << >>, window |-> 15, first |-> p.first, body |-> [key |-> key, cells |-> p.cells],
   imageSize |-> 5, loadAddress |-> 50, sections |-> ss,
   image |-> FullImage, layout |-> p.layout]

RawOf(c) ==
  [c EXCEPT !.format = "raw", !.image = RawImage, !.body.cells = <<101, 102, 103>>,
            !.raw = <<[data |-> 1, zero |-> 2], [data |-> 2, zero |-> 0]>>,
            !.layout.records = <<[data |-> 1, image |-> 3], [data |-> 3, image |-> 5]>>]

Whole == {Compressed(p, k, fs, ss) :
            p \in Packed, k \in {"none", "Xex1Key", "Xex2Key"}, fs \in AllFields, ss \in SomeSections}

OnePacked == CHOOSE p \in Packed : TRUE
OneWhole == Compressed(OnePacked, "none", <<"execution", "descriptor", "sections">>,
                       <<[name |-> "title", address |-> 51, size |-> 2]>>)
Sound == [OneWhole EXCEPT !.image = Nothing]
WithBehind(c, fs) == {[c EXCEPT !.fields = fs, !.behind = b] : b \in {<< >>, <<"sections", "descriptor">>}}
Unsound ==
  {[Sound EXCEPT !.found = FALSE], [Sound EXCEPT !.readable = FALSE], [Sound EXCEPT !.magic = FALSE],
   [Sound EXCEPT !.security = FALSE], [Sound EXCEPT !.exec = FALSE],
   [Sound EXCEPT !.format = "none"], [Sound EXCEPT !.format = "delta"], [Sound EXCEPT !.window = 0],
   [Sound EXCEPT !.sections = << >>], [Sound EXCEPT !.sections[1].size = 9]}
    \cup UNION {WithBehind(Sound, fs) : fs \in {<<"execution", "descriptor">>, <<"execution", "sections">>, << >>}}
DamagedExecutables ==
  {[Sound EXCEPT !.body.cells[k] = 7] :
     k \in {j \in DOMAIN OnePacked.cells : OnePacked.cells[j] > 200 /\ OnePacked.cells[j] # 999}}
SoundExecutables == Whole \cup {RawOf(c) : c \in Whole} \cup Unsound

-------------------------------------------------------------------------------
(* Metadata.  Two languages of three, names that fit, fill and overflow    *)
(* their room, descriptions from each of the three texts, missing or       *)
(* elsewhere; the entries in both orders, and strings in two of them.      *)
Text(l, n) == [k \in 1..n |-> 10 * l + k]
Tr(l, n) == [locale |-> l, text |-> Text(l, n)]
SomeNames == {<< >>, <<Tr(2, 1)>>, <<Tr(1, 2), Tr(2, 5)>>, <<Tr(2, 0), Tr(1, 3)>>, <<Tr(1, 1), Tr(3, 1), Tr(2, 1)>>}
SomeTexts == {Absent, << >>, <<Tr(2, 3)>>, <<Tr(2, 7), Tr(1, 2)>>, <<Tr(1, 0), Tr(3, 1)>>}
Xmls ==
  [titleName: {Absent, Text(0, 2), << >>}, names: SomeNames, sell: SomeTexts,
   publisher: {Absent, <<Tr(1, 2)>>}, developer: {Absent, <<Tr(2, 2)>>}]
ShortXmls == {xml \in Xmls : xml.titleName = Absent /\ xml.sell = Absent /\ xml.developer = Absent}
Res(type, id, inside, icon, unpacks, strings) ==
  [type |-> type, id |-> id, inside |-> inside, icon |-> icon, unpacks |-> unpacks, xml |-> strings]
IconRes(n) == Res(2, "icon", TRUE, Text(9, n), FALSE, Absent)
TextRes(strings, u) == Res(1, "XSRC", TRUE, Absent, u, strings)
OtherRes(ok) == Res(3, "other", ok, Absent, FALSE, Absent)
SomeTitles ==
  {[magic |-> m, entries |-> <<IconRes(n), TextRes(strings, u), OtherRes(ok)>>] :
     m \in BOOLEAN, n \in {1, 4}, strings \in {[titleName |-> Absent, names |-> <<Tr(2, 1)>>, sell |-> Absent,
                                         publisher |-> Absent, developer |-> Absent], Absent},
     u \in BOOLEAN, ok \in BOOLEAN}
    \cup {[magic |-> TRUE, entries |-> <<TextRes(strings, TRUE), OtherRes(TRUE), IconRes(2)>>] : strings \in Xmls}
    \cup {[magic |-> TRUE, entries |-> <<TextRes(a, TRUE), IconRes(2), TextRes(b, TRUE)>>] :
            a \in ShortXmls, b \in ShortXmls}

NoText == <<98, 99>>

-------------------------------------------------------------------------------
(* Bits.  Five symbols, codes of up to four bits of which two are looked   *)
(* up at once; every complete code, and all other lengths in rising order  *)
(* whose nodes find room in the table; sent against two other lengths in   *)
(* both ways; messages of three symbols that start and end with any.       *)
CountOf(ls, n) == Cardinality({s \in 0..4 : ls[s] = n})
KraftSum(ls) == 8 * CountOf(ls, 1) + 4 * CountOf(ls, 2) + 2 * CountOf(ls, 3) + CountOf(ls, 4)
NodesFit(ls) ==
  ((2 * CountOf(ls, 3) + CountOf(ls, 4) + 3) \div 4) + ((CountOf(ls, 4) + 1) \div 2) <= 2
Rising(ls) == \A s \in 0..3 : ls[s] <= ls[s + 1]
SomeLengths == {ls \in [0..4 -> 0..4] : NodesFit(ls) /\ (Rising(ls) \/ KraftSum(ls) = 16)}
CompleteLengths == {ls \in SomeLengths : KraftSum(ls) = 16}
Used(ls) == {s \in 0..4 : ls[s] > 0}
OldLengths == {[s \in 0..4 |-> 0], [s \in 0..4 |-> (2 * s + 1) % 5]}
SomeCases ==
  [old: OldLengths, new: SomeLengths, runs: BOOLEAN, message: {<< >>}]
    \cup {[old |-> [s \in 0..4 |-> 0], new |-> m[1], runs |-> TRUE, message |-> <<m[2], m[3], m[2]>>] :
             m \in {n \in CompleteLengths \X (0..4) \X (0..4) : {n[2], n[3]} \subseteq Used(n[1])}}

Huff == INSTANCE LzxHuffman WITH
  Symbols <- 5, TableBits <- 2, MaxBits <- 4, ZeroRun <- 2, LongZeroRun <- 3, SameRun <- 2,
  Cases <- SomeCases, pc <- huffPc

-------------------------------------------------------------------------------
(* Streams.  Frames of four cells and a window of two; two frames and part *)
(* of a third, in one to three blocks; each kind of match, with the source *)
(* in front of the window's edge, behind it and across it.                 *)
Lit(c) == [lit |-> c]
Match(len, off) == [len |-> len, slot |-> 3, off |-> off]
Again(len, s) == [len |-> len, slot |-> s, off |-> 0]
Call8 == 232

Frames ==
  {<<Lit(5), Lit(6), Lit(7), Lit(8)>>,
   <<Lit(Call8), Lit(1), Match(2, 2)>>,
   <<Lit(Call8), Lit(-3), Lit(4), Lit(Call8)>>,
   <<Match(2, 3), Again(2, 1)>>,
   <<Lit(9), Match(3, 5)>>,
   <<Again(2, 2), Again(2, 1)>>,
   <<Lit(9), Again(3, 0)>>}
FirstFrames == {f \in Frames : "lit" \in DOMAIN f[1]}
LastFrames == {<<Lit(5), Lit(6)>>, <<Match(2, 5)>>, <<Again(2, 1)>>}

Cells(ts) == FoldLeft(LAMBDA n, t : IF "lit" \in DOMAIN t THEN n + 1 ELSE n + t.len, 0, ts)
AlignedBlock(ts) == [type |-> "aligned", length |-> Cells(ts), R |-> <<1, 1, 1>>, tokens |-> ts]
LzxBlock(ts) == [type |-> "verbatim", length |-> Cells(ts), R |-> <<1, 1, 1>>, tokens |-> ts]
StoredBlock == [type |-> "uncompressed", length |-> 4, R |-> <<3, 2, 4>>,
                tokens |-> <<Lit(Call8), Lit(2), Lit(7), Lit(8)>>]
Blocks(f, g, h) ==
  {<<LzxBlock(f \o g \o h)>>, <<LzxBlock(f), AlignedBlock(g \o h)>>,
   <<LzxBlock(f \o SubSeq(g, 1, 1)), LzxBlock(SubSeq(g, 2, Len(g)) \o h)>>,
   <<LzxBlock(f), StoredBlock, LzxBlock(h)>>}
LzxOf(bs, n, size, reset, ref) ==
  [blocks |-> bs, length |-> n, filesize |-> size, reset |-> reset, ref |-> ref]
GoodStreams ==
  {LzxOf(bs, 10, 12, 0, << >>) :
     bs \in UNION {Blocks(f, g, h) : f \in FirstFrames, g \in Frames, h \in LastFrames}}
    \cup {LzxOf(<<LzxBlock(f \o f \o <<Lit(5), Lit(6)>>)>>, 10, 0, 0, << >>) : f \in FirstFrames}
LongStreams ==
  {LzxOf(<<LzxBlock(f), LzxBlock(g), LzxBlock(g), LzxBlock(h)>>, 14, 12, reset, ref) :
     f \in FirstFrames, g \in Frames, h \in {<<Match(2, 5)>>}, reset \in {0, 1}, ref \in {<< >>, <<31, 32, 33>>}}
    \cup {LzxOf(<<LzxBlock(f), LzxBlock(g)>>, 8, 12, reset, <<31, 32, 33>>) :
            f \in Frames, g \in Frames, reset \in {0, 1}}
Whole8 == <<Lit(5), Lit(6), Lit(7), Lit(8)>>
BadStreams ==
  {LzxOf(<<LzxBlock(<<Lit(5), Match(2, 5), Lit(6)>>)>>, 4, 0, 0, << >>),
   LzxOf(<<LzxBlock(<<Lit(5), Match(4, 1), Lit(6), Match(2, 2)>>)>>, 8, 0, 0, << >>),
   LzxOf(<<LzxBlock(Whole8), LzxBlock(<<Lit(5), Match(6, 1)>>)>>, 8, 0, 0, << >>),
   LzxOf(<<[LzxBlock(<<Lit(5), Match(3, 1)>>) EXCEPT !.length = 3]>>, 4, 0, 0, << >>),
   LzxOf(<<[LzxBlock(Whole8) EXCEPT !.length = 6]>>, 8, 0, 0, << >>),
   LzxOf(<<LzxBlock(Whole8 \o Whole8)>>, 8, 0, 1, << >>),
   LzxOf(<<LzxBlock(Whole8)>>, 8, 0, 0, << >>)}
SomeStreams == GoodStreams \cup LongStreams \cup BadStreams

Lzx == INSTANCE LzxStream WITH
  Frame <- 4, WindowSize <- 8, Margin <- 2, LastTranslated <- 1, E8 <- Call8, Junk <- -99, Amounts <- {3, 5},
  Broken <- Absent, pc <- lzxPc
ASSUME Lzx!LzxAssumption

-------------------------------------------------------------------------------
(* Folders.  Two discs of a title, converted at the same time; any file    *)
(* system whose files and folders lie in folders, and one refusal.         *)
DataFolders == [p \in {"disc1", "disc2"} |-> <<"out", "title", p>>]
FolderPaths == {<<"out">>, <<"out", "title">>, <<"out", "title", "disc1">>, <<"out", "title", "disc2">>}
SomeFileSystems ==
  {f \in [FolderPaths -> {"absent", "dir", "file"}] :
     \A path \in FolderPaths :
       f[path] # "absent" /\ Len(path) > 1 => f[SubSeq(path, 1, Len(path) - 1)] = "dir"}

Refusals == {{}} \cup {{path} : path \in FolderPaths}

-------------------------------------------------------------------------------
huffVars == <<case, huffPc, codes, x, lens, table, pos, nextSymbol, put,
             unread, inputEnd, bits, got>>
lzxVars == <<stream, expected, lzxPc, error, outBytes, endFrame, written, stored,
            frame, framePosn, windowPosn, window, todo, thisRun,
            frameSize, block,
            token, blockRemaining, blockType, R, headerRead, filesize,
            started, curpos>>

discVars == <<part, vars, openVars, xexVars, titleVars, huffVars, lzxVars, folderVars>>

ScanOff ==
  /\ image = Off /\ pc = Off /\ stack = Off /\ ret = Off
  /\ minSector = Off /\ maxSector = Off /\ defaultXex = Off
OpenOff ==
  /\ file = Off /\ openPc = Off /\ sectorBuffer = Off /\ baseOffset = Off
  /\ root = Off
XexOff ==
  /\ xex = Off /\ xexPc = Off /\ xexRet = Off /\ xexMediaId = Off
  /\ executionId = Off /\ body = Off /\ outbuf = Off /\ lzx = Off
  /\ said = Off /\ spa = Off /\ rebuf = Off /\ currPos = Off /\ record = Off
  /\ imagePos = Off /\ lastPos = Off /\ currLen = Off /\ nextLen = Off
TitleOff ==
  /\ title = Off /\ titlePc = Off /\ entry = Off /\ hasIcon = Off
  /\ hasName = Off /\ thumbnail = Off /\ titleThumbnail = Off /\ titleName = Off
  /\ displayName = Off /\ description = Off /\ translation = Off /\ result = Off
HuffOff ==
  /\ case = Off /\ huffPc = Off /\ codes = Off /\ x = Off /\ lens = Off
  /\ table = Off /\ pos = Off /\ nextSymbol = Off /\ put = Off
  /\ unread = Off /\ inputEnd = Off /\ bits = Off /\ got = Off
LzxOff ==
  /\ stream = Off /\ expected = Off /\ lzxPc = Off /\ error = Off /\ outBytes = Off
  /\ endFrame = Off /\ written = Off /\ stored = Off /\ frame = Off
  /\ framePosn = Off /\ windowPosn = Off /\ window = Off /\ todo = Off /\ thisRun = Off
  /\ frameSize = Off /\ block = Off /\ token = Off /\ blockRemaining = Off
  /\ blockType = Off /\ R = Off /\ headerRead = Off /\ filesize = Off
  /\ started = Off /\ curpos = Off

(* No conversion has got to its folder yet. *)
FolderOff ==
  /\ folderFs = [path \in Paths |-> "absent"] /\ denied = {} /\ initialFs = folderFs
  /\ folderAt = [p \in Conversions |-> "exists"] /\ cur = [p \in Conversions |-> 1]

DiscInit ==
  /\ part \in Parts
  /\ \/ part = "scan" /\ Init /\ OpenOff /\ XexOff /\ TitleOff /\ HuffOff /\ LzxOff /\ FolderOff
     \/ part = "open" /\ OpenInit /\ ScanOff /\ XexOff /\ TitleOff /\ HuffOff /\ LzxOff /\ FolderOff
     \/ part = "xex" /\ XexInit /\ ScanOff /\ OpenOff /\ TitleOff /\ HuffOff /\ LzxOff /\ FolderOff
     \/ part = "title" /\ TitleInit /\ ScanOff /\ OpenOff /\ XexOff /\ HuffOff /\ LzxOff /\ FolderOff
     \/ part = "huffman" /\ Huff!Init /\ ScanOff /\ OpenOff /\ XexOff /\ TitleOff /\ LzxOff /\ FolderOff
     \/ part = "lzx" /\ Lzx!Init /\ ScanOff /\ OpenOff /\ XexOff /\ TitleOff /\ HuffOff /\ FolderOff
     \/ part = "folder" /\ FolderInit /\ ScanOff /\ OpenOff /\ XexOff /\ TitleOff /\ HuffOff /\ LzxOff

DiscNext ==
  \/ part = "scan" /\ Next /\ UNCHANGED <<part, openVars, xexVars, titleVars, huffVars, lzxVars, folderVars>>
  \/ part = "open" /\ OpenNext /\ UNCHANGED <<part, vars, xexVars, titleVars, huffVars, lzxVars, folderVars>>
  \/ part = "xex" /\ XexNext /\ UNCHANGED <<part, vars, openVars, titleVars, huffVars, lzxVars, folderVars>>
  \/ part = "title" /\ TitleNext /\ UNCHANGED <<part, vars, openVars, xexVars, huffVars, lzxVars, folderVars>>
  \/ part = "huffman" /\ Huff!Next /\ UNCHANGED <<part, vars, openVars, xexVars, titleVars, lzxVars, folderVars>>
  \/ part = "lzx" /\ Lzx!Next /\ UNCHANGED <<part, vars, openVars, xexVars, titleVars, huffVars, folderVars>>
  \/ part = "folder" /\ FolderNext /\ UNCHANGED <<part, vars, openVars, xexVars, titleVars, huffVars, lzxVars>>

DiscSpec == DiscInit /\ [][DiscNext]_discVars /\ WF_discVars(DiscNext)
-------------------------------------------------------------------------------
(* The type invariants of the parts. *)
DiscTypeOK ==
  CASE part = "scan"    -> TypeOK
    [] part = "open"    -> OpenTypeOK
    [] part = "xex"     -> XexTypeOK
    [] part = "title"   -> TitleTypeOK
    [] part = "huffman" -> Huff!TypeOK
    [] part = "lzx"     -> Lzx!TypeOK
    [] part = "folder"  -> FolderTypeOK

(* LzxHuffman!SymbolsDecoded: what was sent is what is read. *)
SymbolsDecoded == part = "huffman" => Huff!SymbolsDecoded

(* LzxStream!OutputExact and WellFormedDecodes: the output does not depend *)
(* on the calls, and there is no error without one in the stream.          *)
OutputExact == part = "lzx" => Lzx!OutputExact /\ Lzx!WellFormedDecodes

(* Each part gets to its end: the walk out of every directory, the         *)
(* decompressor to all it was asked for or to an error.                    *)
EveryPartEnds ==
  <>CASE part = "scan"    -> pc = "done"
      [] part = "open"    -> openPc \in {"opened", "failed"}
      [] part = "xex"     -> xexPc \in {"done", "crashed"}
      [] part = "title"   -> titlePc \in {"done", "crashed"}
      [] part = "huffman" -> huffPc \in {"done", "empty", "error"}
      [] part = "lzx"     -> error # "ok" \/ Len(written) = stream.length
      [] part = "folder"  -> \A p \in DOMAIN folderAt : folderAt[p] \in {"made", "failed"}
===============================================================================
