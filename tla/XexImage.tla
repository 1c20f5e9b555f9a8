------------------------------- MODULE XexImage -------------------------------
(***************************************************************************)
(* iso2svod's way from the title's executable to its metadata              *)
(* (dumpDefaultXex in isoio.c, xexinfo.c, xexInflate.c): find the fields   *)
(* of the header, undo encryption and compression, and cut the section     *)
(* named after the title out of the memory image.                          *)
(*                                                                         *)
(* Cells are numbers: 0 is Blank, ImageCell(k) the k-th cell of the memory *)
(* image, StreamCell(k) what the decompressor turns into it; any other one *)
(* is a size, or damage.  A body is [key, cells]: decrypted with another   *)
(* key than its own it is noise.  Memory is always to be had.              *)
(***************************************************************************)
EXTENDS Integers, Sequences

CONSTANTS
  Executables,  \* what the disc may hold; see the fields below
  Far,          \* the factor the bytes' wrong order puts on a small count (2^24)
  Sign,         \* the least count whose wrong order is negative (0x80)
  Addresses,    \* 2^32, in cells
  HeadCells,    \* a fragment's next size and hash (0x18)
  Nothing

Blank == 0
ImageCell(k)  == 100 + k
StreamCell(k) == 200 + k

KeyUsed(mfg) == IF mfg THEN "Xex1Key" ELSE "Xex2Key"

(* The parts of an executable the parser uses; image is what the console   *)
(* would load, or Nothing of one that is damaged, layout how it is packed. *)
IsExecutable(x) ==
  /\ {x.found, x.readable, x.magic, x.security, x.exec, x.mfg, x.encrypted} \subseteq BOOLEAN
  /\ x.format \in {"none", "raw", "compressed", "delta"}
  /\ {x.imageSize, x.loadAddress, x.window, x.first} \subseteq Nat
  /\ {x.fields, x.behind} \subseteq Seq(STRING)
  /\ DOMAIN x.sections \subseteq Nat
  /\ \A k \in DOMAIN x.sections : {x.sections[k].address, x.sections[k].size} \subseteq Nat
  /\ Len(x.raw) \in Nat /\ \A k \in 1..Len(x.raw) : {x.raw[k].data, x.raw[k].zero} \subseteq Nat

(* The raw format: behind record k, so many cells of data and of the image *)
(* are used up.                                                            *)
DataEnd(x, k) == IF k = 0 THEN 0 ELSE x.layout.records[k].data
ImageEnd(x, k) == IF k = 0 THEN 0 ELSE x.layout.records[k].image

IsRaw(x) ==
  LET n == Len(x.raw)
  IN  /\ \A k \in 1..n :
           /\ DataEnd(x, k) = DataEnd(x, k - 1) + x.raw[k].data
           /\ ImageEnd(x, k) = ImageEnd(x, k - 1) + x.raw[k].data + x.raw[k].zero
           /\ DataEnd(x, k) <= Len(x.body.cells) /\ ImageEnd(x, k) <= x.imageSize
           /\ \A j \in 1..x.raw[k].data :
                x.image[ImageEnd(x, k - 1) + j] = x.body.cells[DataEnd(x, k - 1) + j]
           /\ \A j \in 1..x.raw[k].zero :
                x.image[ImageEnd(x, k - 1) + x.raw[k].data + j] = Blank
      /\ \A j \in (ImageEnd(x, n) + 1)..x.imageSize : x.image[j] = Blank

(* The compressed format: fragments one behind the other, each with the    *)
(* size of the next in front of its chunks and an empty chunk behind them; *)
(* a chunk is its length and so many cells of the stream.                  *)
IsCompressed(x) ==
  LET data   == x.body.cells
      frags  == x.layout.fragments     \* [at, size]
      chunks == x.layout.chunks        \* [at, len, from, frag]
      m == Len(frags)
      n == Len(chunks)
      NewFragment(k) == k = 1 \/ chunks[k - 1].frag # chunks[k].frag
      Behind(k) == chunks[k].at + 1 + chunks[k].len
  IN  /\ {m, n} \subseteq Nat \ {0}
      /\ frags[1].at = 0 /\ frags[1].size = x.first
      /\ \A f \in 1..m :
           /\ frags[f].at \in 0..(Len(data) - 1) /\ frags[f].size \in Nat
           /\ IF f = m THEN data[frags[f].at + 1] = 0
              ELSE /\ data[frags[f].at + 1] = frags[f + 1].size /\ frags[f + 1].size # 0
                   /\ frags[f + 1].at = frags[f].at + frags[f].size
      /\ chunks[1].from = 0 /\ chunks[1].frag = 1 /\ chunks[n].frag = m
      /\ \A k \in 1..n :
           LET c == chunks[k]
           IN  /\ c.frag \in 1..m /\ c.len \in Nat \ {0} /\ {c.at, c.from} \subseteq Nat
               /\ c.at = IF NewFragment(k) THEN frags[c.frag].at + HeadCells ELSE Behind(k - 1)
               /\ Behind(k) < Len(data) /\ data[c.at + 1] = c.len
               /\ \A j \in 1..c.len : data[c.at + 1 + j] = StreamCell(c.from + j)
               /\ k < n => /\ chunks[k + 1].from = c.from + c.len
                           /\ chunks[k + 1].frag \in {c.frag, c.frag + 1}
               /\ k = n \/ NewFragment(k + 1) => data[Behind(k) + 1] = 0
      /\ chunks[n].from + chunks[n].len = x.imageSize
      /\ \A k \in 1..x.imageSize : x.image[k] = ImageCell(k)

(* getBitSize knows the windows of 2^15 to 2^21 bytes. *)
BitSizeKnown(window) == window \in 15..21

(* An executable with all its parts. *)
HasField(x, field) == \E k \in 1..Len(x.fields) : x.fields[k] = field
IsSound(x) ==
  /\ x.found /\ x.readable /\ x.magic /\ x.security /\ x.exec
  /\ Len(x.fields) < Sign
  /\ HasField(x, "execution") /\ HasField(x, "descriptor") /\ HasField(x, "sections")
  /\ x.encrypted => x.body.key = KeyUsed(x.mfg)
  /\ x.body.cells \in Seq(Nat) /\ x.image \in Seq(Nat)
  /\ Len(x.image) = x.imageSize /\ x.imageSize < Addresses
  /\ \A k \in DOMAIN x.sections :
       /\ x.sections[k].address # 0 /\ x.sections[k].address >= x.loadAddress
       /\ x.sections[k].address - x.loadAddress + x.sections[k].size <= x.imageSize
  /\ \/ x.format = "raw" /\ IsRaw(x)
     \/ x.format = "compressed" /\ BitSizeKnown(x.window) /\ IsCompressed(x)

ASSUME XexAssumption ==
  /\ {Far, HeadCells} \subseteq Nat \ {0} /\ {Sign, Addresses} \subseteq Nat
  /\ \A x \in Executables : IsExecutable(x) /\ (x.image # Nothing => IsSound(x))

VARIABLES
  xex,          \* [found, readable, magic, security, media, fields, behind,
                \*  exec, title, mfg, encrypted, format, raw, window, first,
                \*  body, imageSize, loadAddress, sections, image, layout]
  xexPc,        \* the call main is in; "done" or "crashed"
  xexRet,       \* what dumpDefaultXex returns
  xexMediaId, executionId,
  body,         \* the bytes behind the headers
  currPos,      \* the place in the body
  record, imagePos,           \* the raw record in turn, and where it goes
  lastPos, currLen, nextLen,  \* rebufInData's fragment and the next one's size
  rebuf,        \* the chunks of all fragments
  outbuf,       \* the memory image
  lzx,          \* TRUE if the decompressor returned no error
  said,         \* what was printed of the decompression
  spa           \* what getSpaInfo is called with

rawVars == <<record, imagePos>>
fragmentVars == <<lastPos, currLen, nextLen, rebuf>>
packVars == <<currPos, rawVars, fragmentVars>>
xexVars ==
  <<xex, xexPc, xexRet, xexMediaId, executionId, body, packVars, outbuf, lzx, said, spa>>

Blanks(n) == [k \in 1..n |-> Blank]

(* getXexHeaderField among count pairs.  A field that is missing is looked *)
(* for in what lies behind the directory, and then behind the buffer; 0 is *)
(* NULL.                                                                   *)
Memory == xex.fields \o xex.behind
Places(field) == {k \in DOMAIN Memory : Memory[k] = field}
GetXexHeaderField(field, count) ==
  LET hits == {k \in Places(field) : k <= count}
  IN  IF hits # {} THEN CHOOSE k \in hits : \A j \in hits : k <= j
      ELSE IF count > Len(Memory) THEN Len(Memory) + 1 ELSE 0

(* The count where it is used without bswap32. *)
Unswapped(count) == IF count >= Sign THEN -1 ELSE count * Far

InDirectory(k) == k \in DOMAIN xex.fields

Decrypted(b, key) == IF b.key = key THEN b.cells ELSE Blanks(Len(b.cells))

-------------------------------------------------------------------------------
(* lzxd_decompress as it is called: whole cells until one is missing or    *)
(* damaged; LzxStream has the decompressor itself.                         *)
GoodCells(stream, size) ==
  CHOOSE n \in 0..size :
    /\ \A k \in 1..n : k <= Len(stream) /\ stream[k] = StreamCell(k)
    /\ n = size \/ n = Len(stream) \/ stream[n + 1] # StreamCell(n + 1)

-------------------------------------------------------------------------------
XexInit ==
  /\ xex \in Executables
  /\ xexPc = "dumpDefaultXex" /\ xexRet = FALSE
  /\ xexMediaId = Nothing /\ executionId = Nothing
  /\ body = << >> /\ outbuf = << >> /\ rebuf = << >>
  /\ currPos = 0 /\ record = 1 /\ imagePos = 0 /\ lastPos = 0 /\ currLen = 0 /\ nextLen = 0
  /\ lzx = FALSE /\ said = "" /\ spa = Nothing

Goto(next) == xexPc' = next

(* dumpDefaultXex: the executable was found, with a size, and can be read. *)
DumpDefaultXex ==
  /\ xexPc = "dumpDefaultXex"
  /\ Goto(IF xex.found /\ xex.readable THEN "getXexInfo" ELSE "done")
  /\ UNCHANGED <<xex, xexRet, xexMediaId, executionId, body, packVars, outbuf, lzx, said, spa>>

GetXexInfo ==
  /\ xexPc = "getXexInfo"
  /\ IF xex.magic /\ xex.security
     THEN /\ xexRet' = TRUE
          /\ xexMediaId' = xex.media
          /\ Goto("getXexExecInfo")
     ELSE /\ Goto("done")
          /\ UNCHANGED <<xexRet, xexMediaId>>
  /\ UNCHANGED <<xex, executionId, body, packVars, outbuf, lzx, said, spa>>

GetXexExecInfo ==
  /\ xexPc = "getXexExecInfo"
  /\ LET field == GetXexHeaderField("execution", Len(xex.fields))
     IN  IF field = 0 \/ ~xex.exec
         THEN Goto("done") /\ UNCHANGED executionId
         ELSE executionId' = xex.title /\ Goto("xexGetSpaInfo")
  /\ UNCHANGED <<xex, xexRet, xexMediaId, body, packVars, outbuf, lzx, said, spa>>

(* A pair behind the directory leads anywhere. *)
FindDescriptor ==
  /\ xexPc = "xexGetSpaInfo"
  /\ LET field == GetXexHeaderField("descriptor", Unswapped(Len(xex.fields)))
     IN  IF field = 0
         THEN Goto("done") /\ UNCHANGED <<body, outbuf>>
         ELSE IF ~InDirectory(field)
         THEN Goto("crashed") /\ UNCHANGED <<body, outbuf>>
         ELSE /\ outbuf' = Blanks(xex.imageSize)
              /\ body' = IF xex.encrypted THEN Decrypted(xex.body, KeyUsed(xex.mfg))
                         ELSE xex.body.cells
              /\ Goto(xex.format)
  /\ UNCHANGED <<xex, xexRet, xexMediaId, executionId, packVars, lzx, said, spa>>

(* The raw format: records of data, and zeros behind them. *)
CopyRecord ==
  /\ xexPc = "raw" /\ record <= Len(xex.raw)
  /\ LET rds == xex.raw[record].data
         zds == xex.raw[record].zero
     IN  /\ outbuf' = [k \in 1..xex.imageSize |->
                         IF k \in (imagePos + 1)..(imagePos + rds) THEN body[currPos + k - imagePos]
                         ELSE outbuf[k]]
         /\ currPos' = currPos + rds /\ imagePos' = imagePos + rds + zds
  /\ record' = record + 1
  /\ UNCHANGED <<xex, xexPc, xexRet, xexMediaId, executionId, body, fragmentVars, lzx, said, spa>>

RawParsed ==
  /\ xexPc = "raw" /\ record > Len(xex.raw)
  /\ Goto("xexGetSpaOffset")
  /\ UNCHANGED <<xex, xexRet, xexMediaId, executionId, body, packVars, outbuf, lzx, said, spa>>

(* rebufInData: a fragment starts with the size of the next one, and its   *)
(* chunks end with an empty one.                                           *)
UnpackXexData ==
  /\ xexPc = "compressed"
  /\ currPos' = 0 /\ lastPos' = 0 /\ currLen' = xex.first /\ nextLen' = 1 /\ rebuf' = << >>
  /\ Goto("fragments")
  /\ UNCHANGED <<xex, xexRet, xexMediaId, executionId, body, rawVars, outbuf, lzx, said, spa>>

MoreFragments == currPos < Len(body) /\ nextLen # 0

StartFragment ==
  /\ xexPc = "fragments" /\ MoreFragments
  /\ nextLen' = body[currPos + 1]
  /\ currPos' = currPos + HeadCells
  /\ Goto("chunks")
  /\ UNCHANGED <<xex, xexRet, xexMediaId, executionId, body, rawVars,
                 lastPos, currLen, rebuf, outbuf, lzx, said, spa>>

AtChunk == currPos < Len(body) /\ body[currPos + 1] # 0

CopyChunk ==
  /\ xexPc = "chunks" /\ AtChunk
  /\ LET innerLen == body[currPos + 1]
     IN  /\ rebuf' = rebuf \o SubSeq(body, currPos + 2, currPos + 1 + innerLen)
         /\ currPos' = currPos + 1 + innerLen
  /\ UNCHANGED <<xex, xexPc, xexRet, xexMediaId, executionId, body, rawVars,
                 lastPos, currLen, nextLen, outbuf, lzx, said, spa>>

EndFragment ==
  /\ xexPc = "chunks" /\ ~AtChunk
  /\ currPos' = lastPos + currLen /\ lastPos' = lastPos + currLen /\ currLen' = nextLen
  /\ Goto("fragments")
  /\ UNCHANGED <<xex, xexRet, xexMediaId, executionId, body, rawVars, nextLen, rebuf, outbuf, lzx, said, spa>>

(* It returns TRUE whatever the decompressor returns. *)
DoXexUnpack ==
  /\ xexPc = "fragments" /\ ~MoreFragments
  /\ IF BitSizeKnown(xex.window)
     THEN LET n == GoodCells(rebuf, xex.imageSize)
          IN  /\ outbuf' = [k \in 1..xex.imageSize |-> IF k <= n THEN ImageCell(k) ELSE Blank]
              /\ lzx' = (n = xex.imageSize)
              /\ said' = "success!"
              /\ Goto("xexGetSpaOffset")
     ELSE said' = "failed!" /\ Goto("done") /\ UNCHANGED <<outbuf, lzx>>
  /\ UNCHANGED <<xex, xexRet, xexMediaId, executionId, body, packVars, spa>>

OtherFormat ==
  /\ xexPc \in {"none", "delta"}
  /\ Goto("done")
  /\ UNCHANGED <<xex, xexRet, xexMediaId, executionId, body, packVars, outbuf, lzx, said, spa>>

(* xexGetSpaOffset takes the first section of that name.                   *)
NamedSections == {k \in DOMAIN xex.sections : xex.sections[k].name = executionId}
FirstNamed ==
  xex.sections[CHOOSE k \in NamedSections : \A j \in NamedSections : k <= j]

(* Mutant of SpaOffset: the address is taken for an offset. *)
SpaAddress(s) == s.address

SpaOffset(s) == (s.address - xex.loadAddress) % Addresses

XexGetSpaOffset ==
  /\ xexPc = "xexGetSpaOffset"
  /\ LET field == GetXexHeaderField("sections", Unswapped(Len(xex.fields)))
     IN  IF field # 0 /\ ~InDirectory(field)
         THEN Goto("crashed") /\ UNCHANGED spa
         ELSE /\ Goto("done")
              /\ spa' = IF field = 0 \/ NamedSections = {} \/ FirstNamed.address = 0
                           \/ (SpaOffset(FirstNamed) + FirstNamed.size) % Addresses > xex.imageSize
                        THEN Nothing
                        ELSE SubSeq(outbuf, SpaOffset(FirstNamed) + 1,
                                    SpaOffset(FirstNamed) + FirstNamed.size)
  /\ UNCHANGED <<xex, xexRet, xexMediaId, executionId, body, packVars, outbuf, lzx, said>>

XexNext ==
  \/ DumpDefaultXex \/ GetXexInfo \/ GetXexExecInfo \/ FindDescriptor
  \/ CopyRecord \/ RawParsed \/ OtherFormat
  \/ UnpackXexData \/ StartFragment \/ CopyChunk \/ EndFragment \/ DoXexUnpack
  \/ XexGetSpaOffset

XexSpec == XexInit /\ [][XexNext]_xexVars /\ WF_xexVars(XexNext)
-------------------------------------------------------------------------------
(* Type invariant of the parser. *)
XexTypeOK ==
  /\ xexPc \in {"dumpDefaultXex", "getXexInfo", "getXexExecInfo", "xexGetSpaInfo", "none", "raw",
             "compressed", "fragments", "chunks", "delta", "xexGetSpaOffset", "done", "crashed"}
  /\ xexRet \in BOOLEAN /\ lzx \in BOOLEAN
  /\ said \in {"", "success!", "failed!"}
  /\ outbuf = << >> \/ Len(outbuf) = xex.imageSize
  /\ record \in 1..(Len(xex.raw) + 1) /\ {currPos, imagePos, lastPos, currLen} \subseteq Nat
  /\ spa # Nothing => \A k \in DOMAIN spa : spa[k] \in Nat

(* For an executable with all its parts, however it is packed, getSpaInfo  *)
(* is called with the cells the section of the title's name has in the     *)
(* image the console would load, and with all of them.  xex.image is that  *)
(* image; it is absent of executables whose body or header is damaged.     *)
TitleDataExact ==
  (xexPc \in {"done", "crashed"} /\ xex.image # Nothing /\ NamedSections # {}) =>
    LET first == FirstNamed.address - xex.loadAddress
    IN  spa = [k \in 1..FirstNamed.size |-> xex.image[first + k]]

(* "success!" (xexinfo.c:223) is printed of images that were decompressed  *)
(* to their end.                                                           *)
UnpackTruthful == said = "success!" => lzx
===============================================================================
