------------------------------ MODULE SvodWriter ------------------------------
(***************************************************************************)
(* One process of iso2svod after another, writing into one output folder.  *)
(*                                                                         *)
(* Every step is one library call of the program together with what the    *)
(* program does with its result: creating a data file, filling a block     *)
(* from the disc image, writing the block, rewriting the level-1 table of  *)
(* a file, chaining the tables backwards, and at last dumping the package  *)
(* header.  The process can be killed between any two of them and started  *)
(* again.  A hash is the symbolic term of what it is a hash of.            *)
(***************************************************************************)
EXTENDS SvodLayout, Sequences

CONSTANTS
  ImageSizes,   \* even numbers maxSector - minSector an image may have
  Faults,       \* kinds of calls that may fail
  MaxRuns,      \* processes started in a behaviour
  Crashes,      \* TRUE if a process may be killed
  Blank         \* 0x1000 zero bytes, or a hash of zero bytes

(* "iso": opening or parsing the image, "mkdir": creating the folder,      *)
(* "create": startNewFile, "read": image data, "headread": the XISO header *)
(* unit, "write": a block, "rewrite": a level-1 table, "reopen":           *)
(* getHeaderData, "dump": dump_buffer_hex of the package header            *)
FaultKinds == {"iso", "mkdir", "create", "read", "headread", "write",
               "rewrite", "reopen", "dump"}

ASSUME WriterAssumption ==
  /\ ImageSizes \subseteq Nat /\ \A s \in ImageSizes : s > 0 /\ s % 2 = 0
  /\ Faults \subseteq FaultKinds
  /\ MaxRuns \in Nat
  /\ Crashes \in BOOLEAN
  /\ Blank \notin Nat

VARIABLES
  \* the output folder
  outDir,      \* baseOutPath exists
  files,       \* Data0000, Data0001, ... in it
  package,     \* the header dumped to headerPath
  \* the process
  pc,          \* the call it makes next
  retVal,      \* how the last finished process ended
  runs,        \* processes started so far
  sectors,     \* maxSector - minSector of the image it converts
  sectorsRem, curFileNum, curBlock, curOff,
  datablock,   \* units and level-0 hashes of the block being filled
  sectorsToHash,
  lv1hash,     \* level-1 table in memory
  fixNum, hashInfo,   \* fixIsoHeaders: next file, hash of the one after it
  xMeta        \* the header fields filled in so far

folder == <<outDir, files, package>>
body   == <<sectorsRem, curFileNum, curBlock, curOff, datablock,
            sectorsToHash, lv1hash>>
fix    == <<fixNum, hashInfo>>
vars   == <<folder, pc, retVal, runs, sectors, body, fix, xMeta>>

Sha(x) == <<"sha", x>>

(* Bytes of a data file that no complete fwrite produced. *)
Torn == << >>

(* No package header in the output folder. *)
NoPackage == << >>

ZeroTable == [entries |-> [b \in 1..BlocksPerFile |-> Blank], next |-> Blank]
ZeroBlock == [data   |-> [u \in 1..UnitsPerBlock |-> Blank],
              hashes |-> [u \in 1..UnitsPerBlock |-> Blank]]
ZeroMeta  == [DataFiles |-> 0, DataFilesSize |-> 0,
              NumberOfDataBlocks |-> 0, FirstFragmentHash |-> Blank]

Outcomes(kind) == IF kind \in Faults THEN BOOLEAN ELSE {TRUE}

Goto(label) == pc' = label

Exit(how) == pc' = "idle" /\ retVal' = how

-------------------------------------------------------------------------------
(* main up to openIsoFile: fresh globals, an image of some size. *)
Start ==
  /\ pc = "idle" /\ runs < MaxRuns
  /\ Goto("open")
  /\ runs' = runs + 1
  /\ retVal' = "running"
  /\ \E s \in ImageSizes : sectors' = s
  /\ sectorsRem' = 0 /\ curFileNum' = 0 /\ curBlock' = 0 /\ curOff' = 1
  /\ datablock' = ZeroBlock /\ sectorsToHash' = 0 /\ lv1hash' = ZeroTable
  /\ fixNum' = 0 /\ hashInfo' = Blank
  /\ xMeta' = ZeroMeta
  /\ UNCHANGED folder

OpenIsoFile ==
  /\ pc = "open"
  /\ \E ok \in Outcomes("iso") :
       IF ok
       THEN /\ Goto("prepare")
            /\ xMeta' = [xMeta EXCEPT
                 !.DataFiles = DataFiles(sectors),
                 !.DataFilesSize = DataFilesSize(sectors),
                 !.NumberOfDataBlocks = NumberOfDataBlocks(sectors)]
            /\ UNCHANGED retVal
       ELSE Exit("failed") /\ UNCHANGED xMeta
  /\ UNCHANGED <<folder, runs, sectors, body, fix>>

(* A folder left by an earlier process is refused. *)
PrepareOutputPath ==
  /\ pc = "prepare"
  /\ \E ok \in Outcomes("mkdir") :
       IF ~outDir /\ ok
       THEN /\ outDir' = TRUE
            /\ sectorsRem' = sectors
            /\ Goto("newfile")
            /\ UNCHANGED retVal
       ELSE Exit("failed") /\ UNCHANGED <<outDir, sectorsRem>>
  /\ UNCHANGED <<files, package, runs, sectors, curFileNum, curBlock, curOff,
                 datablock, sectorsToHash, lv1hash, fix, xMeta>>

(* startNewFile: create Data<curFileNum> and write a dummy table.  In the  *)
(* first one the XISO header unit is read too, its result not looked at.   *)
StartNewFile ==
  /\ pc = "newfile"
  /\ \E ok \in Outcomes("create"), head \in Outcomes("headread") :
       IF ok
       THEN /\ lv1hash' = ZeroTable
            /\ files' = Append(files, [table |-> ZeroTable, blocks |-> << >>])
            /\ datablock' = IF curFileNum = 0 /\ head
                            THEN [datablock EXCEPT !.data[1] = 0]
                            ELSE datablock
            /\ Goto("fill")
            /\ UNCHANGED retVal
       ELSE Exit("failed") /\ UNCHANGED <<lv1hash, files, datablock>>
  /\ UNCHANGED <<outDir, package, runs, sectors, sectorsRem, curFileNum,
                 curBlock, curOff, sectorsToHash, fix, xMeta>>

-------------------------------------------------------------------------------
(* One turn of the while loop up to the write.  Unit k of the image is the *)
(* integer k; the next unread one follows from the sectors left.           *)
NextUnit == ((sectors - sectorsRem) \div 2) + 1

(* Mutant of SectorsToRead: a block is always filled up. *)
SectorsToReadUnclamped == 2 * (UnitsPerBlock - curOff)

SectorsToRead ==
  LET room == 2 * (UnitsPerBlock - curOff)
  IN  IF sectorsRem >= room THEN room ELSE sectorsRem

(* readIsoData, doBlockHashes and doLevel1Hash on the block in memory. *)
FillBlock ==
  /\ pc = "fill"
  /\ \E ok \in Outcomes("read") :
       IF ok
       THEN LET read == (SectorsToRead + 1) \div 2
                n    == read + curOff
                data == [u \in 1..UnitsPerBlock |->
                          IF u > curOff /\ u <= n
                          THEN NextUnit + (u - curOff - 1)
                          ELSE datablock.data[u]]
                hash == [u \in 1..UnitsPerBlock |->
                          IF u <= n THEN Sha(data[u]) ELSE datablock.hashes[u]]
            IN  /\ sectorsToHash' = n
                /\ datablock' = [data |-> data, hashes |-> hash]
                /\ lv1hash' = [lv1hash EXCEPT !.entries[curBlock + 1] = Sha(hash)]
                /\ curOff' = 0
                /\ curBlock' = curBlock + 1
                /\ sectorsRem' = sectorsRem - SectorsToRead
                /\ Goto("write")
                /\ UNCHANGED retVal
       ELSE /\ Exit("failed")
            /\ UNCHANGED <<sectorsToHash, datablock, lv1hash, curOff, curBlock,
                           sectorsRem>>
  /\ UNCHANGED <<folder, runs, sectors, curFileNum, fix, xMeta>>

Last == Len(files)

(* Mutant of DatablockAfterWrite: the buffer is reused as it is. *)
DatablockKept == datablock

(* memset(&datablock, 0, ...) *)
DatablockAfterWrite == ZeroBlock

(* The hash unit and the sectorsToHash data units the block has. *)
BlockOnDisk == [hashes |-> datablock.hashes,
                data   |-> SubSeq(datablock.data, 1, sectorsToHash)]

(* A failed fwrite is printed and otherwise ignored. *)
WriteBlockToFile ==
  /\ pc = "write"
  /\ \E ok \in Outcomes("write") :
       files' = [files EXCEPT ![Last].blocks =
                   Append(@, IF ok THEN BlockOnDisk ELSE Torn)]
  /\ datablock' = DatablockAfterWrite
  /\ Goto(IF curBlock = BlocksPerFile \/ sectorsRem = 0 THEN "seal" ELSE "fill")
  /\ UNCHANGED <<outDir, package, retVal, runs, sectors, sectorsRem, curFileNum,
                 curBlock, curOff, sectorsToHash, lv1hash, fix, xMeta>>

(* Mutant of BodyWritten: a second file is not enough. *)
BodyWrittenFromThree == curFileNum > 1

(* isoToSvod's test of what writeIsoBody returns after the last file. *)
BodyWritten == curFileNum # 0

(* writeHeaderToFile, its result ignored, and fclose. *)
SealFile ==
  /\ pc = "seal"
  /\ \E ok \in Outcomes("rewrite") :
       files' = IF ok THEN [files EXCEPT ![Last].table = lv1hash] ELSE files
  /\ curBlock' = 0
  /\ \/ /\ sectorsRem # 0
        /\ curFileNum' = curFileNum + 1
        /\ Goto("newfile")
        /\ UNCHANGED <<retVal, fixNum>>
     \/ /\ sectorsRem = 0 /\ BodyWritten
        /\ fixNum' = curFileNum
        /\ Goto("fix")
        /\ UNCHANGED <<retVal, curFileNum>>
     \/ /\ sectorsRem = 0 /\ ~BodyWritten
        /\ Exit("failed")
        /\ UNCHANGED <<curFileNum, fixNum>>
  /\ UNCHANGED <<outDir, package, runs, sectors, sectorsRem, curOff, datablock,
                 sectorsToHash, lv1hash, hashInfo, xMeta>>

-------------------------------------------------------------------------------
(* Mutant of Chained: the link to the next file stays empty. *)
Unchained(read) == read

Chained(read) ==
  IF fixNum # curFileNum THEN [read EXCEPT !.next = hashInfo] ELSE read

(* Mutant of FileBefore: the loop does not count down. *)
SameFile == fixNum

FileBefore == fixNum - 1

(* One turn of fixIsoHeaders: the table of file fixNum, which for every    *)
(* file but the last receives the hash of the next file's table.           *)
FixHeader ==
  /\ pc = "fix" /\ fixNum >= 0
  /\ \E ok \in Outcomes("reopen"), wr \in Outcomes("rewrite") :
       IF ok
       THEN LET table == Chained(files[fixNum + 1].table)
            IN  /\ lv1hash' = table
                /\ hashInfo' = Sha(table)
                /\ files' = IF fixNum # curFileNum /\ wr
                            THEN [files EXCEPT ![fixNum + 1].table = table]
                            ELSE files
                /\ fixNum' = FileBefore
                /\ UNCHANGED pc
       ELSE Goto("dump") /\ UNCHANGED <<lv1hash, hashInfo, files, fixNum>>
  /\ UNCHANGED <<outDir, package, retVal, runs, sectors, sectorsRem, curFileNum,
                 curBlock, curOff, datablock, sectorsToHash, xMeta>>

(* Past the loop the hash of the first table goes into the descriptor. *)
FixDone ==
  /\ pc = "fix" /\ fixNum < 0
  /\ xMeta' = [xMeta EXCEPT !.FirstFragmentHash = hashInfo]
  /\ Goto("dump")
  /\ UNCHANGED <<folder, retVal, runs, sectors, body, fix>>

(* finalizeHeaderFile and dump_buffer_hex, whose failure is only printed. *)
DumpHeader ==
  /\ pc = "dump"
  /\ \E ok \in Outcomes("dump") : package' = IF ok THEN xMeta ELSE package
  /\ Exit("ok")
  /\ UNCHANGED <<outDir, files, runs, sectors, body, fix, xMeta>>

-------------------------------------------------------------------------------
(* The process is killed: the folder keeps what it holds. *)
Kill ==
  /\ Crashes /\ pc # "idle"
  /\ Exit("killed")
  /\ UNCHANGED <<folder, runs, sectors, body, fix, xMeta>>

(* Between two processes the user may delete the whole output. *)
RemoveOutput ==
  /\ pc = "idle" /\ outDir
  /\ outDir' = FALSE /\ files' = << >> /\ package' = NoPackage
  /\ UNCHANGED <<pc, retVal, runs, sectors, body, fix, xMeta>>

Init ==
  /\ outDir = FALSE /\ files = << >> /\ package = NoPackage
  /\ pc = "idle" /\ retVal = "none" /\ runs = 0
  /\ sectors = 0 /\ sectorsRem = 0
  /\ curFileNum = 0 /\ curBlock = 0 /\ curOff = 1
  /\ datablock = ZeroBlock /\ sectorsToHash = 0 /\ lv1hash = ZeroTable
  /\ fixNum = 0 /\ hashInfo = Blank
  /\ xMeta = ZeroMeta

Program ==
  \/ OpenIsoFile \/ PrepareOutputPath \/ StartNewFile \/ FillBlock
  \/ WriteBlockToFile \/ SealFile \/ FixHeader \/ FixDone \/ DumpHeader

Next == Start \/ Program \/ Kill \/ RemoveOutput

Spec == Init /\ [][Next]_vars

(* The operating system keeps running the process. *)
FairSpec == Spec /\ WF_vars(Program)
===============================================================================
