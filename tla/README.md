# A TLA+ model of XeBuild's reboot core and tools

The repository holds the pieces from which the XeBuild NAND image builder is put
together: the *reboot core* that runs on the console between the exploit and the
boot loaders (`src/reboot_core`), the command line tools that prepare and check
its input (`src/tools`), and assembler sources of the patch sets
(`src/patches`). The builder itself is not in the repository.

This directory models the parts that have behaviour worth checking, as TLA+
modules; TLC checks them on small instances, and TLAPS proves their safety for
instances of every size: all of it for the reboot core, the SVOD writer, su_check and
the four smaller tools, and for iso2svod's opening and scan, executables, metadata and
folders; of the decompressor that it stays in its window.

## 1. Inventory

| component | source | state it keeps | operations |
|---|---|---|---|
| thread rendezvous and hand-off | `reboot_core/main.c`, `startup2.S`, `cache.S` | exception vectors, trampolines, `processors_online`, the hold word at `primary_hold_addr`, `secondary_hold_addr`, XeLL in RAM | `_start`, `place_jump`, `flush_code`, kick by interrupt, `hold_all_but_core_0`, `idlecorewait`, `fastsleep`, `startXell`, `corecont` |
| boot choice | `reboot_core/main.c` | options, SMC FIFO and pending request, the chosen program | option defaults, `smc_send`, `smc_receive`, `getSmc`, the choice in `start` |
| 1BL, patch engine, fuses | `reboot_core/main.c` | low memory, three remote patch slots, fuses, position in the patch list | copy of the 1BL, both loops of `patchEngine`, fuse copy |
| payload loader | `reboot_core/payload.S` | none | one copy loop |
| iso2svod: opening and scan | `iso2svod/source/isoio.c` | base offset, recursion stack, `minSector`, `maxSector`, the last `default.xex` | `isoOpen`, `getXgdBaseOffset`, `getDiskEnd`, `getMaxDirectory` |
| iso2svod: SVOD writer and `main` | `isoio.c`, `main.c` | output folder, data files, hash tables, buffers, header fields | `calcDataFileSizes`, `startNewFile`, `writeIsoBody`, `fixIsoHeaders`, `finalizeHeaderFile` |
| iso2svod: executables | `xexinfo.c`, `xexInflate.c` | decrypted and inflated image | header lookup, block unpacking |
| iso2svod: metadata | `spa.c` | strings, achievements, title name | XDBF lookup, locale choice |
| su_check | `tools/su_check/su_check` | counters, manifest, copied files | STFS hash walk, per-file verdict |
| opt_idx | `tools/opt_idx/opt_idx` | index of optional patches | collection, de-duplication, output |
| ini_creator | `tools/ini_creator/ini_creator` | file classes per section | magic checks, section output |
| dl_patches | `tools/dl_patches` | one container | header and data of each patch |
| iso2svod: helpers | `iso2svod/source/util.c`, `main.c` | the output folders | `isDirExist`, `createDirRecursive`, `prepareOutputPath` |
| iso2svod: lzx | `iso2svod/source/mspack` | window, offset queue, code tables, bit buffer | `lzxd_decompress`, `make_decode_table`, `lzxd_read_lens` |
| scriptsetc | `tools/scriptsetc/flash_config.c` | the geometry record `sfc` | `SFC_init` |
| bin2c2, patches, `_build` | | none | formatting and data |

How they interact. On the console thread 0 runs `start()`; it shares memory with
five other hardware threads (code it plants in their exception vectors, a byte
each in `processors_online`, two hold words) and exchanges messages with the
SMC. Whatever it boots then shares the hold word and the patch slots with the
boot loaders that follow. In `iso2svod` the scan of the disc hands a sector range
to the writer, the executable and the metadata fill the package header, and the
header is written last. The other tools are separate processes that share only
files.

What is hard in this code, and what would make each component correct:

* *rendezvous*: weakly ordered stores into live code, a barrier without a
  timeout, two hold words that survive from the last boot. Correct when no
  thread runs half-written code, none is left in code that gets overwritten, and
  all of them continue in the program that was chosen.
* *boot choice*: answers and unasked messages share one FIFO. Correct when the
  decision depends on the answer alone and always comes.
* *patch engine*: end markers are ordinary words, lists may fill their slots.
  Correct when the 1BL has exactly its patches and each later stage its list.
* *scan*: recursion over tables with padding, bytes and sectors in one formula.
  Correct when the walk ends and every file lies in the range.
* *SVOD writer*: header counts computed before writing, a hash chain closed
  backwards, buffers reused, calls that fail, kills. Correct when a published
  header roots a complete image that verifies.
* *executable, metadata*: sizes inside the data say where the next size is, keys
  and formats have many refusals, texts of several languages and sources fill one
  header. Correct when the title's section is cut out whole and no field of the
  header belongs to something else.
* *decompressor*: a window that wraps and outlives frames, output asked for in
  pieces, bits behind the end of the input. Correct when the output is what was
  compressed, however it is asked for.
* *output folder*: discs of a title share folders and may be converted at once.
  Correct when each gets a folder that was not there.
* *su_check, opt_idx, ini_creator, dl_patches*: one failing step among several;
  counters and sizes at their limits; overlapping classes. Correct when what they
  write or report is about exactly the files they were given.

`PROJECT.json` lists the hazards one by one, each at its line.

## 2. Modules

### Reboot core

`RebootCore` is the rendezvous. The path of thread 0 through `start()` is `pc0`:

| action | code |
|---|---|
| `ClearBss` | the `memset` of the BSS that `start()` begins with |
| `StoreTrampoline`, `FlushTrampoline`, `StoreBranch`, `FlushVector` | `place_jump`, one store or one `flush_code` a step, once for each entry of `exc[]` |
| `Kick`, `AwaitAllOnline` | the interrupt to the other threads, the spin on `get_online_processors() == 0x3F` |
| `CopyXell`, `SetSecondaryHold` | the XeLL path up to `return 1` |
| `BootFirmware`, `FirmwareRelease` | the 1BL path up to the jump, and the later release by the booted firmware (external) |

and the others' path is `pc[s]`: `TakeException` (in the old hypervisor, at any
time a vector has the branch), `Announce` and `ClearHold` (the two stores of
`hold_all_but_core_0`, in the order of the code), `Continue` and `SleepFirst`
(the two exits of `idlecorewait`), `StartXell`.

Memory is modelled twice: `own` as thread 0 sees it, `seen` as the other threads
do. A store goes to `own`; `Propagate` lets one location at a time through in any
order; only the `sync` in `flush_code` orders them. Of code it matters only which
of its words are new, so memory is four sets. What a thread executes when it
takes a vector depends on `seen` at that moment: a trampoline that is not
complete sends it to `wild`. The hold word and `secondary_hold_addr` start with
any value.

One assumption about time: `fastsleep` spins 65536 turns before it jumps to XeLL,
and there is no barrier between the copy of XeLL and the flag. `StoresDrained`
states what the code relies on, that the stores made before the flag arrive
within the spin. Without it `NoWildFetch` is false.

`CoreHandoff` is the abstract specification: threads are *old*, *held*, or in the
*xell* or the *firmware*; a single decision is taken while all are held. 
`RebootProperties` states the properties and the refinement mapping,
`RebootProofs` the theorems.

`BootChoice` is the decision of `start()`: option defaults, question and answer,
`getSmc`'s loop over a FIFO in which the SMC also puts events, and a disc tray
that may move until its state is read. `PatchEngine` is the copy of the 1BL,
both loops of `patchEngine` (one patch, one word a step) and the fuse copy. Its
constant `Lists` has patch areas: words, with the lists they are the layout of
(`IsArea`); the properties compare memory with the lists, not with the words the
engine reads. `StartCore` is `start()` behind the rendezvous: the choice, and the
firmware's way into memory as its `else` branch. `StartProofs` has the theorems
about both.

### iso2svod

`SvodLayout` is the geometry, in units of 0x1000 bytes: the functions
`calcDataFileSizes` and `calcDataBlocks`. `SvodWriter` is a process from `main`
to its end: every step is one library call with what the program does with its
result. Any kind of call in `Faults` may fail, the process can be killed between
two steps, a later process finds what an earlier one left, and between two
processes the user may delete the output. Contents of a unit are its index, a
hash is the term `<<"sha", x>>`; so a wrong order, a lost unit or a stale link
shows up as a different term. `SvodPackage` is the abstract specification: a
folder is absent, being built, or published with an image. `SvodProperties`
defines what a reader that trusts only the header obtains (`Delivered`) and the
refinement mapping.

`IsoOpen` is `isoOpen` with `getXgdBaseOffset`: three places of the volume
descriptor, tried in turn with different conditions. `IsoScan` is the directory
walk with an explicit stack in place of the recursion; tables are sequences of
slots that hold an entry or padding. `WellFormed` says what an image is.
`ScanProofs` has the theorems about both, and `SvodProofs` those about geometry, writer
and package.

`XexImage` goes from the executable found by the walk to the metadata: the
header's fields (`FindDescriptor`, with the count that is used without its bytes
being swapped), key and decryption, the records of the raw format (`CopyRecord`),
the loops of `rebufInData` over fragments (`StartFragment`, `EndFragment`) and their
chunks (`CopyChunk`), `DoXexUnpack`, and the section named after the title
(`XexGetSpaOffset`). `IsRaw` and `IsCompressed` say how an image is packed, with the
place of each record, fragment and chunk; the parser looks at none of these places. Decrypted with a wrong key a body is noise; what the
decompressor makes of a stream is one step here. `SpaMetadata` is `getSpaInfo`:
one action for each resource, each kind of text in turn, the end of a name that
fills its room, the title name taken from a translation where it is missing.

The decompressor is modelled at two levels. `LzxStream` is `lzxd_decompress` over
tokens: a call that takes less than a frame (`Call`), frames and blocks, literals
and matches that copy across the window's edge (`CopyMatch`), the queue of
repeated offsets, the translation of call instructions in the output only
(`FinishFrame`), the errors. `expected` is a decompressor that keeps everything it
ever put out and has no window, no frames and no calls. `LzxHuffman` is what lies
below: code lengths as changes to the lengths before (`lzxd_read_lens`), the table
with its second level of nodes, the bit buffer, and the one word of zeros behind
the input. `LzxProofs` has the theorem about the window.

`OutputFolder` is `prepareOutputPath` with the functions of `util.c` it calls, for
several processes on one file system: check, one `mkdir` a backslash, check.
`TitleProofs` has its theorem, and those about `XexImage` and `SpaMetadata`.

### su_check

`StfsWalk` is `conCheckHashes`: offsets are blocks, a block is a record of its
hash entries and its level word, a hash is a term. `EndOfEntries` and
`CheckBlock` are the two branches of the loop over one table, `LastTable` and
`NextTable` what follows that loop; `NextTable` recognises the main table by its
level word and asks it for the table it steps to.

`SuCheck` is `main` around it. `Start` is everything up to the first item
(arguments, the folder and `makeDefaultDirs`, manifest header); `CheckPackage` is the case without a
manifest; `CheckFlash`, `CheckContainer`, `CheckFile` and `SkipItem` are the cases
of `verifyManifestItems`, with `OpenContainer` for the reading part of
`verifyContainer` and `ContainerDone` for its rest; `Finish` copies the manifest.
What the walk calls is the walk itself: `Walk` is a step of `StfsWalk`.

What is copied goes where `outfilepath` says, a global that every item fills in front
of its check (`OutPath`) and `dump_buffer_hex` is given behind it (`Dump`). `dirs` are the
folders there are: the one for `FFFE07DF\00008000` is made at the start, that of a
plain file in front of its check, and that of a container of other ids never; any of
these calls may fail and nobody looks. `copied` is what has been written and where,
`unopened` the items whose file could not be opened, which is all the user is told.

`SuProperties` builds containers the way the format has them (`Whole`) and states
what a clean report promises against those, not against what the walk looked at.
`MaybeDamaged` says which containers may lie in a folder. `SuProofs` has the theorems.

### The other tools

`OptIndex` is `opt_idx`, in both builds: load the base index, one action for each
file of the folder, write the index; a second call works on what the first wrote.
Files are sequences of words, so that writing and loading are each other's test.
`ReadBehind` is a patch file of one word, whose bound `len-8` wraps.

`FlashIni` is `ini_creator`: one action for each kind of file, then one for each
section in the order of the ini file. A loader shown in a section is marked, which
is all that keeps it out of the next. Where a file belongs is taken from the comments
at the end of `main.c`, not from the bounds the code uses (`DocumentedSection`). `PatchContainer` is `dl_patches`: the items
with their second names, the header of those present, their contents.
`SfcGeometry` is `SFC_init`, a pure function of one register. `ToolProofs` has the
theorems about all four.

### Modules for TLC

`MCReboot`, `MCSvod` and `MCStart` extend the modules they are about. `MCDisc`
and `MCTools` each hold several programs, or parts of one, that do not run at the
same time: a behaviour is that of one of them, chosen in the initial state, and
the others' variables are `Off`. Of the modules they extend (`IsoScan`, `IsoOpen`, `XexImage`, `SpaMetadata` and `OutputFolder`; `SuProperties`,
`PatchContainer`, `OptIndex`, `FlashIni` and `SfcGeometry`) the properties are checked as they
stand, and hold of the other programs' behaviours, whose variables are not at a point
the property speaks of; those of the instances (`LzxHuffman`, `LzxStream`)
are restricted to the behaviours they are about. In the modules of the programs
the definitions under *Mutant of ...* are deliberate errors; each property
has one that breaks it, named in `PROJECT.json`.

## 3. Runs

| run | checks | states |
|---|---|---|
| `reboot` | `NoWildFetch`, `NobodyInOverwrittenCode`, `ReleaseFollowsChoice`, refinement of `CoreHandoff`, `AllCaught`, `XellGetsAllThreads` | 29315 |
| `reboot_lost_release` | `FirmwareGetsAllThreads` is violated | |
| `start` | boot choice: `XellAsConfigured`, `ChoiceMade`; patch engine: `SocPatched`, `ListsInPlace`, `FusesBelowHoldWord`, `FirmwareStarted` | 368 thousand |
| `disc` | opening: `OpensAtVolume`; walk: `DataCovered`, `ExecutableFound`; executable: `TitleDataExact`; metadata: `MetadataExact`; decompressor: `SymbolsDecoded`, `OutputExact`; folders: `FolderOwned`; all: `EveryPartEnds` | 155 thousand |
| `scan_empty_dir`, `unpack_failed` | `EveryPartEnds` on a directory of padding, `UnpackTruthful` on damaged data: violated | |
| `svod_package` | refinement of `SvodPackage`, `HeaderTruthful`, `UnusedSlotsBlank`, `EveryProcessEnds`, `CompleteBodyIsPublished`, under failing calls and kills | 11575 |
| `svod_single`, `svod_short_write` | `CompleteBodyIsPublished` for one data file, `HeaderTruthful` with failing writes: violated | |
| `tools` | su_check: `WholeContainersPass`, `AcceptedIsIntact`, `SummaryCounts`, `CopyIsExact`; opt_idx: `IndexExact`; ini_creator: `IniExact`; dl_patches: `ContainerExact`; scriptsetc: `GeometryExact`; all: `EveryToolEnds` | 90 thousand |
| `su_last_block`, `ini_misplaced` | `AcceptedIsIntact` for a third table of one block, `ListedAsDocumented` for a loader of a whole thousand and a refused one: violated | |

Deadlock is not checked: all these programs stop.

Bounds, and why they are enough for TLC's part:

* `reboot` has the console's five secondaries, two vectors (one being replaced
  while the other already works), three trampoline words and two XeLL words (a
  store can overtake another, and one in between). The proofs remove these bounds
  for safety.
* `reboot_lost_release` needs two secondaries: one announced and slow, one not.
* `start`: three buttons (the two configured ones and the reason may be
  equal or different in every way), all option bytes, two unasked messages, with empty
  lists; and all lists with one setting and no such messages. Four
  words of low memory, up to two patches of up to two
  words (overlapping, empty, equal to the end marker), slots of five words that
  lists leave empty, part-fill or fill.
* `svod_package` has three units a block and two blocks a file, and 12 sizes that
  cover every fill of the last block and of the last file for two and three files
  (one file is `svod_single`'s case); three processes, so that one meets what two others left.
* `disc`, the walk: all root tables of up to two sectors, the second one part full,
  over five kinds of entry, with every one-sector subdirectory over three.
* `disc`, opening: a descriptor with or without its tail, or none, at each place,
  in files that end in front of and behind each of them.
* `disc`, executables: an image of five cells with the title's section anywhere in
  it; raw, or compressed in one to three fragments of one or two chunks, so that
  every size is read behind another; each key; each field missing, and the
  reasons to refuse one. `unpack_failed` damages each cell.
* `disc`, metadata: names and texts shorter than, as long as and longer than their
  room, in two of three languages, present in any of three sources.
* `disc`, decompressor: two and a half frames of four cells in a window of two
  frames, every kind of match in front of, behind and across the window's edge,
  four blocks in streams of up to 14 cells, a block boundary at and between
  frames, a third frame that is no longer translated, reference data, resets, calls
  for three cells, five cells and the rest;
  broken streams of every kind. For the bits: every complete code of five symbols
  with lengths up to four, of which two are looked up at once.
* `disc`, folders: two discs of one title, every file system over the four paths,
  one refused folder.
* `tools`, su_check: three entries a table and up to three tables, so that the main
  table, the table after it and the ones after that are all met, with every fill
  of the last table but a single block behind a third one (that is
  `su_last_block`). Each container is whole or has one damage: any block
  replaced, any entry of any table but the first zeroed or replaced, or any entry
  of the first replaced.
  Manifests of two items have every pair of item kinds and conditions, going to the same
  place or to two, with folders that are there, made, refused or never made, and
  manifest headers are wrong in every way. Left out are zeroed entries of the
  first table (see section 6) and a container cut short.
* `tools`, opt_idx: two patch files of up to two patches that share all, some or no
  places, and a base index with or without them; two calls, and an index that cannot be
  opened in either.
* `tools`, ini_creator: two loaders of every type, with versions at, inside and
  outside every bound of the sections (14000 among them, a whole thousand inside the
  corona section's), next to the other kinds of file.
* `tools`, dl_patches: three items, one with a second name, contents of none to two
  cells or missing.
* `tools`, scriptsetc: seven of the eight registers the source lists (without
  `C0462002`), and every kind and layout over five sizes.

Fairness. The hardware threads of the core run in parallel, so each has weak
fairness of its own; a kicked thread takes its interrupt, and stores arrive. The
SMC answers what it is asked, once, but nothing is assumed of events. A tool is one
sequential process the operating system keeps running: weak fairness of its steps, none of
being killed or started.

Faults. `svod_package` lets fail what the program acts on: opening or parsing the
image, creating the folder, creating a data file, reading data. The calls whose
result the code ignores (a block write, the rewrite of a table, reopening a file
while closing the chain, the header dump, the XISO header unit) are in
`SvodWriter` too, but the promises of a package cannot hold under them, as
`svod_short_write` shows for one.

## 4. What the violated runs show

1. `svod_single` (`isoio.c:513`): `writeIsoBody` returns the number of the last
   file, and `isoToSvod` takes 0 for failure. An image that fits one data file
   is written completely and then refused, without a header.
2. `svod_short_write` (`isoio.c:381`): a failed `fwrite` is printed and forgotten;
   the header counts bytes the files do not have.
3. `scan_empty_dir` (`isoio.c:157`): padding at the start of a sector does not
   move the offset, so a table of one sector of padding is walked for ever.
4. `unpack_failed` (`xexInflate.c:217`): the result of the decompressor is only
   ever turned into TRUE, which it was before; `xexinfo.c:223` prints "success!"
   of an image that is not complete and looks for the title's section in it.
5. `reboot_lost_release` (`startup2.S:107`): a secondary announces itself before
   it clears the hold word. The firmware's release can fall between the two
   stores and is wiped out; threads that had not read it stay in
   `idlecorewait`. On the console the window is closed only by how long the
   boot loaders take.
6. `su_last_block` (`su_check/main.c:263`): the walk ends when two blocks or fewer
   are left. A third or later table with a single data block is just that, so the
   block is never hashed, and damage to it is accepted. (A second table has the main
   table in front of it, and is walked.)
7. `ini_misplaced` (`ini_creator/main.c:105` and `136`), in one trace. The result of
   `checkBlMagic` is not looked at: a loader it refused has no type, so no section shows
   it, and it is not among the leftovers "that couldn't be classified" (line 274)
   either. And a CB or CD of exactly version 1000, 4000, 5000, 6000, 9000 or 13000
   goes to `commonbl`, since the bounds are strict (`ver > minver1`), where the comment says
   "5xxx = falcon" and so on (lines 289 to 294).

## 5. Proofs

`RebootProofs` proves, for any set of secondaries and any positive number of
vectors and words (`CoreAssumption` is the only assumption):

* `TypeCorrect`: `Spec => []TypeOK`;
* `Invariance`: `Spec => []IInv`;
* `NeverWild`, `OverwriteIsSafe`, `ReleaseIsChosen`: `NoWildFetch`,
  `NobodyInOverwrittenCode` and `ReleaseFollowsChoice` hold always;
* `RefinesHandoff`: `Spec => HandoffSpec`.

None of the three safety properties is inductive. Their strengthening `IInv` is
the argument the code leaves unsaid:

* what others see of code is a part of what thread 0 stored (`SeenIsOwn`);
* a branch is stored only behind a `sync` that made its trampoline visible
  (`TrampolineFirst`), so whoever sees the branch sees the trampoline;
* the BSS is cleared before the first branch, and the `sync`s of `place_jump`
  make that visible before any thread can be caught (`HoldAddrClear`,
  `CaughtByBranch`): a stale `secondary_hold_addr` releases nobody, though it is
  never flushed by itself;
* each thread clears the hold word before it polls it, so while one polls, only
  the firmware has set it (`HoldSetByFirmware`);
* a thread that is online is past `start()` and never returns (`Barrier`), and
  the flag is stored behind the whole copy of XeLL (`XellCopied`).

`Invariance` takes one step for each action: `Thread0Step`, `PropagateStep` and
`SecondaryStep`, over the typing lemma `TypeStep`. The refinement uses the same
invariant: `AwaitAllOnline` is `Decide` because of `Barrier`, `Announce` is
`Catch`, `Continue` and `StartXell` are `Leave` with the right destination
because of `HoldSetByFirmware` and `ReleaseFollowsChoice`; all else stutters.

`StartProofs` proves of `StartCore`, from the modules' assumptions on constants alone:

* `BootsAsConfigured`: `StartSpec => []XellAsConfigured`, for any buttons, tray
  states and number of messages nobody asked for. The invariant `ChoiceInv` follows
  the mailbox: before the question only events are in it (`NotAskedYet`), behind it
  either the question is pending or everything that is no event is the truth
  (`AskedOnce`), and the answer taken is still true when it is used (`AnswerHeld`). The
  last needs the tray to keep still once its state has been told.
* `SocIsPatched`, `EachListInPlace`, `HoldWordUntouched`, `StartTyped`: `SocPatched`,
  `ListsInPlace`, `FusesBelowHoldWord` and `StartTypeOK` hold always, for any number
  of patches, patches and lists of any length, and slots of any size. `EngineInv` says that the
  engine, which only has a word pointer, is at the beginning of a patch with those
  before it applied (`Applying`), and later so many words into a list with the lists
  before it in place (`Moving`).

The last four rest on `ListsAssumption`: the area is the layout of its lists
(`IsArea`), a list fits its slot, and only its last word equals the end marker. A
patch for a later stage with that word among its data would be cut there, since
the second loop of `patchEngine` looks at words and not at patches; every list
under `src/patches` satisfies the assumption. That the 1BL's patches may hold the
marker is allowed, and the first loop bears it.

`SvodProofs` proves of `SvodWriter`, for images,
blocks and files of any size (`LayoutAssumption`, `WriterAssumption`):

* `TypeCorrect`: `Spec => []TypeOK`, whatever call fails;
* `NothingLeftBehind`: `Spec => []UnusedSlotsBlank`;
* `HeaderCounts`: `Spec => []HeaderTruthful`;
* `RefinesPackage`: `Spec => PackageSpec`.

The invariant has two halves. `Control` ties the four counters of `writeIsoBody` to one
number, the blocks filled so far: what is left of the image, the number of files,
and when a file is full all follow from it. It needs lemmas about the
geometry: the closed formulas of `calcDataFileSizes` and `calcDataBlocks` agree with
what the loops do, where the header unit in front of the image is counted once
(`Counts`, `FillStep`, `LeftFacts`, `LastFile`). `Content`, over `Control`, says that each block
and table already written is the right one, that buffers are blank where the next block
or file starts, and that the chain of tables is closed from `fixNum` on.
`HeaderCounts` is a count: the units on the disc are one for each table, one for
each block and one for each unit of the image (`PackageCount`). The refinement shows that
a reader who trusts only the header gets the image (`PublishedDelivers`), that
`DumpHeader` is *Publish*, and that no other step is seen from outside but
creating and removing the folder.

All but `TypeCorrect` have the hypothesis `NoFaultIgnored`: a call whose result the code
throws away does not fail. It is not for the proof's convenience, as
`svod_short_write` shows. Failures the code sees, kills, and later processes on what
is left remain. `RefinesPackage` has `ImagesFit` besides: the header's number of
blocks has 24 bits, and an image of 2^24 units or more (64 GB) would wrap it; the
discs have 8 GB.

`SuProofs` proves of `SuCheck` with `StfsWalk`:

* `WholeNeverCorrupt`: `Spec => []WholeContainersPass`;
* `AcceptedAreIntact`, `ReportIsTrue`, `FolderIsExact`: `AcceptedIsIntact`, `SummaryCounts` and
  `CopyIsExact` hold always, where `NoLoneLastBlock`,

for tables with any number of entries, containers of any size up to that of a
full main table, and manifests of any length. `WalkInv` is the walk's: at
table `j`, entry `i`, the offset is where the format has it, the blocks behind it
have the hashes their table says (`FirstRead`), and from the second table on, when the
main table has been compared with the root, they are the original ones
(`AllSame`). A main table that is not recognised leads the walk `Astray`, and from
there only to a refusal. `MainInv` adds the manifest: the counters are those of the items
passed; what the folder holds is the manifest or a good item passed, in its own place, and each
good item passed has been written or could not be (`CopiedSoFar`). Between an item's
check and its copy lies a whole walk, and `PathFilled` is why the copy still goes to
the right place: while the walk runs, the global path is that of the item in turn.
`FolderIsExact` promises no more of an item that could not be opened than that it is
said; a container of other ids than `FFFE07DF\00008000` has no folder unless it was there
before, so it is verified and counted, and not copied.

Assumptions: `UpdatesAssumption` describes the damage (`MaybeDamaged`): any number of
blocks replaced by anything, with three exceptions, in which a damaged block would
send the walk elsewhere before anything has vouched for it: a first table that hides
entries, a table that is made a main one, and a main table that passes for another.
`NoLoneLastBlock` excludes what
`su_last_block` shows: a third or later table of one block, which is not hashed.
Hashes are terms, so they do not collide.

`ScanProofs` proves of `IsoScan`, for directory trees and tables of any size:

* `NothingIsMissed`, `ExecutableIsFound`: where not `ReadFails`, `DataCovered` and
  `ExecutableFound` hold always.

The scan is a recursion, and the property is about everything reachable, which
is itself a closure. The invariant `Walked(V)` avoids an induction over
either: there is a set `V` of directories walked to their end, closed but for the
directories on the stack, whose entries are covered up to their offset; once the
root is in `V`, everything reachable is (`Reachable`). Arithmetic of sectors and slots
(`Rounding`, `NextSector`) is where the offset moves to the next sector at padding.

`ImagesAssumption` says what an image is (`WellFormed`): tables of whole sectors, padding
only behind the entries of a sector, a root that is not empty, no size within a
sector of 2^32 bytes (rounding it up would wrap). A directory that cannot be read is skipped by
`isoio.c:183`, and what lies in it may then be missed: hence `~ReadFails`.

Of `IsoOpen` it proves `ImageIsOpened`: `OpenSpec => []OpensAtVolume`, for any three places and
any files (`OpenAssumption` only gives types). `OpenInv` keeps what each refused place has
shown: the first no volume descriptor, the second and third no head of one, since that
is all the code looks at there.

`TitleProofs` proves of `XexImage`, for any executables:

* `TitleDataIsExact`: `XexSpec => []TitleDataExact`.

It speaks of executables with all their parts (`IsSound`): a directory of fewer than 0x80
fields, whose count is taken for more than it is but for no negative number when it is not
swapped (`FieldFound`, `UnswappedEnough`); sections inside the image; raw records one
behind the other (`IsRaw`), or fragments and chunks of any number and length (`IsCompressed`),
each with the size of the next in front. TLC evaluates it (`XexAssumption`) of every executable of `disc`
whose image is given. `XexControl` says where the loops are: the image is whole up to the
record in turn (`RawCopied`); between fragments, the place reached is one where a fragment starts, and
what has been collected is the stream up to there (`AtFragment`); inside one, the same
of a chunk, or of the empty one that ends it (`AtSomeChunk`). Of an executable that is
damaged nothing is promised.

It proves of `SpaMetadata`, for any number of languages and any room:

* `MetadataIsExact`: `TitleSpec => []MetadataExact`.

`TitleInv` says that each name and each description held is one of the title in that
language, cut to its room (`NamesOwn`, `DescriptionsOwn`), at every point of the loops;
that the header has an icon and a name only if the title has; and, for a title with one
resource of strings, which languages have been served so far (`Progress`). With several
such resources the later one is left to overwrite what the earlier one said, and only
what is held is promised. `SpaAssumption` wants room for a cell and the end of a name.

and of `OutputFolder`, for any number of conversions, any names and any file system:

* `EachOwnsItsFolder`: `FolderSpec => []FolderOwned`.

The assumption is `FolderAssumption`: whatever exists lies in folders, and no data
folder lies on the way to another; TLC evaluates it of the instance in `MCDisc`. `FolderOwned` is not inductive; its strengthening is

* nothing is removed and only folders are made (`OnlyFoldersMade`), so a file in the
  way was there from the start;
* whatever exists lies in folders at any time (`InFolders`), so a folder that is
  there has its whole way;
* nobody else makes the data folder of a conversion, though others make those above
  it (`NotYetMade`): what the first check sees is the file system of the start;
* at every name passed there is something, whoever put it there (`PassedExist`), so
  a `mkdir` that fails for want of a parent fails because of a file
  (`MadeOrHindered`, `FailedForReason`).

`FirstCheckStep`, `MkDirStep` and `SecondCheckStep` are the three actions.

`ToolProofs` proves of the tools:

* `ContainerIsExact`: `ContainerSpec => []ContainerExact`, for any list and any files. `ListInv`
  counts: entry `Before(k) + 1` of the header is item `k`'s, where `Before(k)` is the number of
  items in front of it that were read, and the contents lie one behind the other
  (`Chain`), so what an offset says is where the contents went;
* `IndexIsExact`: `OptSpec => []IndexExact`, for any folders, bases and number of calls.
  `OptInv` says that no two entries have the same list, that the base is kept, and
  that whatever file there is loads again as what was written (`IndexLoads`). The latter
  is a statement about two recursive functions, one that writes words and one that
  reads them; the base is one the tool wrote (`IsBase`), and the loop over a patch file
  ends (`IsPatchFile`);
* `IniIsExact`: `IniSpec => []IniExact`, for any command line of files with different names.
  `IniInv` says that each list has each of its files once (`ListsOnce`), and that the lines
  written are those of the sections passed. A loader shown loses its magic, and the
  sections' ranges of versions are such that what one took no later one could
  (`WithinOne`). The sections are those of the comments (`DocumentedSection`), with two exceptions
  the property names: a CB or CD of the first version of a thousand may be among the
  common ones (`FirstOfThousand`), and of a refused loader nothing is said. Without these it
  is `ListedAsDocumented`, which `ini_misplaced` refutes;
* `GeometryIsExact`: `SfcSpec => []GeometryExact`, for any registers with a shift a C integer
  has (`SfcAssumption`, less than 31). Six of the eight registers the source lists come out with
  their size; in every geometry that is accepted the blocks tile the flash, and the settings
  lie inside it unless it has large blocks and less than 64 megabytes. Not promised are
  `00023030`, which is listed as a Jasper of 64 megabytes but "inferred" and comes out
  with 8, and `C0462002`, listed as a Corona of 4G, which is refused.

`LzxProofs` proves of `LzxStream`, for any window that is a multiple of the frame and any
stream, damaged in whatever way (`LzxAssumption`: the reference data fits the window, as
`lzxd_set_reference_data` makes sure):

* `WindowIsKept`: `Spec => [](TypeOK /\ WindowKept)`, which is the decompressor's memory safety.

`lzxd_decompress` checks a match against the window but not against its run, and a run
against neither. `LzxControl` is why nothing goes over the edge all the same: output comes in whole
frames but for the last (`Output`), so a frame starts at a multiple of the frame, or is empty
behind the end of the stream, and fits what is left of the window; `todo`
and the run are what the frame has left; a match that went over its run ends the frame
with an error before the next one starts. Output is stored only by the last frame of a call, so
the check for a rest that was never taken cannot fail.

Several of these properties are about what a recursive function computes, which is an
induction over data. It is done with sets instead of predicates: a set of numbers that has 0 and with
each number the next has all of them (`CountedUp`, from the well-foundedness of the
natural numbers), and a function given by its value before exists (`Recursion`).

Only model-checked:

* liveness (`AllCaught`, `XellGetsAllThreads`, `ChoiceMade`, `FirmwareStarted`, `EveryProcessEnds`,
  `CompleteBodyIsPublished`, `EveryPartEnds`, `EveryToolEnds`): it depends on fairness and `ENABLED`;
* `OutputExact` and `SymbolsDecoded` (decompressor): each compares what a loop does to the whole
  input with a recursive function that does it another way;
* the type invariants of `MCDisc` and `MCTools`, which put together those of programs
  that do not run at the same time.

## 6. Not modelled

* Register set-up, device addresses, UART output and USB reset of the core; the
  payload's copy loop; an exception taken by thread 0 itself.
* Which addresses the mask in `cache.S` covers: `flush_code` is taken as covering
  its argument. The mask 0xFFF1 is not that of a cache line; over the ranges
  `place_jump` passes the loop covers them, for others it may not.
* Contents of files: hashes and keys are terms, units are indices; XML, zip and AES
  are taken as what they return.
* The scan with a directory that cannot be read (`ReadFails`) is in `IsoScan`, but
  the code ignores that result, so the promises cannot hold under it. The range
  may also be longer than needed: `isoio.c:221` adds bytes to sectors.
* The same disc converted twice at once: the folder's absence is checked before it
  is created (`main.c:124`), so both may pass; `OutputFolder` has different discs.
* spa.c: a locale the tables do not have frees the document and goes on using it
  (`spa.c:407`); the instances have known locales only.
* opt_idx: a name of sixteen letters or more overruns `outName`; names are terms
  that fit.
* scriptsetc: a shift of 31 or more (`flash_config.c:136`) has no meaning in C and
  is excluded by `SfcAssumption`; of `00023030`, `C0462002` and large blocks in less than 64
  megabytes see section 5.
* su_check: the text of the report; files an output folder already holds. The result of
  `fwrite` (`util.c:55`) is ignored by the code and left out of the model: a file that
  could be opened counts as written. `verifyFile` hashes the length of the manifest and
  writes that of the file (`main.c:191` and `198`), so a longer file has a tail that is
  copied unchecked; the model has no tails. The summary's number of checked files is only
  bounded, so a file that is missing is not caught by `SummaryCounts`. A
  container of one table has no main table and its only table is compared with
  nothing, so entries zeroed there hide the blocks behind them; the model has
  this, the instances do not ask for it.
  The same goes for damage that turns a table into a main one or the main one into
  another (`MaybeDamaged`): the walk follows the level word it finds.
* A list for a later stage with the end marker among its data, which the second loop
  of `patchEngine` would cut there; no list under `src/patches` has one.
* `crc32.c` and the layer of memory files under the decompressor (`system.c`).
* `bin2c2` does not build as it stands (`print_hex_buffer` is defined nowhere).
* The declarations in `mspack.h` and `zconf.h` (interfaces of libraries), the patch
  sources and the configuration files.
* Calls that fail and whose failure changes little: a `malloc` that returns NULL in the
  executable parser (`xexinfo.c:159`), and in dl_patches for an item, which would be counted
  and not written (`dl_patches.c:104`); the results of `WriteFile` there.
* A text longer than 2048 characters (`spa.c:361`) is not converted; it counts as an
  empty one. The decompressor's input has whole words; a last odd byte is left out.
* The core's busy wait for room in the SMC's mailbox (`main.c:163`).

Hazards without a property (`PROJECT.json` has the reasons): an answer of the SMC that is
lost, after which `getSmc` never ends (`main.c:194`; `ChoiceMade` assumes the answer); a nested
`default.xex` taken for the title's (`isoio.c:195`; `ExecutableFound` only says that one is
found); the bound that wraps in opt_idx (`opt_idx.cpp:172`; the model ends in *crashed*, which
`EveryToolEnds` takes for an end); what a used output folder held before; a directory that
cannot be read; a single table of a container; the same disc twice. The half of the first
hazard that is about XeLL's flag is assumed away by `StoresDrained`.

## 7. Plan

Written in this order, the most important behaviour first:

1. done: `RebootCore` with its abstract specification and proofs; `BootChoice`;
   `PatchEngine`; `SvodWriter` with its abstract specification; `IsoScan`.
2. done: `StfsWalk` and `SuCheck`. Next to it an abstract "a clean report means
   every file of the manifest verified", with a folder that an earlier run filled.
3. done: `OptIndex`, `FlashIni`, `PatchContainer`, `SfcGeometry`.
4. done: `IsoOpen`, `XexImage`, `SpaMetadata`, `OutputFolder`, and the
   decompressor as `LzxStream` over `LzxHuffman`.
5. Proofs: done for every module but `LzxHuffman` and the contents of
   `LzxStream`'s output.
6. Compositions: `RebootSystem` (rendezvous, choice and patch engine sharing the
   hold word and the option area), `Iso2Svod` (the scan's result feeding the
   writer, its folder under the next conversion).
