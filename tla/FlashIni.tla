------------------------------- MODULE FlashIni -------------------------------
(***************************************************************************)
(* ini_creator (main.c): sorts the files of a flash image into the         *)
(* sections of an ini file.                                                *)
(*                                                                         *)
(* A file is [name, kind, letter, ver, cut, path]: kind "flash" has the    *)
(* magic XEX2 or xttf, "bl" that of a boot loader with the second letter   *)
(* and the version given; cut tells a boot loader whose length field       *)
(* exceeds the file; path tells a name with a backslash; kind "none"       *)
(* cannot be read.  Checksums are left out, and the line of the version is *)
(* flashVer.                                                               *)
(***************************************************************************)
EXTENDS Integers, Sequences

CONSTANTS
  CommandLines   \* sequences of files, shorter than MAX_FLASH

(* The files of a command line; no two have the same name. *)
IsImageFile(f) ==
  /\ f.kind \in {"flash", "bl", "other", "none"}
  /\ f.letter \in Nat /\ f.ver \in Nat
  /\ f.cut \in BOOLEAN /\ f.path \in BOOLEAN

ASSUME IniAssumption ==
  \A files \in CommandLines :
    /\ Len(files) \in 0..255 /\ DOMAIN files = 1..Len(files)
    /\ \A k \in DOMAIN files : IsImageFile(files[k])
    /\ \A j, k \in DOMAIN files : files[j].name = files[k].name => j = k

VARIABLES
  argv, arg,     \* the files and the one in turn
  flashFiles, otherFiles,
  flashBls,      \* [name, letter, ver, magic]; magic FALSE when it is zero
  flashVer,
  ini,           \* __output.ini: [section, name] in order
  iniPc          \* "read", a section of Sections, "rest", "done" or "crashed"

iniVars == <<argv, arg, flashFiles, otherFiles, flashBls, flashVer, ini, iniPc>>

IniInit ==
  /\ argv \in CommandLines
  /\ arg = 1
  /\ flashFiles = << >> /\ otherFiles = << >> /\ flashBls = << >>
  /\ flashVer = 0
  /\ ini = << >> /\ iniPc = "read"

File == argv[arg]
Reading == iniPc = "read" /\ arg \in DOMAIN argv

(* The mask BL_FULLMASK leaves the three low bits of the letter. *)
BlTypes == 2..7
BlTyp(letter) == letter % 8
B == 66
D == 68
CF == 6

ProperBl(file) == ~file.cut /\ BlTyp(file.letter) \in BlTypes

(* strrchr() + 1 is never NULL: a name without a path is read from address 1. *)
NoPath ==
  /\ Reading /\ File.kind # "none" /\ ~File.path
  /\ iniPc' = "crashed"
  /\ UNCHANGED <<argv, arg, flashFiles, otherFiles, flashBls, flashVer, ini>>

ProcessFlash ==
  /\ Reading /\ File.kind = "flash" /\ File.path
  /\ flashFiles' = Append(flashFiles, File.name)
  /\ arg' = arg + 1
  /\ UNCHANGED <<argv, otherFiles, flashBls, flashVer, ini, iniPc>>

(* checkBlMagic gives up on an improper boot loader and leaves its slot of *)
(* flashBls without magic and crc; the slot is used up all the same.       *)
ProcessBl ==
  /\ Reading /\ File.kind = "bl" /\ File.path
  /\ flashVer' = IF ProperBl(File) /\ BlTyp(File.letter) = CF /\ File.ver > flashVer
                 THEN File.ver ELSE flashVer
  /\ flashBls' = Append(flashBls, [name |-> File.name, letter |-> File.letter,
                                   ver |-> File.ver, magic |-> ProperBl(File)])
  /\ arg' = arg + 1
  /\ UNCHANGED <<argv, flashFiles, otherFiles, ini, iniPc>>

ProcessOther ==
  /\ Reading /\ File.kind = "other" /\ File.path
  /\ otherFiles' = Append(otherFiles, File.name)
  /\ arg' = arg + 1
  /\ UNCHANGED <<argv, flashFiles, flashBls, flashVer, ini, iniPc>>

Unreadable ==
  /\ Reading /\ File.kind = "none"
  /\ arg' = arg + 1
  /\ UNCHANGED <<argv, flashFiles, otherFiles, flashBls, flashVer, ini, iniPc>>

Sections == <<"xenonbl", "zephyrbl", "falconbl", "jasperbl", "trinitybl", "coronabl">>

Bounds ==
  [xenonbl   |-> {<<1000, 2000>>, <<7000, 8000>>},
   zephyrbl  |-> {<<4000, 5000>>},
   falconbl  |-> {<<5000, 6000>>},
   jasperbl  |-> {<<6000, 7000>>},
   trinitybl |-> {<<9000, 10000>>},
   coronabl  |-> {<<13000, 15000>>, <<12000, 12999>>}]

Within(ver, section) == \E b \in Bounds[section] : ver > b[1] /\ ver < b[2]

InSection(bl, section) == bl.magic /\ bl.letter \in {B, D} /\ Within(bl.ver, section)

Line(section, name) == [section |-> section, name |-> name]
Lines(section, names) == [k \in 1..Len(names) |-> Line(section, names[k])]

(* showBls and showCommon: the boot loaders chosen, in their order. *)
Shown(section, chosen) ==
  LET Show[k \in 0..Len(flashBls)] ==
        IF k = 0 THEN << >>
        ELSE IF k \in chosen THEN Append(Show[k - 1], Line(section, flashBls[k].name))
        ELSE Show[k - 1]
  IN  Show[Len(flashBls)]

StartOutput ==
  /\ iniPc = "read" /\ arg \notin DOMAIN argv
  /\ iniPc' = Sections[1]
  /\ UNCHANGED <<argv, arg, flashFiles, otherFiles, flashBls, flashVer, ini>>

(* Mutant of Marked: what has been shown stays. *)
Unmarked(bl, section) == bl

(* A boot loader shown has its magic set to zero. *)
Marked(bl, section) ==
  [name |-> bl.name, letter |-> bl.letter, ver |-> bl.ver,
   magic |-> bl.magic /\ ~InSection(bl, section)]

(* displayBls: hasBls and showBls *)
DisplayBls ==
  \E s \in 1..Len(Sections) :
    /\ iniPc = Sections[s]
    /\ ini' = ini \o Shown(iniPc, {k \in 1..Len(flashBls) : InSection(flashBls[k], iniPc)})
    /\ flashBls' = [k \in 1..Len(flashBls) |-> Marked(flashBls[k], iniPc)]
    /\ iniPc' = IF s = Len(Sections) THEN "rest" ELSE Sections[s + 1]
    /\ UNCHANGED <<argv, arg, flashFiles, otherFiles, flashVer>>

(* showCommon and the lists of the other files. *)
ShowRest ==
  /\ iniPc = "rest"
  /\ ini' = ini \o Shown("commonbl", {k \in 1..Len(flashBls) : flashBls[k].magic})
                \o Lines("flash", flashFiles)
                \o Lines("unknown", otherFiles)
  /\ iniPc' = "done"
  /\ UNCHANGED <<argv, arg, flashFiles, otherFiles, flashBls, flashVer>>

IniNext ==
  \/ NoPath \/ ProcessFlash \/ ProcessBl \/ ProcessOther \/ Unreadable
  \/ StartOutput \/ DisplayBls \/ ShowRest

IniSpec == IniInit /\ [][IniNext]_iniVars /\ WF_iniVars(IniNext)
-------------------------------------------------------------------------------
SectionNames == {Sections[s] : s \in 1..Len(Sections)}

(* Type invariant of the tool. *)
IniTypeOK ==
  /\ argv \in CommandLines /\ arg \in 1..(Len(argv) + 1)
  /\ iniPc \in SectionNames \cup {"read", "rest", "done", "crashed"}
  /\ Len(flashFiles) + Len(otherFiles) + Len(flashBls) < arg

(* The last comment of main.c: the thousands of a CB or CD tell the console. *)
Thousands ==
  [xenonbl |-> 1, zephyrbl |-> 4, falconbl |-> 5, jasperbl |-> 6, trinitybl |-> 9, coronabl |-> 13]
Consoles(ver) == {c \in SectionNames : Thousands[c] = ver \div 1000}

(* Where a file stands if the comments are right: a file that could not be *)
(* classified among the leftovers, a CB or CD with its console.  They say  *)
(* nothing of the other thousands.                                         *)
DocumentedSection(file, section) ==
  /\ file.kind = "flash" => section = "flash"
  /\ file.kind = "other" \/ (file.kind = "bl" /\ ~ProperBl(file)) => section = "unknown"
  /\ file.kind = "bl" /\ ProperBl(file) =>
       IF file.letter \notin {B, D} THEN section = "commonbl"
       ELSE IF Consoles(file.ver) # {} THEN section \in Consoles(file.ver)
       ELSE section \in SectionNames \cup {"commonbl"}

(* The first version of a thousand is outside of every Bounds. *)
FirstOfThousand(file) == file.letter \in {B, D} /\ file.ver % 1000 = 0

Listable(file) == file.kind \in {"flash", "other"} \/ (file.kind = "bl" /\ ProperBl(file))

(* One line of the file has this name. *)
OnlyLine(n, name) ==
  /\ n \in 1..Len(ini) /\ ini[n].name = name
  /\ \A m \in 1..Len(ini) : ini[m].name = name => m = n

CfFiles ==
  {k \in 1..Len(argv) :
     argv[k].kind = "bl" /\ ProperBl(argv[k]) /\ BlTyp(argv[k].letter) = CF}

(* Every flash file, proper boot loader and unknown file stands in the ini *)
(* once, though six passes and a last one go over the same list, and where *)
(* the comments say; but a CB or CD of the first version of a thousand may *)
(* be among the common ones, and boot loaders that were refused are left   *)
(* out (of both see ListedAsDocumented).  The version is the highest one   *)
(* of a CF.                                                                *)
IniExact ==
  iniPc = "done" =>
    /\ \A k \in 1..Len(argv) : Listable(argv[k]) =>
         \E n \in 1..Len(ini) :
           /\ OnlyLine(n, argv[k].name)
           /\ \/ DocumentedSection(argv[k], ini[n].section)
              \/ FirstOfThousand(argv[k]) /\ ini[n].section = "commonbl"
    /\ \A k \in CfFiles : argv[k].ver <= flashVer
    /\ flashVer = 0 \/ \E k \in CfFiles : flashVer = argv[k].ver

(* Every file that can be read stands in the ini once and where the        *)
(* comments of main.c say: what could not be classified among the          *)
(* leftovers, a CB or CD with the console of its thousand.                 *)
ListedAsDocumented ==
  iniPc = "done" =>
    \A k \in 1..Len(argv) : argv[k].kind # "none" =>
      \E n \in 1..Len(ini) :
        OnlyLine(n, argv[k].name) /\ DocumentedSection(argv[k], ini[n].section)
===============================================================================
