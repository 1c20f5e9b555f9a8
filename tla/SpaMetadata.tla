----------------------------- MODULE SpaMetadata -----------------------------
(***************************************************************************)
(* The title's metadata (spa.c): getSpaInfo walks the resources of a title *)
(* and fills the package's header with its icon, its names and its         *)
(* descriptions in up to Locales languages.                                *)
(*                                                                         *)
(* A text is a sequence of characters; NameRoom of them fit a name with    *)
(* its end (0x40), DescRoom a description (0x80), which is also the room a *)
(* name has in the header.                                                 *)
(***************************************************************************)
EXTENDS Integers, Sequences

CONSTANTS
  Titles,       \* resource files: [magic, entries]
  Locales,      \* the number of known languages (12)
  NameRoom, DescRoom,
  IconRoom,     \* 0x3D00
  NoDescription,\* the text "No Description Provided"
  Absent

(* A resource has a type and an identifier; inside tells that it lies in   *)
(* the file.  One of strings is compressed, and may not be unpackable.     *)
IsText(t) == t \in Seq(Nat)
AreTexts(ts) == ts \in Seq([locale : Nat, text : Seq(Nat)])
AreStrings(strings) ==
  /\ strings.titleName = Absent \/ IsText(strings.titleName)
  /\ AreTexts(strings.names)
  /\ \A ts \in {strings.sell, strings.publisher, strings.developer} : ts = Absent \/ AreTexts(ts)

IsResource(e) ==
  /\ e.type \in Nat /\ {e.inside, e.unpacks} \subseteq BOOLEAN
  /\ e.icon = Absent \/ IsText(e.icon)
  /\ e.xml = Absent \/ AreStrings(e.xml)

IsTitle(t) ==
  /\ t.magic \in BOOLEAN
  /\ Len(t.entries) \in Nat /\ DOMAIN t.entries = 1..Len(t.entries)
  /\ \A k \in DOMAIN t.entries : IsResource(t.entries[k])

ASSUME SpaAssumption ==
  /\ {Locales, IconRoom} \subseteq Nat /\ {NameRoom, DescRoom} \subseteq Nat \ {0, 1}
  /\ \A t \in Titles : IsTitle(t)

VARIABLES
  title,
  titlePc,           \* "header", "entries", then parseStringsXrXml's parts; "done" or "crashed"
  entry,        \* index of the entry to look at
  hasIcon, hasName,
  thumbnail, titleThumbnail,
  titleName,    \* TitleName, DisplayName and Description of the header
  displayName, description,
  translation,  \* index of the translation to look at
  result        \* what getSpaInfo returns

titleVars == <<title, titlePc, entry, hasIcon, hasName, thumbnail, titleThumbnail,
          titleName, displayName, description, translation, result>>

Texts == <<titleName, displayName, description>>

(* endianCopyWcharBuf: what fits in front of the end. *)
Fitted(text, room) == SubSeq(text, 1, IF Len(text) < room - 1 THEN Len(text) ELSE room - 1)

(* convertLocaleToName, convertLocaleToDesc: where a language is kept. *)
Known(locale) == locale \in 1..Locales

(* Mutant of Place: the order of the texts decides. *)
OrderPlace(t) == translation

Place(t) == t.locale

(* A text that is empty is not converted, and what was there stays; so it  *)
(* does when MultiByteToWideChar fails, as for a text longer than its      *)
(* buffer: such a text counts as an empty one here.                        *)
Put(texts, t, room) ==
  IF t.text = << >> THEN texts ELSE [texts EXCEPT ![Place(t)] = Fitted(t.text, room)]

Entry == title.entries[entry]
Xml   == Entry.xml
IsIcon == Entry.type = 2 /\ Entry.id = "icon"
IsXsrc == Entry.type = 1 /\ Entry.id = "XSRC"

(* unpackGzipStreamData, and parseStringsXrsc with the magic in front. *)
Unpacks  == Entry.unpacks
Unpacked == Xml # Absent /\ Unpacks

TitleInit ==
  /\ title \in Titles
  /\ titlePc = "header" /\ entry = 1
  /\ hasIcon = FALSE /\ hasName = FALSE
  /\ thumbnail = Absent /\ titleThumbnail = Absent
  /\ titleName = << >>
  /\ displayName = [l \in 1..Locales |-> << >>]
  /\ description = [l \in 1..Locales |-> << >>]
  /\ translation = 0 /\ result = FALSE

(* The magic, and the tables inside the file. *)
ReadHeader ==
  /\ titlePc = "header"
  /\ titlePc' = IF title.magic THEN "entries" ELSE "done"
  /\ UNCHANGED <<title, entry, hasIcon, hasName, thumbnail, titleThumbnail, Texts, translation, result>>

AtEntry == titlePc = "entries" /\ entry <= Len(title.entries)

TakeIcon ==
  /\ AtEntry /\ Entry.inside /\ IsIcon
  /\ IF Len(Entry.icon) <= IconRoom
     THEN /\ thumbnail' = Entry.icon /\ titleThumbnail' = Entry.icon
          /\ hasIcon' = TRUE /\ entry' = entry + 1
          /\ UNCHANGED titlePc
     ELSE titlePc' = "done" /\ UNCHANGED <<thumbnail, titleThumbnail, hasIcon, entry>>
  /\ UNCHANGED <<title, hasName, Texts, translation, result>>

(* parseStringsXrXml up to the names; the project's own name goes first.   *)
TakeStrings ==
  /\ AtEntry /\ Entry.inside /\ IsXsrc
  /\ IF ~Unpacked
     THEN entry' = entry + 1 /\ UNCHANGED <<titlePc, titleName, translation>>
     ELSE /\ titleName' = IF Xml.titleName = Absent THEN titleName
                          ELSE Fitted(Xml.titleName, NameRoom)
          /\ IF Xml.names = << >>
             THEN entry' = entry + 1 /\ UNCHANGED <<titlePc, translation>>
             ELSE titlePc' = "names" /\ translation' = 1 /\ UNCHANGED entry
  /\ UNCHANGED <<title, hasIcon, hasName, thumbnail, titleThumbnail, displayName, description, result>>

SkipEntry ==
  /\ AtEntry /\ Entry.inside /\ ~IsIcon /\ ~IsXsrc
  /\ entry' = entry + 1
  /\ UNCHANGED <<title, titlePc, hasIcon, hasName, thumbnail, titleThumbnail, Texts, translation, result>>

EntryOutside ==
  /\ AtEntry /\ ~Entry.inside
  /\ titlePc' = "done"
  /\ UNCHANGED <<title, entry, hasIcon, hasName, thumbnail, titleThumbnail, Texts, translation, result>>

(* A name in a language the header has no place for ends the parse with    *)
(* nothing more taken from this entry.                                     *)
NextName ==
  /\ titlePc = "names" /\ translation <= Len(Xml.names)
  /\ LET t == Xml.names[translation]
     IN  IF Known(t.locale)
         THEN /\ displayName' = Put(displayName, t, NameRoom)
              /\ translation' = translation + 1
              /\ UNCHANGED <<titlePc, entry>>
         ELSE /\ titlePc' = "entries" /\ entry' = entry + 1
              /\ UNCHANGED <<displayName, translation>>
  /\ UNCHANGED <<title, hasIcon, hasName, thumbnail, titleThumbnail, titleName, description, result>>

(* The text that describes the title: the one it is sold with, else its    *)
(* publisher's, else its developer's; Absent if none is named.             *)
DescriptionTexts ==
  IF Xml.sell # Absent THEN Xml.sell
  ELSE IF Xml.publisher # Absent THEN Xml.publisher ELSE Xml.developer

TitlesAsDescriptions ==
  [l \in 1..Locales |-> IF displayName[l] # << >> THEN displayName[l] ELSE description[l]]

NoTexts == [l \in 1..Locales |-> NoDescription]

NamesDone ==
  /\ titlePc = "names" /\ translation > Len(Xml.names)
  /\ \/ DescriptionTexts = Absent /\ description' = TitlesAsDescriptions /\ titlePc' = "strings"
     \/ DescriptionTexts = << >> /\ description' = NoTexts /\ titlePc' = "strings"
     \/ DescriptionTexts \notin {Absent, << >>} /\ titlePc' = "descriptions" /\ UNCHANGED description
  /\ translation' = 1
  /\ UNCHANGED <<title, entry, hasIcon, hasName, thumbnail, titleThumbnail,
                 titleName, displayName, result>>

(* In an unknown language, what was parsed is freed and used again. *)
Describe(t) ==
  IF Known(t.locale)
  THEN /\ description' = Put(description, t, DescRoom)
       /\ translation' = translation + 1
       /\ UNCHANGED titlePc
  ELSE titlePc' = "crashed" /\ UNCHANGED <<description, translation>>

NextDescription ==
  /\ titlePc = "descriptions" /\ translation <= Len(DescriptionTexts)
  /\ Describe(DescriptionTexts[translation])
  /\ UNCHANGED <<title, entry, hasIcon, hasName, thumbnail, titleThumbnail,
                 titleName, displayName, result>>

DescriptionsDone ==
  /\ titlePc = "descriptions" /\ translation > Len(DescriptionTexts)
  /\ titlePc' = "strings"
  /\ UNCHANGED <<title, entry, hasIcon, hasName, thumbnail, titleThumbnail, Texts, translation, result>>

NamedLocales == {l \in 1..Locales : displayName[l] # << >>}

(* fixTitleName *)
FixedTitleName ==
  IF titleName = << >> /\ NamedLocales # {}
  THEN displayName[CHOOSE l \in NamedLocales : \A m \in NamedLocales : l <= m]
  ELSE titleName

StringsDone ==
  /\ titlePc = "strings"
  /\ titleName' = FixedTitleName
  /\ hasName' = TRUE
  /\ titlePc' = "entries" /\ entry' = entry + 1
  /\ UNCHANGED <<title, hasIcon, thumbnail, titleThumbnail, displayName, description, translation, result>>

Finish ==
  /\ titlePc = "entries" /\ entry > Len(title.entries)
  /\ titlePc' = "done"
  /\ result' = (hasIcon /\ hasName)
  /\ UNCHANGED <<title, entry, hasIcon, hasName, thumbnail, titleThumbnail, Texts, translation>>

TitleNext ==
  \/ ReadHeader \/ TakeIcon \/ TakeStrings \/ SkipEntry \/ EntryOutside \/ NextName
  \/ NamesDone \/ NextDescription \/ DescriptionsDone \/ StringsDone \/ Finish

TitleSpec == TitleInit /\ [][TitleNext]_titleVars /\ WF_titleVars(TitleNext)
-------------------------------------------------------------------------------
TitleStates == {"header", "entries", "names", "descriptions", "strings", "done", "crashed"}

(* Type invariant of the metadata: every text has room for its end. *)
TitleTypeOK ==
  /\ titlePc \in TitleStates
  /\ IsText(titleName) /\ Len(titleName) < NameRoom
  /\ \A l \in 1..Locales : IsText(displayName[l]) /\ Len(displayName[l]) < NameRoom
  /\ entry \in 1..(Len(title.entries) + 1)
  /\ {hasIcon, hasName, result} \subseteq BOOLEAN

Resources == {title.entries[k] : k \in DOMAIN title.entries}
Strings == {e \in Resources : e.type = 1 /\ e.id = "XSRC" /\ e.xml # Absent}
TextsIn(ts, l, room) ==
  {Fitted(ts[k].text, room) : k \in {j \in DOMAIN ts : ts[j].locale = l}}
IconOf(e) == IF e.type = 2 /\ e.id = "icon" THEN e.icon ELSE Absent
Names(l) == (UNION {TextsIn(e.xml.names, l, NameRoom) : e \in Strings}) \ {<< >>}

(* What a complete parse has put into the header belongs together, in      *)
(* whatever order the entries lie: both pictures are the title's icon,     *)
(* and of a title with one resource of strings each language has the       *)
(* title's name in that language, and a title is shown whenever it is      *)
(* named in some language.                                                 *)
OneOfStrings ==
  \A j, k \in DOMAIN title.entries :
    title.entries[j].type = 1 /\ title.entries[j].id = "XSRC"
      /\ title.entries[k].type = 1 /\ title.entries[k].id = "XSRC" => j = k
MetadataComplete ==
  /\ thumbnail = titleThumbnail
  /\ \E e \in Resources : IconOf(e) = thumbnail
  /\ OneOfStrings =>
       /\ \A l \in 1..Locales : IF Names(l) = {} THEN displayName[l] = << >>
                                ELSE displayName[l] \in Names(l)
       /\ (\E l \in 1..Locales : Names(l) # {}) => titleName # << >>

(* A description is the title's own text in that language or a stand-in,   *)
(* never a text of another language.                                       *)
OwnTexts(xml, l) ==
  TextsIn(xml.names, l, NameRoom)
    \cup UNION {TextsIn(ts, l, DescRoom) : ts \in {xml.sell, xml.publisher, xml.developer} \ {Absent}}
DescriptionsOwn ==
  \A l \in 1..Locales :
    description[l] \in {<< >>, NoDescription}
      \/ \E e \in Strings : description[l] \in OwnTexts(e.xml, l)

MetadataExact ==
  titlePc \in TitleStates => (result => MetadataComplete) /\ DescriptionsOwn
===============================================================================
