----------------------------- MODULE TitleProofs -----------------------------
(***************************************************************************)
(* Proofs about XexImage: of every executable with all its parts, however  *)
(* it is packed and encrypted, the title's section and nothing else is     *)
(* handed on.  About SpaMetadata: whatever resources a title has, in       *)
(* whatever order and of whatever length, the header gets the texts of the *)
(* title in its languages, or it gets none.  Of resources of strings there *)
(* may be several; what is complete is shown for a title with one          *)
(* (Progress).  And about OutputFolder: every conversion writes only into  *)
(* a folder of its own, for any number of conversions at the same time and *)
(* any file system.                                                        *)
(***************************************************************************)
EXTENDS XexImage, SpaMetadata, OutputFolder, SequenceTheorems, WellFoundedInduction, TLAPS

(* An entry that has the strings, and those in front of the one in turn. *)
XsrcAt(k) ==
  k \in DOMAIN title.entries /\ title.entries[k].type = 1 /\ title.entries[k].id = "XSRC"

Passed == {k \in DOMAIN title.entries : k < entry /\ XsrcAt(k)}

InStrings == XsrcAt(entry) /\ Xml # Absent

(* The names in language l among the first n of the resource in turn, as   *)
(* far as they fit.                                                        *)
FirstNames(n, l) ==
  {Fitted(Xml.names[k].text, NameRoom) : k \in {j \in 1..n : Xml.names[j].locale = l}} \ {<< >>}

(* They have been taken. *)
NamesTaken(n) ==
  \A l \in 1..Locales : IF FirstNames(n, l) = {} THEN displayName[l] = << >>
                        ELSE displayName[l] \in FirstNames(n, l)

(* Each language that has a name has one, and so has the title. *)
Complete ==
  /\ \A l \in 1..Locales : IF Names(l) = {} THEN displayName[l] = << >>
                           ELSE displayName[l] \in Names(l)
  /\ (\E l \in 1..Locales : Names(l) # {}) => titleName # << >>

(* How far the names of a title with one resource of strings have got. *)
Progress ==
  /\ titlePc \in {"header", "entries"} /\ Passed = {} =>
       ~hasName /\ \A l \in 1..Locales : displayName[l] = << >>
  /\ titlePc \in {"names", "descriptions", "strings"} => ~hasName
  /\ titlePc = "names" => NamesTaken(translation - 1)
  /\ titlePc \in {"descriptions", "strings"} => NamesTaken(Len(Xml.names))
  /\ titlePc \in {"entries", "done"} /\ hasName => Complete

(* A name of the header is one of its own language. *)
NamesOwn ==
  \A l \in 1..Locales :
    displayName[l] # << >> => \E e \in Strings : displayName[l] \in TextsIn(e.xml.names, l, NameRoom)

TitleInv ==
  /\ TitleTypeOK /\ title \in Titles
  /\ displayName \in [1..Locales -> Seq(Nat)]
  /\ description = [l \in 1..Locales |-> description[l]]
  /\ translation \in Nat
  /\ titlePc \in {"names", "descriptions", "strings", "crashed"} => InStrings
  /\ titlePc \in {"names", "descriptions"} => translation > 0
  /\ titlePc = "names" => translation <= Len(Xml.names) + 1
  /\ titlePc = "descriptions" => DescriptionTexts # Absent
  /\ titlePc = "header" => entry = 1
  /\ result => titlePc = "done" /\ hasIcon /\ hasName
  /\ thumbnail = titleThumbnail
  /\ hasIcon => \E e \in Resources : IconOf(e) = thumbnail
  /\ NamesOwn /\ DescriptionsOwn
  /\ OneOfStrings => Progress

-------------------------------------------------------------------------------
(* A set of numbers that is not empty has a least one. *)
NatLess == {p \in Nat \X Nat : p[1] < p[2]}

(* The order of the natural numbers is well founded. *)
LEMMA NatLessWellFounded == IsWellFoundedOn(NatLess, Nat)
BY NatLessThanWellFounded DEF OpToRel, NatLess

(* The least element. *)
LEMMA LeastElement ==
  ASSUME NEW T, T \subseteq Nat, T # {}
  PROVE  \E x \in T : \A y \in T : x <= y
<1>1. PICK x \in T : \A y \in T : ~ (<<y, x>> \in NatLess)
  BY NatLessWellFounded, WFMin
<1>2. ASSUME NEW y \in T PROVE x <= y
  <2>1. x \in Nat /\ y \in Nat
    OBVIOUS
  <2>2. y < x => <<y, x>> \in NatLess
    BY <2>1 DEF NatLess
  <2> QED BY <1>1, <2>1, <2>2
<1> QED BY <1>2

(* What is kept of a text leaves room for its end, and something is kept   *)
(* of any text but the empty one.                                          *)
LEMMA FittedFacts ==
  ASSUME NEW text \in Seq(Nat), NEW room \in Nat \ {0, 1}
  PROVE  /\ Fitted(text, room) \in Seq(Nat)
         /\ Len(Fitted(text, room)) < room
         /\ Fitted(text, room) = << >> <=> text = << >>
<1> DEFINE n == IF Len(text) < room - 1 THEN Len(text) ELSE room - 1
<1>1. n \in 0..Len(text) /\ n < room /\ (n = 0 <=> Len(text) = 0)
  OBVIOUS
<1>2. Fitted(text, room) = SubSeq(text, 1, n)
  BY DEF Fitted
<1>3. SubSeq(text, 1, n) \in Seq(Nat) /\ Len(SubSeq(text, 1, n)) = n
  <2> HIDE DEF n
  <2> QED BY <1>1
<1>4. \A s \in Seq(Nat) : s = << >> <=> Len(s) = 0
  OBVIOUS
<1> QED BY <1>1, <1>2, <1>3, <1>4

(* The entries of a title. *)
LEMMA TitleEntries ==
  ASSUME title \in Titles
  PROVE  /\ Len(title.entries) \in Nat /\ DOMAIN title.entries = 1..Len(title.entries)
         /\ \A k \in DOMAIN title.entries : IsResource(title.entries[k])
BY SpaAssumption DEF IsTitle

(* The texts of a list. *)
LEMMA TextsOfList ==
  ASSUME NEW ts, AreTexts(ts)
  PROVE  /\ Len(ts) \in Nat /\ DOMAIN ts = 1..Len(ts)
         /\ \A k \in 1..Len(ts) : ts[k].text \in Seq(Nat) /\ ts[k].locale \in Nat
<1> DEFINE S == [locale : Nat, text : Seq(Nat)]
<1>1. ts \in Seq(S)
  BY DEF AreTexts
<1>2. Len(ts) \in Nat /\ DOMAIN ts = 1..Len(ts) /\ \A k \in 1..Len(ts) : ts[k] \in S
  <2> HIDE DEF S
  <2> QED BY <1>1
<1> QED BY <1>2

(* The strings of the resource in turn. *)
LEMMA StringsInTurn ==
  ASSUME title \in Titles, InStrings
  PROVE  /\ Entry \in Strings /\ AreStrings(Xml)
         /\ entry \in 1..Len(title.entries)
         /\ Len(Xml.names) \in Nat /\ DOMAIN Xml.names = 1..Len(Xml.names)
         /\ \A k \in 1..Len(Xml.names) :
              Xml.names[k].text \in Seq(Nat) /\ Xml.names[k].locale \in Nat
<1>1. entry \in DOMAIN title.entries /\ Entry = title.entries[entry] /\ IsResource(Entry)
  BY TitleEntries DEF InStrings, XsrcAt, Entry
<1>2. AreStrings(Xml)
  BY <1>1 DEF InStrings, IsResource, Xml
<1>3. AreTexts(Xml.names)
  BY <1>2 DEF AreStrings
<1>4. Entry \in Strings
  BY <1>1 DEF InStrings, XsrcAt, Strings, Resources, Xml, Entry
<1>6. entry \in 1..Len(title.entries)
  BY <1>1, TitleEntries
<1> QED BY <1>2, <1>3, <1>4, <1>6, TextsOfList

(* The only resource of strings has all the names. *)
LEMMA OnlyStrings ==
  ASSUME title \in Titles, InStrings, OneOfStrings, NEW l \in 1..Locales
  PROVE  Names(l) = FirstNames(Len(Xml.names), l)
<1>1. Strings = {Entry}
  BY StringsInTurn DEF Strings, Resources, OneOfStrings, InStrings, XsrcAt, Entry
<1>2. DOMAIN Xml.names = 1..Len(Xml.names)
  BY StringsInTurn
<1>3. TextsIn(Xml.names, l, NameRoom) \ {<< >>} = FirstNames(Len(Xml.names), l)
  BY <1>2 DEF TextsIn, FirstNames
<1>4. UNION {TextsIn(e.xml.names, l, NameRoom) : e \in {Entry}} = TextsIn(Xml.names, l, NameRoom)
  BY DEF Xml
<1>5. UNION {TextsIn(e.xml.names, l, NameRoom) : e \in Strings} = TextsIn(Xml.names, l, NameRoom)
  BY <1>1, <1>4
<1> QED BY <1>3, <1>5 DEF Names

-------------------------------------------------------------------------------
(* What says nothing of the place in the file but the title. *)
LEMMA TitleStays ==
  ASSUME title' = title
  PROVE  /\ Strings' = Strings /\ Resources' = Resources /\ OneOfStrings' = OneOfStrings
         /\ \A k : XsrcAt(k)' = XsrcAt(k)
         /\ \A l : Names(l)' = Names(l)
BY DEF Strings, Resources, OneOfStrings, XsrcAt, Names, TextsIn, Fitted

(* What says nothing but the entry either. *)
LEMMA EntryStays ==
  ASSUME title' = title, entry' = entry
  PROVE  /\ Passed' = Passed /\ InStrings' = InStrings
         /\ Xml' = Xml /\ DescriptionTexts' = DescriptionTexts
         /\ \A n, l : FirstNames(n, l)' = FirstNames(n, l)
BY TitleStays DEF Passed, InStrings, Xml, Entry, DescriptionTexts, FirstNames, Fitted

(* The next entry is passed. *)
LEMMA EntryPassed ==
  ASSUME title \in Titles, title' = title, entry \in 1..Len(title.entries), entry' = entry + 1
  PROVE  /\ entry' \in 1..(Len(title.entries) + 1)
         /\ Passed' = IF XsrcAt(entry) THEN Passed \cup {entry} ELSE Passed
<1>1. DOMAIN title.entries = 1..Len(title.entries) /\ Len(title.entries) \in Nat
  BY TitleEntries
<1>2. \A k \in 1..Len(title.entries) : k < entry + 1 <=> (k < entry \/ k = entry)
  OBVIOUS
<1>3. Passed' = {k \in 1..Len(title.entries) : k < entry + 1 /\ XsrcAt(k)}
  BY <1>1, TitleStays DEF Passed
<1>4. Passed = {k \in 1..Len(title.entries) : k < entry /\ XsrcAt(k)}
  BY <1>1 DEF Passed
<1> QED BY <1>1, <1>2, <1>3, <1>4

(* With one resource of strings, none lies in front of it. *)
LEMMA NonePassed ==
  ASSUME title \in Titles, OneOfStrings, XsrcAt(entry), entry \in Nat
  PROVE  Passed = {}
BY TitleEntries DEF Passed, XsrcAt, OneOfStrings

(* The texts do not change. *)
LEMMA TextsStay ==
  ASSUME title' = title, UNCHANGED <<displayName, description, thumbnail, titleThumbnail>>
  PROVE  /\ NamesOwn' = NamesOwn /\ DescriptionsOwn' = DescriptionsOwn
BY TitleStays DEF NamesOwn, DescriptionsOwn, OwnTexts, TextsIn, Fitted

(* Entries of other kinds, and what ends the walk over the entries. *)
LEMMA WalkKeepsTitleInv ==
  ASSUME TitleInv, ReadHeader \/ SkipEntry \/ EntryOutside \/ Finish
  PROVE  TitleInv'
<1>1. title' = title /\ title \in Titles
      /\ UNCHANGED <<hasIcon, hasName, thumbnail, titleThumbnail, Texts, translation>>
  BY DEF TitleInv, ReadHeader, SkipEntry, EntryOutside, Finish
<1>2. /\ titlePc \in {"header", "entries"} /\ titlePc' \in {"entries", "done"}
      /\ hasIcon \in BOOLEAN /\ hasName \in BOOLEAN /\ result' \in BOOLEAN
      /\ result' => titlePc' = "done" /\ hasIcon /\ hasName
  BY <1>1 DEF TitleInv, TitleTypeOK, ReadHeader, SkipEntry, EntryOutside, Finish, AtEntry
<1>3. entry' \in 1..(Len(title.entries) + 1) /\ Passed' = Passed
  <2>1. CASE SkipEntry
    <3>1. entry \in 1..Len(title.entries) /\ ~XsrcAt(entry)
      BY <2>1, TitleEntries DEF SkipEntry, AtEntry, IsXsrc, XsrcAt, Entry, TitleInv, TitleTypeOK
    <3> QED BY <1>1, <2>1, <3>1, EntryPassed DEF SkipEntry
  <2>2. CASE ReadHeader \/ EntryOutside \/ Finish
    BY <1>1, <2>2, EntryStays DEF ReadHeader, EntryOutside, Finish, TitleInv, TitleTypeOK
  <2> QED BY <2>1, <2>2
<1>4. NamesOwn' /\ DescriptionsOwn'
  BY <1>1, TextsStay DEF TitleInv, Texts
<1>5. OneOfStrings' => Progress'
  <2>1. SUFFICES ASSUME OneOfStrings PROVE Progress'
    BY <1>1, TitleStays
  <2>2. Progress
    BY <2>1 DEF TitleInv
  <2>3. titlePc' = "entries" /\ Passed' = {} => ~hasName' /\ \A l \in 1..Locales : displayName'[l] = << >>
    BY <1>1, <1>2, <1>3, <2>2 DEF Progress, Texts
  <2>4. hasName => titlePc = "entries" /\ Complete
    <3>1. titlePc = "header" => Passed = {}
      BY <1>1, TitleEntries DEF Passed, TitleInv
    <3> QED BY <1>2, <2>2, <3>1 DEF Progress
  <2>5. hasName' => Complete'
    BY <1>1, <2>4, TitleStays DEF Complete, Texts
  <2> QED BY <1>2, <2>3, <2>5 DEF Progress
<1>6. TitleTypeOK'
  BY <1>1, <1>2, <1>3 DEF TitleInv, TitleTypeOK, TitleStates, Texts, IsText
<1>7. hasIcon' => \E e \in Resources' : IconOf(e)' = thumbnail'
  BY <1>1, TitleStays DEF TitleInv, IconOf
<1> QED BY <1>1, <1>2, <1>4, <1>5, <1>6, <1>7 DEF TitleInv, Texts

(* The icon: both pictures are taken from one resource. *)
LEMMA TakeIconKeepsTitleInv ==
  ASSUME TitleInv, TakeIcon
  PROVE  TitleInv'
<1>1. title' = title /\ title \in Titles /\ titlePc = "entries"
      /\ UNCHANGED <<hasName, Texts, translation, result>>
  BY DEF TitleInv, TakeIcon, AtEntry
<1>2. /\ entry \in 1..Len(title.entries) /\ Entry \in Resources /\ ~XsrcAt(entry)
      /\ IconOf(Entry) = Entry.icon /\ ~result
  BY TitleEntries DEF TakeIcon, AtEntry, TitleInv, TitleTypeOK, Resources, Entry, IsIcon, IconOf, XsrcAt
<1>3. /\ entry' \in 1..(Len(title.entries) + 1) /\ Passed' = Passed
      /\ titlePc' \in {"entries", "done"} /\ hasIcon' \in BOOLEAN
  BY <1>1, <1>2, EntryPassed, EntryStays DEF TakeIcon, TitleInv, TitleTypeOK
<1>4. thumbnail' = titleThumbnail' /\ (hasIcon' => \E e \in Resources' : IconOf(e)' = thumbnail')
  BY <1>1, <1>2, TitleStays DEF TakeIcon, TitleInv, IconOf
<1>5. NamesOwn' /\ DescriptionsOwn'
  BY <1>1, TitleStays DEF TitleInv, NamesOwn, DescriptionsOwn, OwnTexts, TextsIn, Fitted, Texts
<1>6. OneOfStrings' => Progress'
  <2>1. SUFFICES ASSUME OneOfStrings PROVE Progress'
    BY <1>1, TitleStays
  <2>2. Progress
    BY <2>1 DEF TitleInv
  <2>3. hasName => Complete'
    BY <1>1, <2>2, TitleStays DEF Progress, Complete, Texts
  <2> QED BY <1>1, <1>3, <2>2, <2>3 DEF Progress, Texts
<1>7. TitleTypeOK'
  BY <1>1, <1>3 DEF TitleInv, TitleTypeOK, TitleStates, Texts, IsText
<1> QED BY <1>1, <1>2, <1>3, <1>4, <1>5, <1>6, <1>7 DEF TitleInv, Texts

(* The strings: their names are still to come. *)
LEMMA TakeStringsKeepsTitleInv ==
  ASSUME TitleInv, TakeStrings
  PROVE  TitleInv'
<1>1. title' = title /\ title \in Titles /\ titlePc = "entries"
      /\ UNCHANGED <<hasIcon, hasName, thumbnail, titleThumbnail, displayName, description, result>>
  BY DEF TitleInv, TakeStrings, AtEntry
<1>2. /\ entry \in 1..Len(title.entries) /\ XsrcAt(entry) /\ ~result /\ hasName \in BOOLEAN
      /\ Unpacked => InStrings
  BY TitleEntries
     DEF TakeStrings, AtEntry, TitleInv, TitleTypeOK, XsrcAt, Entry, IsXsrc, Unpacked, InStrings
<1>3. \/ /\ titlePc' = "entries" /\ entry' = entry + 1
         /\ translation' = translation
      \/ /\ titlePc' = "names" /\ entry' = entry /\ translation' = 1
         /\ Unpacked
  BY <1>1 DEF TakeStrings
<1>4. IsText(titleName') /\ Len(titleName') < NameRoom
  <2>1. CASE ~Unpacked \/ Xml.titleName = Absent
    BY <2>1 DEF TakeStrings, TitleInv, TitleTypeOK, IsText
  <2>2. CASE Unpacked /\ Xml.titleName # Absent
    <3>1. Xml.titleName \in Seq(Nat)
      BY <1>1, <1>2, <2>2, StringsInTurn DEF AreStrings, IsText
    <3>2. titleName' = Fitted(Xml.titleName, NameRoom)
      BY <2>2 DEF TakeStrings
    <3> QED BY <3>1, <3>2, FittedFacts, SpaAssumption DEF IsText
  <2> QED BY <2>1, <2>2
<1>5. entry' \in 1..(Len(title.entries) + 1)
  BY <1>2, <1>3
<1>6. TitleTypeOK'
  BY <1>1, <1>3, <1>4, <1>5 DEF TitleInv, TitleTypeOK, TitleStates, IsText
<1>7. NamesOwn' /\ DescriptionsOwn'
  BY <1>1, TextsStay DEF TitleInv
<1>8. titlePc' = "names" => InStrings' /\ translation' <= Len(Xml.names)' + 1
  BY <1>1, <1>2, <1>3, EntryStays, StringsInTurn
<1>9. OneOfStrings' => Progress'
  <2>1. SUFFICES ASSUME OneOfStrings PROVE Progress'
    BY <1>1, TitleStays
  <2>2. Passed = {} /\ ~hasName /\ \A l \in 1..Locales : displayName[l] = << >>
    BY <1>1, <1>2, <2>1, NonePassed DEF TitleInv, Progress
  <2>3. ~hasName' /\ \A l \in 1..Locales : displayName'[l] = << >>
    BY <1>1, <2>2
  <2>4. titlePc' = "names" => NamesTaken(translation - 1)'
    <3>1. SUFFICES ASSUME titlePc' = "names" PROVE NamesTaken(translation - 1)'
      OBVIOUS
    <3>2. \A l \in 1..Locales : FirstNames(translation - 1, l)' = {}
      BY <1>3, <3>1 DEF FirstNames
    <3> QED BY <2>3, <3>2 DEF NamesTaken
  <2> QED BY <1>3, <2>3, <2>4 DEF Progress
<1>10. hasIcon' => \E e \in Resources' : IconOf(e)' = thumbnail'
  BY <1>1, TitleStays DEF TitleInv, IconOf
<1> QED BY <1>1, <1>2, <1>3, <1>6, <1>7, <1>8, <1>9, <1>10 DEF TitleInv

(* One more name. *)
LEMMA OneMoreName ==
  ASSUME TitleInv, titlePc = "names", translation <= Len(Xml.names), Known(Xml.names[translation].locale)
  PROVE  LET t   == Xml.names[translation]
             new == Put(displayName, t, NameRoom)
         IN  /\ new \in [1..Locales -> Seq(Nat)]
             /\ \A l \in 1..Locales :
                  /\ new[l] = displayName[l] \/ (l = t.locale /\ t.text # << >> /\ new[l] = Fitted(t.text, NameRoom))
                  /\ Len(new[l]) < NameRoom
             /\ \A l \in 1..Locales :
                  FirstNames(translation, l) =
                    IF l = t.locale /\ t.text # << >>
                    THEN FirstNames(translation - 1, l) \cup {new[l]} ELSE FirstNames(translation - 1, l)
             /\ t.text # << >> => new[t.locale] = Fitted(t.text, NameRoom) /\ new[t.locale] # << >>
<1> DEFINE t   == Xml.names[translation]
           new == Put(displayName, t, NameRoom)
<1>1. translation \in 1..Len(Xml.names) /\ t.text \in Seq(Nat) /\ t.locale \in 1..Locales
      /\ displayName \in [1..Locales -> Seq(Nat)]
      /\ \A l \in 1..Locales : Len(displayName[l]) < NameRoom
  BY StringsInTurn DEF TitleInv, TitleTypeOK, Known
<1>2. Fitted(t.text, NameRoom) \in Seq(Nat) /\ Len(Fitted(t.text, NameRoom)) < NameRoom
      /\ (Fitted(t.text, NameRoom) = << >> <=> t.text = << >>)
  BY <1>1, FittedFacts, SpaAssumption
<1>3. new = IF t.text = << >> THEN displayName
            ELSE [displayName EXCEPT ![t.locale] = Fitted(t.text, NameRoom)]
  BY DEF Put, Place
<1>4. new \in [1..Locales -> Seq(Nat)]
      /\ \A l \in 1..Locales :
           new[l] = IF l = t.locale /\ t.text # << >> THEN Fitted(t.text, NameRoom) ELSE displayName[l]
  <2> HIDE DEF t, new
  <2> QED BY <1>1, <1>2, <1>3
<1>5. \A j : j \in 1..translation <=> j \in 1..(translation - 1) \/ j = translation
  BY <1>1
<1>6. ASSUME NEW l \in 1..Locales
      PROVE  FirstNames(translation, l) =
               IF l = t.locale THEN FirstNames(translation - 1, l) \cup ({Fitted(t.text, NameRoom)} \ {<< >>})
               ELSE FirstNames(translation - 1, l)
  BY <1>5 DEF FirstNames
<1>7. ASSUME NEW l \in 1..Locales
      PROVE  FirstNames(translation, l) =
               IF l = t.locale /\ t.text # << >>
               THEN FirstNames(translation - 1, l) \cup {new[l]} ELSE FirstNames(translation - 1, l)
  <2> HIDE DEF t, new
  <2> QED BY <1>2, <1>4, <1>6
<1> HIDE DEF t, new
<1>8. \A l \in 1..Locales :
        /\ new[l] = displayName[l] \/ (l = t.locale /\ t.text # << >> /\ new[l] = Fitted(t.text, NameRoom))
        /\ Len(new[l]) < NameRoom
  BY <1>1, <1>2, <1>4
<1>9. t.text # << >> => new[t.locale] = Fitted(t.text, NameRoom) /\ new[t.locale] # << >>
  BY <1>1, <1>2, <1>4
<1> QED BY <1>4, <1>7, <1>8, <1>9 DEF t, new

(* A name goes where its language is kept, or ends the parse. *)
LEMMA NextNameKeepsTitleInv ==
  ASSUME TitleInv, NextName
  PROVE  TitleInv'
<1> DEFINE t == Xml.names[translation]
<1>1. title' = title /\ title \in Titles /\ titlePc = "names" /\ InStrings
      /\ translation \in 1..Len(Xml.names) /\ ~result
      /\ UNCHANGED <<hasIcon, hasName, thumbnail, titleThumbnail, titleName, description, result>>
  BY StringsInTurn DEF TitleInv, NextName
<1>2. /\ entry \in 1..Len(title.entries) /\ XsrcAt(entry) /\ Entry \in Strings
      /\ Len(Xml.names) \in Nat /\ DOMAIN Xml.names = 1..Len(Xml.names)
  BY <1>1, StringsInTurn DEF InStrings
<1>3. hasIcon' => \E e \in Resources' : IconOf(e)' = thumbnail'
  BY <1>1, TitleStays DEF TitleInv, IconOf
<1>4. DescriptionsOwn'
  BY <1>1, TitleStays DEF TitleInv, DescriptionsOwn, OwnTexts, TextsIn, Fitted
<1>5. CASE Known(t.locale)
  <2>1. /\ displayName' = Put(displayName, t, NameRoom)
        /\ translation' = translation + 1 /\ titlePc' = "names" /\ entry' = entry
    BY <1>1, <1>5 DEF NextName
  <2>2. /\ displayName' \in [1..Locales -> Seq(Nat)]
        /\ \A l \in 1..Locales :
             /\ displayName'[l] = displayName[l]
                  \/ (l = t.locale /\ t.text # << >> /\ displayName'[l] = Fitted(t.text, NameRoom))
             /\ Len(displayName'[l]) < NameRoom
             /\ FirstNames(translation, l) =
                  IF l = t.locale /\ t.text # << >>
                  THEN FirstNames(translation - 1, l) \cup {displayName'[l]} ELSE FirstNames(translation - 1, l)
        /\ t.text # << >> => displayName'[t.locale] # << >>
    BY <1>1, <1>5, <2>1, OneMoreName
  <2>3. NamesOwn'
    <3>1. SUFFICES ASSUME NEW l \in 1..Locales, displayName'[l] # << >>
                   PROVE  \E e \in Strings : displayName'[l] \in TextsIn(e.xml.names, l, NameRoom)
      BY <1>1, TitleStays DEF NamesOwn, TextsIn, Fitted
    <3>2. CASE displayName'[l] = displayName[l]
      BY <3>1, <3>2 DEF TitleInv, NamesOwn
    <3>3. CASE l = t.locale /\ displayName'[l] = Fitted(t.text, NameRoom)
      BY <1>1, <1>2, <3>3 DEF TextsIn, Xml
    <3> QED BY <2>2, <3>2, <3>3
  <2>4. OneOfStrings' => Progress'
    <3>1. SUFFICES ASSUME OneOfStrings PROVE NamesTaken(translation - 1)'
      BY <1>1, <2>1, TitleStays DEF Progress, TitleInv
    <3>2. NamesTaken(translation - 1)
      BY <1>1, <3>1 DEF TitleInv, Progress
    <3>3. \A l \in 1..Locales : IF FirstNames(translation, l) = {} THEN displayName'[l] = << >>
                                ELSE displayName'[l] \in FirstNames(translation, l)
      <4>1. SUFFICES ASSUME NEW l \in 1..Locales
                     PROVE  IF FirstNames(translation, l) = {} THEN displayName'[l] = << >>
                            ELSE displayName'[l] \in FirstNames(translation, l)
        OBVIOUS
      <4>2. CASE l = t.locale /\ t.text # << >>
        BY <2>2, <4>2
      <4>3. CASE ~(l = t.locale /\ t.text # << >>)
        BY <2>2, <3>2, <4>3 DEF NamesTaken
      <4> QED BY <4>2, <4>3
    <3>4. translation' - 1 = translation
      BY <1>1, <2>1
    <3>5. ASSUME NEW l PROVE FirstNames(translation - 1, l)' = FirstNames(translation, l)
      BY <1>1, <2>1, <3>4, EntryStays DEF FirstNames, Fitted
    <3> QED BY <3>3, <3>5 DEF NamesTaken
  <2>5. TitleTypeOK'
    BY <1>1, <1>2, <2>1, <2>2 DEF TitleInv, TitleTypeOK, TitleStates, IsText
  <2>6. InStrings' /\ translation' <= Len(Xml.names)' + 1
    BY <1>1, <1>2, <2>1, EntryStays
  <2> QED BY <1>1, <1>3, <1>4, <2>1, <2>2, <2>3, <2>4, <2>5, <2>6 DEF TitleInv
<1>6. CASE ~Known(t.locale)
  <2>1. /\ titlePc' = "entries" /\ entry' = entry + 1
        /\ displayName' = displayName /\ translation' = translation
    BY <1>1, <1>6 DEF NextName
  <2>2. entry' \in 1..(Len(title.entries) + 1) /\ Passed' # {}
    BY <1>1, <1>2, <2>1, EntryPassed
  <2>3. NamesOwn'
    BY <1>1, <2>1, TextsStay DEF TitleInv
  <2>4. OneOfStrings' => Progress'
    <3>1. OneOfStrings => ~hasName
      BY <1>1 DEF TitleInv, Progress
    <3> QED BY <1>1, <2>1, <2>2, <3>1, TitleStays DEF Progress
  <2>5. TitleTypeOK'
    BY <1>1, <2>1, <2>2 DEF TitleInv, TitleTypeOK, TitleStates, IsText
  <2> QED BY <1>1, <1>3, <1>4, <2>1, <2>3, <2>4, <2>5 DEF TitleInv
<1> QED BY <1>5, <1>6

(* What each step after the names leaves. *)
LEMMA AfterNames ==
  ASSUME TitleInv, InStrings, entry' = entry, title' = title,
         UNCHANGED <<hasIcon, hasName, thumbnail, titleThumbnail, titleName, displayName, result>>
  PROVE  /\ NamesOwn' /\ InStrings'
         /\ (hasIcon' => \E e \in Resources' : IconOf(e)' = thumbnail')
<1>1. NamesOwn'
  BY TitleStays DEF TitleInv, NamesOwn, TextsIn, Fitted
<1>2. hasIcon' => \E e \in Resources' : IconOf(e)' = thumbnail'
  BY TitleStays DEF TitleInv, IconOf
<1> QED BY <1>1, <1>2, EntryStays

(* The stand-ins for descriptions are the names of the same language. *)
LEMMA NamesDoneKeepsTitleInv ==
  ASSUME TitleInv, NamesDone
  PROVE  TitleInv'
<1>1. title' = title /\ title \in Titles /\ titlePc = "names" /\ InStrings /\ entry' = entry
      /\ translation = Len(Xml.names) + 1 /\ Len(Xml.names) \in Nat /\ ~result
      /\ UNCHANGED <<hasIcon, hasName, thumbnail, titleThumbnail, titleName, displayName, result>>
  BY StringsInTurn DEF TitleInv, NamesDone
<1>2. /\ translation' = 1
      /\ titlePc' \in {"descriptions", "strings"}
      /\ titlePc' = "descriptions" => DescriptionTexts # Absent
      /\ description' \in {TitlesAsDescriptions, NoTexts, description}
  BY <1>1 DEF NamesDone
<1>3. description' = [l \in 1..Locales |-> description'[l]]
  BY <1>2 DEF TitleInv, TitlesAsDescriptions, NoTexts
<1>4. DescriptionsOwn'
  <2>1. ASSUME NEW l \in 1..Locales
        PROVE  \/ description'[l] \in {description[l], NoDescription}
               \/ description'[l] = displayName[l] /\ displayName[l] # << >>
    BY <1>2 DEF TitlesAsDescriptions, NoTexts
  <2>2. ASSUME NEW l \in 1..Locales, displayName[l] # << >>
        PROVE  \E e \in Strings : displayName[l] \in OwnTexts(e.xml, l)
    BY <2>2 DEF TitleInv, NamesOwn, OwnTexts
  <2>3. \A l \in 1..Locales :
          description'[l] \in {<< >>, NoDescription}
            \/ \E e \in Strings : description'[l] \in OwnTexts(e.xml, l)
    BY <2>1, <2>2 DEF TitleInv, DescriptionsOwn
  <2> QED BY <1>1, <2>3, TitleStays DEF DescriptionsOwn, OwnTexts, TextsIn, Fitted
<1>5. NamesOwn' /\ InStrings' /\ (hasIcon' => \E e \in Resources' : IconOf(e)' = thumbnail')
  BY <1>1, AfterNames
<1>6. OneOfStrings' => Progress'
  <2>1. SUFFICES ASSUME OneOfStrings PROVE Progress'
    BY <1>1, TitleStays
  <2>2. NamesTaken(translation - 1) /\ ~hasName
    BY <1>1, <2>1 DEF TitleInv, Progress
  <2>3. NamesTaken(Len(Xml.names))
    BY <1>1, <2>2
  <2>4. Xml' = Xml /\ displayName' = displayName
    BY <1>1, EntryStays
  <2>5. \A n, l : FirstNames(n, l)' = FirstNames(n, l)
    BY <2>4 DEF FirstNames, Fitted
  <2>6. NamesTaken(Len(Xml.names))'
    BY <2>3, <2>4, <2>5 DEF NamesTaken
  <2> QED BY <1>1, <1>2, <2>2, <2>6 DEF Progress
<1>7. TitleTypeOK'
  BY <1>1, <1>2 DEF TitleInv, TitleTypeOK, TitleStates, IsText
<1> QED BY <1>1, <1>2, <1>3, <1>4, <1>5, <1>6, <1>7, EntryStays DEF TitleInv

(* A description goes where its language is kept, or the parse crashes. *)
LEMMA NextDescriptionKeepsTitleInv ==
  ASSUME TitleInv, NextDescription
  PROVE  TitleInv'
<1> DEFINE t == DescriptionTexts[translation]
<1>1. title' = title /\ title \in Titles /\ titlePc = "descriptions" /\ InStrings /\ entry' = entry
      /\ translation \in Nat \ {0} /\ translation <= Len(DescriptionTexts)
      /\ DescriptionTexts # Absent /\ ~result
      /\ UNCHANGED <<hasIcon, hasName, thumbnail, titleThumbnail, titleName, displayName, result>>
  BY DEF TitleInv, NextDescription
<1>2. /\ DescriptionTexts \in {Xml.sell, Xml.publisher, Xml.developer} \ {Absent}
      /\ AreTexts(DescriptionTexts)
  BY <1>1, StringsInTurn DEF DescriptionTexts, AreStrings
<1>3. translation \in DOMAIN DescriptionTexts /\ t.text \in Seq(Nat)
  BY <1>1, <1>2, TextsOfList
<1>4. titlePc' \in {"descriptions", "crashed"} /\ translation' \in Nat \ {0}
      /\ (description' = description \/ (Known(t.locale) /\ description' = Put(description, t, DescRoom)))
  BY <1>1 DEF NextDescription, Describe
<1>5. ASSUME NEW l \in 1..Locales
      PROVE  description'[l] = description[l] \/ (l = t.locale /\ description'[l] = Fitted(t.text, DescRoom))
  <2> HIDE DEF t
  <2> QED BY <1>4 DEF Put, Place, TitleInv
<1>6. description' = [l \in 1..Locales |-> description'[l]]
  <2> HIDE DEF t
  <2> QED BY <1>4 DEF Put, Place, TitleInv
<1>7. DescriptionsOwn'
  <2>1. ASSUME NEW l \in 1..Locales, l = t.locale
        PROVE  Fitted(t.text, DescRoom) \in OwnTexts(Xml, l)
    BY <1>2, <1>3, <2>1 DEF OwnTexts, TextsIn
  <2>2. Entry \in Strings /\ Xml = Entry.xml
    BY <1>1, StringsInTurn DEF Xml
  <2>3. ASSUME NEW l \in 1..Locales
        PROVE  description'[l] \in {<< >>, NoDescription}
                 \/ \E e \in Strings : description'[l] \in OwnTexts(e.xml, l)
    <3>1. CASE description'[l] = description[l]
      BY <3>1 DEF TitleInv, DescriptionsOwn
    <3>2. CASE l = t.locale /\ description'[l] = Fitted(t.text, DescRoom)
      BY <2>1, <2>2, <3>2
    <3> QED BY <1>5, <3>1, <3>2
  <2> QED BY <1>1, <2>3, TitleStays DEF DescriptionsOwn, OwnTexts, TextsIn, Fitted
<1>8. NamesOwn' /\ InStrings' /\ (hasIcon' => \E e \in Resources' : IconOf(e)' = thumbnail')
  BY <1>1, AfterNames
<1>9. OneOfStrings' => Progress'
  <2>1. SUFFICES ASSUME OneOfStrings PROVE Progress'
    BY <1>1, TitleStays
  <2>2. NamesTaken(Len(Xml.names)) /\ ~hasName
    BY <1>1, <2>1 DEF TitleInv, Progress
  <2>3. NamesTaken(Len(Xml.names))'
    BY <1>1, <2>2, EntryStays DEF NamesTaken, FirstNames, Fitted
  <2> QED BY <1>1, <1>4, <2>2, <2>3 DEF Progress
<1>10. TitleTypeOK'
  BY <1>1, <1>4 DEF TitleInv, TitleTypeOK, TitleStates, IsText
<1> HIDE DEF t
<1> QED BY <1>1, <1>4, <1>6, <1>7, <1>8, <1>9, <1>10, EntryStays DEF TitleInv

(* The descriptions are through. *)
LEMMA DescriptionsDoneKeepsTitleInv ==
  ASSUME TitleInv, DescriptionsDone
  PROVE  TitleInv'
<1>1. title' = title /\ title \in Titles /\ titlePc = "descriptions" /\ InStrings /\ entry' = entry
      /\ titlePc' = "strings" /\ ~result
      /\ UNCHANGED <<hasIcon, hasName, thumbnail, titleThumbnail, titleName, displayName, description,
                     translation, result>>
  BY DEF TitleInv, DescriptionsDone, Texts
<1>2. NamesOwn' /\ InStrings' /\ (hasIcon' => \E e \in Resources' : IconOf(e)' = thumbnail')
      /\ DescriptionsOwn'
  BY <1>1, AfterNames, TextsStay DEF TitleInv
<1>3. OneOfStrings' => Progress'
  <2>1. SUFFICES ASSUME OneOfStrings PROVE Progress'
    BY <1>1, TitleStays
  <2>2. NamesTaken(Len(Xml.names)) /\ ~hasName
    BY <1>1, <2>1 DEF TitleInv, Progress
  <2>3. NamesTaken(Len(Xml.names))'
    BY <1>1, <2>2, EntryStays DEF NamesTaken, FirstNames, Fitted
  <2> QED BY <1>1, <2>2, <2>3 DEF Progress
<1>4. TitleTypeOK'
  BY <1>1 DEF TitleInv, TitleTypeOK, TitleStates, IsText
<1> QED BY <1>1, <1>2, <1>3, <1>4 DEF TitleInv

(* The title that is shown. *)
LEMMA FixedTitleFacts ==
  ASSUME TitleInv
  PROVE  /\ IsText(FixedTitleName) /\ Len(FixedTitleName) < NameRoom
         /\ NamedLocales # {} => FixedTitleName # << >>
<1>1. CASE titleName = << >> /\ NamedLocales # {}
  <2>1. NamedLocales \subseteq Nat /\ NamedLocales \subseteq 1..Locales
    BY SpaAssumption DEF NamedLocales
  <2>2. PICK l \in NamedLocales : \A m \in NamedLocales : l <= m
    BY <1>1, <2>1, LeastElement
  <2> DEFINE first == CHOOSE k \in NamedLocales : \A m \in NamedLocales : k <= m
  <2>3. first \in NamedLocales
    BY <2>2
  <2>4. FixedTitleName = displayName[first]
    BY <1>1 DEF FixedTitleName
  <2> HIDE DEF first
  <2> QED BY <2>1, <2>3, <2>4 DEF NamedLocales, TitleInv, TitleTypeOK
<1>2. CASE ~(titleName = << >> /\ NamedLocales # {})
  BY <1>2 DEF FixedTitleName, TitleInv, TitleTypeOK
<1> QED BY <1>1, <1>2

(* The resource of strings is through. *)
LEMMA StringsDoneKeepsTitleInv ==
  ASSUME TitleInv, StringsDone
  PROVE  TitleInv'
<1>1. title' = title /\ title \in Titles /\ titlePc = "strings" /\ InStrings /\ entry' = entry + 1
      /\ titlePc' = "entries" /\ hasName' = TRUE /\ titleName' = FixedTitleName /\ ~result
      /\ UNCHANGED <<hasIcon, thumbnail, titleThumbnail, displayName, description, translation, result>>
  BY DEF TitleInv, StringsDone
<1>2. entry \in 1..Len(title.entries) /\ XsrcAt(entry)
  BY <1>1, StringsInTurn DEF InStrings
<1>3. entry' \in 1..(Len(title.entries) + 1) /\ Passed' # {}
  BY <1>1, <1>2, EntryPassed
<1>4. NamesOwn' /\ DescriptionsOwn'
  BY <1>1, TextsStay DEF TitleInv
<1>5. OneOfStrings' => Progress'
  <2>1. SUFFICES ASSUME OneOfStrings PROVE Complete'
    BY <1>1, <1>3, TitleStays DEF Progress
  <2>2. NamesTaken(Len(Xml.names))
    BY <1>1, <2>1 DEF TitleInv, Progress
  <2>3. ASSUME NEW l \in 1..Locales
        PROVE  IF Names(l) = {} THEN displayName[l] = << >> ELSE displayName[l] \in Names(l)
    BY <1>1, <2>1, <2>2, OnlyStrings DEF NamesTaken
  <2>4. ASSUME NEW l \in 1..Locales, Names(l) # {} PROVE titleName' # << >>
    <3>1. displayName[l] # << >>
      BY <2>3, <2>4 DEF Names
    <3> QED BY <1>1, <3>1, FixedTitleFacts DEF NamedLocales
  <2> QED BY <1>1, <2>3, <2>4, TitleStays DEF Complete
<1>6. TitleTypeOK'
  BY <1>1, <1>3, FixedTitleFacts DEF TitleInv, TitleTypeOK, TitleStates, IsText
<1>7. hasIcon' => \E e \in Resources' : IconOf(e)' = thumbnail'
  BY <1>1, TitleStays DEF TitleInv, IconOf
<1> QED BY <1>1, <1>4, <1>5, <1>6, <1>7 DEF TitleInv

(* Parsing keeps the invariant. *)
LEMMA TitleInvariant == TitleSpec => []TitleInv
<1>1. TitleInit => TitleInv
  <2>1. SUFFICES ASSUME TitleInit PROVE TitleInv
    OBVIOUS
  <2>2. TitleTypeOK
    <3>1. << >> \in Seq(Nat) /\ Len(<< >>) < NameRoom
      BY SpaAssumption
    <3>2. \A l \in 1..Locales : displayName[l] = << >>
      BY <2>1 DEF TitleInit
    <3>3. entry \in 1..(Len(title.entries) + 1)
      BY <2>1, TitleEntries DEF TitleInit
    <3> QED BY <2>1, <3>1, <3>2, <3>3 DEF TitleInit, TitleTypeOK, TitleStates, IsText
  <2>3. NamesOwn /\ DescriptionsOwn
    BY <2>1 DEF TitleInit, NamesOwn, DescriptionsOwn
  <2>4. Progress
    BY <2>1 DEF TitleInit, Progress
  <2> QED BY <2>1, <2>2, <2>3, <2>4 DEF TitleInit, TitleInv
<1>2. TitleInv /\ [TitleNext]_titleVars => TitleInv'
  <2>1. ASSUME TitleInv, UNCHANGED titleVars PROVE TitleInv'
    <3>1. UNCHANGED <<title, titlePc, entry, hasIcon, hasName, thumbnail, titleThumbnail,
                      titleName, displayName, description, translation, result>>
      BY <2>1 DEF titleVars
    <3>2. NamesOwn' /\ DescriptionsOwn' /\ (hasIcon' => \E e \in Resources' : IconOf(e)' = thumbnail')
      BY <2>1, <3>1, TextsStay, TitleStays DEF TitleInv, IconOf
    <3>3. OneOfStrings' => Progress'
      <4>1. NamesTaken(translation - 1) => NamesTaken(translation - 1)'
        BY <3>1, EntryStays DEF NamesTaken, FirstNames, Fitted
      <4>2. ASSUME NamesTaken(Len(Xml.names)) PROVE NamesTaken(Len(Xml.names))'
        <5>1. displayName' = displayName /\ Xml' = Xml
          BY <3>1, EntryStays
        <5> QED BY <4>2, <5>1 DEF NamesTaken, FirstNames, Fitted
      <4>3. Complete => Complete'
        BY <3>1, TitleStays DEF Complete
      <4> QED BY <2>1, <3>1, <4>1, <4>2, <4>3, EntryStays, TitleStays DEF TitleInv, Progress
    <3>4. TitleTypeOK'
      BY <2>1, <3>1 DEF TitleInv, TitleTypeOK, IsText
    <3> QED BY <2>1, <3>1, <3>2, <3>3, <3>4, EntryStays, TitleStays DEF TitleInv
  <2> QED BY <2>1, WalkKeepsTitleInv, TakeIconKeepsTitleInv, TakeStringsKeepsTitleInv,
             NextNameKeepsTitleInv, NamesDoneKeepsTitleInv, NextDescriptionKeepsTitleInv,
             DescriptionsDoneKeepsTitleInv, StringsDoneKeepsTitleInv
          DEF TitleNext
<1> QED BY <1>1, <1>2, PTL DEF TitleSpec

(* Whatever resources a title has and in whatever order they lie: what a   *)
(* complete parse leaves in the header belongs together, and no language   *)
(* gets a description of another.                                          *)
THEOREM MetadataIsExact == TitleSpec => []MetadataExact
<1>1. TitleInv => MetadataExact
  <2>1. SUFFICES ASSUME TitleInv, result PROVE MetadataComplete
    BY DEF MetadataExact, TitleInv
  <2>2. titlePc = "done" /\ hasIcon /\ hasName
    BY <2>1 DEF TitleInv
  <2>3. OneOfStrings => Complete
    BY <2>1, <2>2 DEF TitleInv, Progress
  <2> QED BY <2>1, <2>2, <2>3 DEF MetadataComplete, Complete, TitleInv
<1> QED BY <1>1, TitleInvariant, PTL

-------------------------------------------------------------------------------
(* The folder of a conversion. *)

(* What keeps a conversion from its folder and was there before it. *)
Obstacle(p) == \E path \in WayTo(p) : initialFs[path] = "file" \/ path \in denied

(* Nothing is removed, and only folders are made. *)
OnlyFoldersMade ==
  \A path \in Paths :
    /\ initialFs[path] # "absent" => folderFs[path] = initialFs[path]
    /\ folderFs[path] = "file" => initialFs[path] = "file"

(* Whatever there is lies in folders. *)
InFolders ==
  \A path \in Paths : folderFs[path] # "absent" =>
    \A k \in 1..(Len(path) - 1) : folderFs[SubSeq(path, 1, k)] = "dir"

(* Nobody else makes the folder of a conversion. *)
NotYetMade(p) ==
  folderAt[p] = "exists" => cur[p] = 1 /\ folderFs[baseOutPath[p]] = initialFs[baseOutPath[p]]

(* There is something at every name doRecursiveCreateDir has passed. *)
PassedExist(p) ==
  folderAt[p] = "create" => \A k \in 1..(cur[p] - 1) : folderFs[SubSeq(baseOutPath[p], 1, k)] # "absent"

FreshFolder(p) == folderAt[p] \in {"create", "created", "made"} => initialFs[baseOutPath[p]] = "absent"
MadeOrHindered(p) == folderAt[p] = "created" => folderFs[baseOutPath[p]] = "dir" \/ Obstacle(p)
FolderMade(p) == folderAt[p] = "made" => folderFs[baseOutPath[p]] = "dir"
FailedForReason(p) == folderAt[p] = "failed" => initialFs[baseOutPath[p]] # "absent" \/ Obstacle(p)

ConversionInv(p) ==
  /\ NotYetMade(p) /\ PassedExist(p) /\ FreshFolder(p)
  /\ MadeOrHindered(p) /\ FolderMade(p) /\ FailedForReason(p)

FolderInv ==
  /\ FolderTypeOK /\ initialFs \in [Paths -> {"absent", "dir", "file"}]
  /\ OnlyFoldersMade /\ InFolders
  /\ \A p \in Conversions : ConversionInv(p)

-------------------------------------------------------------------------------
(* What the way to a path is made of. *)
LEMMA Ways ==
  ASSUME NEW path \in Seq(FileNames), NEW k \in 1..Len(path)
  PROVE  /\ SubSeq(path, 1, k) \in Seq(FileNames)
         /\ Len(SubSeq(path, 1, k)) = k
         /\ SubSeq(path, 1, Len(path)) = path
         /\ \A j \in 1..k : SubSeq(SubSeq(path, 1, k), 1, j) = SubSeq(path, 1, j)
<1>1. /\ SubSeq(path, 1, k) \in Seq(FileNames)
      /\ Len(SubSeq(path, 1, k)) = k
  OBVIOUS
<1>2. SubSeq(path, 1, Len(path)) = path
  OBVIOUS
<1>3. ASSUME NEW j \in 1..k
      PROVE  SubSeq(SubSeq(path, 1, k), 1, j) = SubSeq(path, 1, j)
  <2> DEFINE way == SubSeq(path, 1, k)
  <2>1. way \in Seq(FileNames) /\ Len(way) = k
    BY <1>1
  <2>2. \A i \in 1..k : way[i] = path[i]
    OBVIOUS
  <2>3. /\ SubSeq(way, 1, j) \in Seq(FileNames) /\ Len(SubSeq(way, 1, j)) = j
        /\ SubSeq(path, 1, j) \in Seq(FileNames) /\ Len(SubSeq(path, 1, j)) = j
    BY <2>1
  <2>4. \A i \in 1..j : SubSeq(way, 1, j)[i] = SubSeq(path, 1, j)[i]
    BY <2>1, <2>2
  <2> QED BY <2>3, <2>4, SeqEqual
<1> QED BY <1>1, <1>2, <1>3

(* The way to a data folder. *)
LEMMA DataFolders ==
  ASSUME NEW p \in Conversions
  PROVE  /\ baseOutPath[p] \in Paths /\ baseOutPath[p] \in Seq(FileNames)
         /\ Len(baseOutPath[p]) \in Nat \ {0}
         /\ baseOutPath[p] \in WayTo(p)
         /\ \A k \in 1..Len(baseOutPath[p]) :
              SubSeq(baseOutPath[p], 1, k) \in Paths /\ SubSeq(baseOutPath[p], 1, k) \in WayTo(p)
<1>1. baseOutPath[p] \in Paths /\ baseOutPath[p] \in Seq(FileNames) /\ baseOutPath[p] # << >>
  BY FolderAssumption
<1>2. Len(baseOutPath[p]) \in Nat \ {0}
  BY <1>1, EmptySeq
<1>3. SubSeq(baseOutPath[p], 1, Len(baseOutPath[p])) = baseOutPath[p]
  BY <1>1, <1>2, Ways
<1>4. ASSUME NEW k \in 1..Len(baseOutPath[p])
      PROVE  SubSeq(baseOutPath[p], 1, k) \in Paths
  <2>1. CASE k = Len(baseOutPath[p])
    BY <2>1, <1>1, <1>3
  <2>2. CASE k # Len(baseOutPath[p])
    BY <2>2, <1>1, <1>2, FolderAssumption
  <2> QED BY <2>1, <2>2
<1> QED BY <1>1, <1>2, <1>3, <1>4 DEF WayTo

-------------------------------------------------------------------------------
(* The initial states. *)
LEMMA FolderInitInv == ASSUME FolderInit PROVE FolderInv
<1>1. folderFs \in [Paths -> {"absent", "dir", "file"}] /\ initialFs = folderFs
  BY FolderAssumption DEF FolderInit
<1>2. ASSUME NEW p \in Conversions PROVE 1 \in 1..Len(baseOutPath[p])
  <2>1. Len(baseOutPath[p]) \in Nat \ {0}
    BY DataFolders
  <2> QED BY <2>1
<1>3. FolderTypeOK
  BY <1>1, <1>2 DEF FolderInit, FolderTypeOK
<1>4. OnlyFoldersMade
  BY <1>1 DEF OnlyFoldersMade
<1>5. InFolders
  BY <1>1, FolderAssumption DEF InFolders, FolderInit
<1>6. ASSUME NEW p \in Conversions PROVE ConversionInv(p)
  <2>1. folderAt[p] = "exists" /\ cur[p] = 1
    BY DEF FolderInit
  <2> QED
    BY <2>1, <1>1 DEF ConversionInv, NotYetMade, PassedExist, FreshFolder, MadeOrHindered,
                 FolderMade, FailedForReason
<1> QED BY <1>1, <1>3, <1>4, <1>5, <1>6 DEF FolderInv

(* What is seen in the way of a folder was there from the start, or the    *)
(* file system refused it.                                                 *)
LEMMA Hindered ==
  ASSUME FolderInv, NEW p \in Conversions, NEW k \in 1..Len(baseOutPath[p]),
         \/ folderFs[SubSeq(baseOutPath[p], 1, k)] = "file"
         \/ SubSeq(baseOutPath[p], 1, k) \in denied
  PROVE  Obstacle(p)
<1>1. SubSeq(baseOutPath[p], 1, k) \in Paths /\ SubSeq(baseOutPath[p], 1, k) \in WayTo(p)
  BY DataFolders
<1> QED BY <1>1 DEF Obstacle, FolderInv, OnlyFoldersMade

(* isDirExist before the folder is made. *)
LEMMA FirstCheckStep ==
  ASSUME FolderInv, NEW p \in Conversions, FirstCheck(p)
  PROVE  FolderInv'
<1>1. baseOutPath[p] \in Paths
  BY DataFolders
<1>2. folderFs' = folderFs /\ initialFs' = initialFs /\ denied' = denied /\ cur' = cur
  BY DEF FirstCheck
<1>3. \/ /\ folderFs[baseOutPath[p]] = "absent"
         /\ folderAt' = [folderAt EXCEPT ![p] = "create"]
      \/ /\ folderFs[baseOutPath[p]] # "absent"
         /\ folderAt' = [folderAt EXCEPT ![p] = "failed"]
  <2>1. IsDirExist(baseOutPath[p]) # 0 <=> folderFs[baseOutPath[p]] # "absent"
    BY DEF IsDirExist
  <2>2. CASE folderFs[baseOutPath[p]] = "absent"
    BY <2>1, <2>2 DEF FirstCheck
  <2>3. CASE folderFs[baseOutPath[p]] # "absent"
    BY <2>1, <2>3 DEF FirstCheck
  <2> QED BY <2>2, <2>3
<1>4. folderAt[p] = "exists" /\ cur[p] = 1 /\ folderFs[baseOutPath[p]] = initialFs[baseOutPath[p]]
  BY DEF FirstCheck, FolderInv, ConversionInv, NotYetMade
<1>5. FolderTypeOK'
  BY <1>2, <1>3 DEF FolderInv, FolderTypeOK
<1>6. OnlyFoldersMade' /\ InFolders' /\ (initialFs \in [Paths -> {"absent", "dir", "file"}])'
  BY <1>2 DEF FolderInv, OnlyFoldersMade, InFolders
<1>7. ASSUME NEW q \in Conversions PROVE ConversionInv(q)'
  <2>1. Obstacle(q)' <=> Obstacle(q)
    BY <1>2 DEF Obstacle
  <2>2. CASE q # p
    <3>1. folderAt'[q] = folderAt[q]
      BY <2>2, <1>3 DEF FolderInv, FolderTypeOK
    <3> QED
      BY <3>1, <2>1, <1>2 DEF FolderInv, ConversionInv, NotYetMade, PassedExist, FreshFolder,
                              MadeOrHindered, FolderMade, FailedForReason
  <2>3. CASE q = p
    <3>1. \/ folderAt'[p] = "create" /\ folderFs[baseOutPath[p]] = "absent"
          \/ folderAt'[p] = "failed" /\ folderFs[baseOutPath[p]] # "absent"
      BY <1>3 DEF FolderInv, FolderTypeOK
    <3>2. NotYetMade(p)' /\ PassedExist(p)' /\ FreshFolder(p)'
      BY <3>1, <1>2, <1>4 DEF NotYetMade, PassedExist, FreshFolder
    <3>3. MadeOrHindered(p)' /\ FolderMade(p)' /\ FailedForReason(p)'
      BY <3>1, <1>2, <1>4 DEF MadeOrHindered, FolderMade, FailedForReason
    <3> QED BY <2>3, <3>2, <3>3 DEF ConversionInv
  <2> QED BY <2>2, <2>3
<1> QED BY <1>5, <1>6, <1>7 DEF FolderInv

(* isDirExist behind it. *)
LEMMA SecondCheckStep ==
  ASSUME FolderInv, NEW p \in Conversions, SecondCheck(p)
  PROVE  FolderInv'
<1>1. baseOutPath[p] \in Paths
  BY DataFolders
<1>2. folderFs' = folderFs /\ initialFs' = initialFs /\ denied' = denied /\ cur' = cur
  BY DEF SecondCheck
<1>3. \/ /\ folderFs[baseOutPath[p]] = "dir"
         /\ folderAt' = [folderAt EXCEPT ![p] = "made"]
      \/ /\ folderFs[baseOutPath[p]] # "dir"
         /\ folderAt' = [folderAt EXCEPT ![p] = "failed"]
  <2>1. IsDirExist(baseOutPath[p]) # 1 <=> folderFs[baseOutPath[p]] # "dir"
    BY DEF IsDirExist
  <2>2. CASE folderFs[baseOutPath[p]] = "dir"
    BY <2>1, <2>2 DEF SecondCheck
  <2>3. CASE folderFs[baseOutPath[p]] # "dir"
    BY <2>1, <2>3 DEF SecondCheck
  <2> QED BY <2>2, <2>3
<1>4. /\ folderAt[p] = "created" /\ initialFs[baseOutPath[p]] = "absent"
      /\ folderFs[baseOutPath[p]] = "dir" \/ Obstacle(p)
  BY DEF SecondCheck, FolderInv, ConversionInv, FreshFolder, MadeOrHindered
<1>5. FolderTypeOK'
  BY <1>2, <1>3 DEF FolderInv, FolderTypeOK
<1>6. OnlyFoldersMade' /\ InFolders' /\ (initialFs \in [Paths -> {"absent", "dir", "file"}])'
  BY <1>2 DEF FolderInv, OnlyFoldersMade, InFolders
<1>7. ASSUME NEW q \in Conversions PROVE ConversionInv(q)'
  <2>1. Obstacle(q)' <=> Obstacle(q)
    BY <1>2 DEF Obstacle
  <2>2. CASE q # p
    <3>1. folderAt'[q] = folderAt[q]
      BY <2>2, <1>3 DEF FolderInv, FolderTypeOK
    <3> QED
      BY <3>1, <2>1, <1>2 DEF FolderInv, ConversionInv, NotYetMade, PassedExist, FreshFolder,
                              MadeOrHindered, FolderMade, FailedForReason
  <2>3. CASE q = p
    <3>1. \/ folderAt'[p] = "made" /\ folderFs[baseOutPath[p]] = "dir"
          \/ folderAt'[p] = "failed" /\ Obstacle(p)
      BY <1>3, <1>4 DEF FolderInv, FolderTypeOK
    <3>2. NotYetMade(p)' /\ PassedExist(p)' /\ FreshFolder(p)'
      BY <3>1, <1>2, <1>4 DEF NotYetMade, PassedExist, FreshFolder
    <3>3. MadeOrHindered(p)' /\ FolderMade(p)' /\ FailedForReason(p)'
      BY <3>1, <2>1, <2>3, <1>2 DEF MadeOrHindered, FolderMade, FailedForReason
    <3> QED BY <2>3, <3>2, <3>3 DEF ConversionInv
  <2> QED BY <2>2, <2>3
<1> QED BY <1>5, <1>6, <1>7 DEF FolderInv

(* One mkdir: a folder appears at the end of the way, or nothing does. *)
LEMMA MkDirStep ==
  ASSUME FolderInv, NEW p \in Conversions, MkDir(p)
  PROVE  FolderInv'
<1> DEFINE way == SubSeq(baseOutPath[p], 1, cur[p])
<1>1. /\ folderAt[p] = "create" /\ cur[p] \in 1..Len(baseOutPath[p])
      /\ initialFs' = initialFs /\ denied' = denied
  BY DEF MkDir, FolderInv, FolderTypeOK
<1>2. way \in Paths /\ way \in WayTo(p) /\ baseOutPath[p] \in Seq(FileNames) /\ baseOutPath[p] \in Paths
  BY <1>1, DataFolders
<1>3. /\ Len(way) = cur[p] /\ way \in Seq(FileNames)
      /\ \A j \in 1..cur[p] : SubSeq(way, 1, j) = SubSeq(baseOutPath[p], 1, j)
  BY <1>1, <1>2, Ways
<1>4. \/ CanMake(way) /\ folderFs' = [folderFs EXCEPT ![way] = "dir"]
      \/ ~CanMake(way) /\ folderFs' = folderFs
  BY DEF MkDir, Prefix
<1>5. \/ /\ GoesOn(way) /\ cur[p] < Len(baseOutPath[p])
         /\ cur' = [cur EXCEPT ![p] = @ + 1] /\ folderAt' = folderAt
      \/ /\ ~(GoesOn(way) /\ cur[p] < Len(baseOutPath[p]))
         /\ folderAt' = [folderAt EXCEPT ![p] = "created"] /\ cur' = cur
  BY DEF MkDir, Prefix
<1>6. CanMake(way) => folderFs[way] = "absent"
  BY DEF CanMake
<1>7. FolderTypeOK'
  <2>1. (folderFs \in [Paths -> {"absent", "dir", "file"}])'
    BY <1>2, <1>4 DEF FolderInv, FolderTypeOK
  <2>2. (folderAt \in [Conversions -> {"exists", "create", "created", "made", "failed"}])'
    BY <1>5 DEF FolderInv, FolderTypeOK
  <2>3. (cur \in [Conversions -> Nat])'
    BY <1>5 DEF FolderInv, FolderTypeOK
  <2>4. ASSUME NEW q \in Conversions PROVE cur'[q] \in 1..Len(baseOutPath[q])
    <3>1. cur[q] \in 1..Len(baseOutPath[q]) /\ cur[q] \in Nat /\ Len(baseOutPath[q]) \in Nat
      BY DataFolders DEF FolderInv, FolderTypeOK
    <3> QED BY <1>5, <3>1 DEF FolderInv, FolderTypeOK
  <2> QED BY <2>1, <2>2, <2>3, <2>4 DEF FolderTypeOK
<1>8. \A path \in Paths :
        \/ folderFs'[path] = folderFs[path]
        \/ path = way /\ folderFs[path] = "absent" /\ folderFs'[path] = "dir"
  BY <1>2, <1>4, <1>6 DEF FolderInv, FolderTypeOK
<1>9. OnlyFoldersMade'
  BY <1>1, <1>8 DEF FolderInv, FolderTypeOK, OnlyFoldersMade
<1>10. InFolders'
  <2> SUFFICES ASSUME NEW path \in Paths, folderFs'[path] # "absent", NEW k \in 1..(Len(path) - 1)
               PROVE  folderFs'[SubSeq(path, 1, k)] = "dir"
    BY DEF InFolders
  <2>1. SubSeq(path, 1, k) \in Paths
    BY FolderAssumption
  <2>2. CASE folderFs[path] # "absent"
    <3>1. folderFs[SubSeq(path, 1, k)] = "dir"
      BY <2>2 DEF FolderInv, InFolders
    <3> QED BY <3>1, <2>1, <1>8
  <2>3. CASE folderFs[path] = "absent"
    <3>1. path = way /\ CanMake(way)
      BY <2>3, <1>4, <1>8
    <3>2. cur[p] \in Nat /\ k \in 1..(cur[p] - 1) /\ Len(way) # 1
      BY <3>1, <1>1, <1>3
    <3>3. folderFs[Parent(way)] = "dir"
      BY <3>1, <3>2 DEF CanMake
    <3>4. Parent(way) = SubSeq(baseOutPath[p], 1, cur[p] - 1) /\ SubSeq(way, 1, k) = SubSeq(baseOutPath[p], 1, k)
      BY <3>2, <1>3 DEF Parent
    <3>5. CASE k = cur[p] - 1
      BY <3>1, <3>3, <3>4, <3>5, <2>1, <1>8
    <3>6. CASE k # cur[p] - 1
      <4> DEFINE parent == SubSeq(baseOutPath[p], 1, cur[p] - 1)
      <4>1. cur[p] - 1 \in 1..Len(baseOutPath[p]) /\ Len(baseOutPath[p]) \in Nat
        BY <3>2, <1>1, DataFolders
      <4>2. parent \in Paths /\ Len(parent) = cur[p] - 1 /\ SubSeq(parent, 1, k) = SubSeq(baseOutPath[p], 1, k)
        BY <4>1, <3>2, <1>2, Ways, DataFolders
      <4>3. k \in 1..(Len(parent) - 1) /\ folderFs[parent] # "absent"
        <5>1. k \in 1..((cur[p] - 1) - 1)
          BY <3>2, <3>6
        <5>2. Len(parent) = cur[p] - 1
          BY <4>2
        <5>3. folderFs[parent] = "dir"
          BY <3>3, <3>4
        <5> QED BY <5>1, <5>2, <5>3
      <4>4. folderFs[SubSeq(parent, 1, k)] = "dir"
        BY <4>2, <4>3 DEF FolderInv, InFolders
      <4> QED BY <4>2, <4>4, <3>1, <3>4, <2>1, <1>8
    <3> QED BY <3>5, <3>6
  <2> QED BY <2>2, <2>3
<1>11. ASSUME NEW q \in Conversions, q # p PROVE ConversionInv(q)'
  <2>1. baseOutPath[q] \in Paths /\ baseOutPath[q] # way
    <3>1. baseOutPath[q] \in Paths
      BY DataFolders
    <3>2. baseOutPath[q] \notin WayTo(p)
      BY <1>11, FolderAssumption
    <3> QED BY <3>1, <3>2, <1>2
  <2>2. folderFs'[baseOutPath[q]] = folderFs[baseOutPath[q]]
    BY <2>1, <1>8
  <2>3. folderAt'[q] = folderAt[q] /\ cur'[q] = cur[q]
    BY <1>5, <1>11 DEF FolderInv, FolderTypeOK
  <2>4. Obstacle(q)' <=> Obstacle(q)
    BY <1>1 DEF Obstacle
  <2>5. ConversionInv(q)
    BY DEF FolderInv
  <2>6. PassedExist(q)'
    <3> SUFFICES ASSUME folderAt[q] = "create", NEW k \in 1..(cur[q] - 1)
                 PROVE  folderFs'[SubSeq(baseOutPath[q], 1, k)] # "absent"
      BY <2>3 DEF PassedExist
    <3>1. k \in 1..Len(baseOutPath[q])
      BY DataFolders DEF FolderInv, FolderTypeOK
    <3>2. SubSeq(baseOutPath[q], 1, k) \in Paths /\ folderFs[SubSeq(baseOutPath[q], 1, k)] # "absent"
      BY <3>1, <2>5, DataFolders DEF ConversionInv, PassedExist
    <3> QED BY <3>2, <1>8
  <2> QED
    BY <2>2, <2>3, <2>4, <2>5, <2>6, <1>1
    DEF ConversionInv, NotYetMade, FreshFolder, MadeOrHindered, FolderMade, FailedForReason
<1>12. ConversionInv(p)'
  <2>1. Obstacle(p)' <=> Obstacle(p)
    BY <1>1 DEF Obstacle
  <2>2. initialFs[baseOutPath[p]] = "absent" /\ (\A k \in 1..(cur[p] - 1) : folderFs[SubSeq(baseOutPath[p], 1, k)] # "absent")
    BY <1>1 DEF FolderInv, ConversionInv, FreshFolder, PassedExist
  <2>3. CASE GoesOn(way) /\ cur[p] < Len(baseOutPath[p])
    <3>1. folderAt'[p] = "create" /\ cur'[p] = cur[p] + 1
      BY <2>3, <1>1, <1>5 DEF FolderInv, FolderTypeOK
    <3>2. folderFs'[way] # "absent"
      BY <2>3, <1>2, <1>4, <1>8 DEF GoesOn, FolderInv, FolderTypeOK
    <3>3. PassedExist(p)'
      <4> SUFFICES ASSUME NEW k \in 1..cur[p]
                   PROVE  folderFs'[SubSeq(baseOutPath[p], 1, k)] # "absent"
        BY <3>1 DEF PassedExist, FolderInv, FolderTypeOK
      <4>1. CASE k = cur[p]
        BY <4>1, <3>2
      <4>2. CASE k # cur[p]
        <5>1. k \in 1..(cur[p] - 1) /\ k \in 1..Len(baseOutPath[p])
          BY <4>2, <1>1, DataFolders
        <5>2. SubSeq(baseOutPath[p], 1, k) \in Paths /\ folderFs[SubSeq(baseOutPath[p], 1, k)] # "absent"
          BY <5>1, <2>2, DataFolders
        <5> QED BY <5>2, <1>8
      <4> QED BY <4>1, <4>2
    <3> QED
      BY <3>1, <3>3, <2>2, <1>1
      DEF ConversionInv, NotYetMade, FreshFolder, MadeOrHindered, FolderMade, FailedForReason
  <2>4. CASE ~(GoesOn(way) /\ cur[p] < Len(baseOutPath[p]))
    <3>1. folderAt'[p] = "created"
      BY <2>4, <1>1, <1>5 DEF FolderInv, FolderTypeOK
    <3>2. folderFs'[baseOutPath[p]] = "dir" \/ Obstacle(p)
      <4>1. CASE folderFs[way] = "file" \/ way \in denied
        BY <4>1, <1>1, Hindered
      <4>2. CASE folderFs[way] = "absent" /\ way \notin denied /\ ~CanMake(way)
        <5> DEFINE parent == SubSeq(baseOutPath[p], 1, cur[p] - 1)
        <5>1. cur[p] # 1 /\ folderFs[Parent(way)] # "dir"
          BY <4>2, <1>3 DEF CanMake
        <5>2. cur[p] - 1 \in 1..(cur[p] - 1) /\ cur[p] - 1 \in 1..Len(baseOutPath[p]) /\ cur[p] - 1 \in 1..cur[p]
          BY <5>1, <1>1, DataFolders
        <5>3. Parent(way) = parent /\ parent \in Paths /\ folderFs[parent] # "absent"
          BY <5>2, <1>3, <2>2, DataFolders DEF Parent
        <5>4. folderFs[parent] = "file"
          BY <5>1, <5>3 DEF FolderInv, FolderTypeOK
        <5> QED BY <5>2, <5>4, Hindered
      <4>3. CASE CanMake(way) \/ folderFs[way] = "dir"
        <5>1. folderFs'[way] = "dir"
          BY <4>3, <1>2, <1>4, <1>6 DEF FolderInv, FolderTypeOK
        <5>2. GoesOn(way)
          BY <4>3 DEF GoesOn
        <5>3. cur[p] = Len(baseOutPath[p])
          BY <5>2, <2>4, <1>1, DataFolders
        <5>4. way = baseOutPath[p]
          BY <5>3, <1>1, <1>2, Ways
        <5> QED BY <5>1, <5>4
      <4>4. folderFs[way] \in {"absent", "dir", "file"}
        BY <1>2 DEF FolderInv, FolderTypeOK
      <4> QED BY <4>1, <4>2, <4>3, <4>4
    <3> QED
      BY <3>1, <3>2, <2>1, <2>2, <1>1
      DEF ConversionInv, NotYetMade, PassedExist, FreshFolder, MadeOrHindered, FolderMade, FailedForReason
  <2> QED BY <2>3, <2>4
<1> QED BY <1>1, <1>7, <1>9, <1>10, <1>11, <1>12 DEF FolderInv

-------------------------------------------------------------------------------
(* The invariant says what is promised of a folder. *)
LEMMA FolderInvImplies == ASSUME FolderInv PROVE FolderOwned
<1> SUFFICES ASSUME NEW p \in Conversions
             PROVE  /\ folderAt[p] = "made" =>
                         /\ initialFs[baseOutPath[p]] = "absent"
                         /\ \A path \in WayTo(p) : folderFs[path] = "dir"
                    /\ folderAt[p] = "failed" => initialFs[baseOutPath[p]] # "absent" \/ Obstacle(p)
  BY DEF FolderOwned, Obstacle
<1>1. ConversionInv(p)
  BY DEF FolderInv
<1>2. ASSUME folderAt[p] = "made", NEW path \in WayTo(p) PROVE folderFs[path] = "dir"
  <2>1. PICK k \in 1..Len(baseOutPath[p]) : path = SubSeq(baseOutPath[p], 1, k)
    BY DEF WayTo
  <2>2. baseOutPath[p] \in Paths /\ baseOutPath[p] \in Seq(FileNames) /\ folderFs[baseOutPath[p]] = "dir"
    BY <1>1, <1>2, DataFolders DEF ConversionInv, FolderMade
  <2>3. CASE k = Len(baseOutPath[p])
    BY <2>1, <2>2, <2>3, Ways
  <2>4. CASE k # Len(baseOutPath[p])
    <3>1. k \in 1..(Len(baseOutPath[p]) - 1)
      BY <2>4, DataFolders
    <3> QED BY <2>1, <2>2, <3>1 DEF FolderInv, InFolders
  <2> QED BY <2>3, <2>4
<1> QED BY <1>1, <1>2 DEF ConversionInv, FreshFolder, FailedForReason

(* However many conversions run side by side, each starts writing only     *)
(* into a folder that was not there, and fails only for a reason that lies *)
(* in the file system (main.c, prepareOutputPath).                         *)
THEOREM EachOwnsItsFolder == FolderSpec => []FolderOwned
<1>1. FolderInit => FolderInv
  BY FolderInitInv
<1>2. FolderInv /\ [FolderNext]_folderVars => FolderInv'
  <2> SUFFICES ASSUME FolderInv, [FolderNext]_folderVars PROVE FolderInv'
    OBVIOUS
  <2>1. ASSUME NEW p \in Conversions, FirstCheck(p) PROVE FolderInv'
    BY <2>1, FirstCheckStep
  <2>2. ASSUME NEW p \in Conversions, MkDir(p) PROVE FolderInv'
    BY <2>2, MkDirStep
  <2>3. ASSUME NEW p \in Conversions, SecondCheck(p) PROVE FolderInv'
    BY <2>3, SecondCheckStep
  <2>4. CASE UNCHANGED folderVars
    BY <2>4 DEF folderVars, FolderInv, FolderTypeOK, OnlyFoldersMade, InFolders, ConversionInv, NotYetMade, PassedExist,
                FreshFolder, MadeOrHindered, FolderMade, FailedForReason, Obstacle
  <2> QED BY <2>1, <2>2, <2>3, <2>4 DEF FolderNext
<1>3. FolderInv => FolderOwned
  BY FolderInvImplies
<1> QED BY <1>1, <1>2, <1>3, PTL DEF FolderSpec

-------------------------------------------------------------------------------
(* The image cells copied so far. *)
RawCopied ==
  /\ record \in 1..(Len(xex.raw) + 1)
  /\ currPos \in Nat /\ currPos = DataEnd(xex, record - 1)
  /\ imagePos \in Nat /\ imagePos = ImageEnd(xex, record - 1)
  /\ outbuf = [k \in 1..xex.imageSize |-> IF k <= imagePos THEN xex.image[k] ELSE Blank]

(* How the body is packed. *)
Frags  == xex.layout.fragments
Chunks == xex.layout.chunks
NewFragment(k) == k = 1 \/ Chunks[k - 1].frag # Chunks[k].frag
Behind(k) == Chunks[k].at + 1 + Chunks[k].len
Stream(n) == [j \in 1..n |-> StreamCell(j)]

InFragment(f) ==
  lastPos = Frags[f].at /\ currLen = Frags[f].size

SizeAfter(f) == IF f = Len(Frags) THEN 0 ELSE Frags[f + 1].size

(* Between two fragments, or behind the last one. *)
AtFragment ==
  \/ \E k \in 1..Len(Chunks) :
       /\ NewFragment(k) /\ InFragment(Chunks[k].frag)
       /\ currPos = lastPos /\ nextLen # 0 /\ rebuf = Stream(Chunks[k].from)
  \/ nextLen = 0 /\ rebuf = Stream(xex.imageSize)

(* At a chunk, or behind the last one of a fragment. *)
AtSomeChunk ==
  \E k \in 1..Len(Chunks) :
    /\ InFragment(Chunks[k].frag) /\ nextLen = SizeAfter(Chunks[k].frag)
    /\ \/ currPos = Chunks[k].at /\ rebuf = Stream(Chunks[k].from)
       \/ /\ k = Len(Chunks) \/ NewFragment(k + 1)
          /\ currPos = Behind(k) /\ rebuf = Stream(Chunks[k].from + Chunks[k].len)

SpaIsSection ==
  NamedSections # {} =>
    spa = [k \in 1..FirstNamed.size |-> xex.image[FirstNamed.address - xex.loadAddress + k]]

Early == xexPc \in {"dumpDefaultXex", "getXexInfo", "getXexExecInfo"}
Packed == xexPc \in {"raw", "compressed", "fragments", "chunks"}

XexControl ==
  /\ xexPc \in {"dumpDefaultXex", "getXexInfo", "getXexExecInfo", "xexGetSpaInfo", "raw",
                "compressed", "fragments", "chunks", "xexGetSpaOffset", "done"}
  /\ ~Early => executionId = xex.title
  /\ Early \/ xexPc = "xexGetSpaInfo" => record = 1 /\ currPos = 0 /\ imagePos = 0
  /\ Packed => body = xex.body.cells
  /\ xexPc = "raw" => xex.format = "raw" /\ RawCopied
  /\ xexPc \in {"compressed", "fragments", "chunks"} => xex.format = "compressed"
  /\ xexPc = "fragments" => AtFragment
  /\ xexPc = "chunks" => AtSomeChunk
  /\ xexPc = "xexGetSpaOffset" => outbuf = xex.image
  /\ xexPc = "done" => SpaIsSection

XexInv == xex \in Executables /\ (xex.image # Nothing => XexControl)

-------------------------------------------------------------------------------
(* A field of the directory is found, also where its count is not swapped. *)
LEMMA FieldFound ==
  ASSUME IsExecutable(xex), IsSound(xex), NEW field, HasField(xex, field),
         NEW count \in Int, count >= Len(xex.fields)
  PROVE  GetXexHeaderField(field, count) \in 1..Len(xex.fields)
<1> DEFINE n == Len(xex.fields)
           hits == {k \in Places(field) : k <= count}
<1>1. /\ xex.fields \in Seq(STRING) /\ xex.behind \in Seq(STRING) /\ n \in Nat
      /\ DOMAIN xex.fields = 1..n
  BY DEF IsExecutable
<1>2. /\ Memory \in Seq(STRING) /\ Len(Memory) = n + Len(xex.behind) /\ Len(xex.behind) \in Nat
      /\ \A k \in 1..n : Memory[k] = xex.fields[k]
      /\ DOMAIN Memory = 1..Len(Memory)
  <2>1. ASSUME NEW S, NEW s \in Seq(S), NEW t \in Seq(S)
        PROVE  /\ s \o t \in Seq(S) /\ Len(s \o t) = Len(s) + Len(t) /\ Len(s) \in Nat /\ Len(t) \in Nat
               /\ \A k \in 1..Len(s) : (s \o t)[k] = s[k]
               /\ DOMAIN (s \o t) = 1..Len(s \o t)
    OBVIOUS
  <2> DEFINE s == xex.fields
             t == xex.behind
  <2>2. s \in Seq(STRING) /\ t \in Seq(STRING) /\ Memory = s \o t /\ n = Len(s)
        /\ Len(xex.behind) = Len(t) /\ \A k : xex.fields[k] = s[k]
    BY <1>1 DEF Memory
  <2> HIDE DEF s, t, n
  <2>3. /\ s \o t \in Seq(STRING) /\ Len(s \o t) = Len(s) + Len(t) /\ Len(s) \in Nat /\ Len(t) \in Nat
        /\ \A k \in 1..Len(s) : (s \o t)[k] = s[k]
        /\ DOMAIN (s \o t) = 1..Len(s \o t)
    BY <2>1, <2>2
  <2> QED BY <2>2, <2>3
<1>3. PICK k \in 1..n : xex.fields[k] = field
  BY DEF HasField
<1>4. k \in hits /\ hits \subseteq Nat
  <2>1. k \in DOMAIN Memory /\ Memory[k] = field /\ k <= count
    <3> HIDE DEF n
    <3> QED BY <1>1, <1>2, <1>3
  <2>2. Places(field) \subseteq 1..Len(Memory) /\ Len(Memory) \in Nat
    <3> HIDE DEF n
    <3> QED BY <1>1, <1>2 DEF Places
  <2>3. k \in hits
    BY <2>1 DEF Places
  <2> QED BY <2>2, <2>3
<1>5. \E x \in hits : \A y \in hits : x <= y
  <2> HIDE DEF hits
  <2> QED BY <1>4, LeastElement
<1> DEFINE place == CHOOSE x \in hits : \A y \in hits : x <= y
<1>6. place \in hits /\ \A y \in hits : place <= y
  <2> HIDE DEF hits
  <2> QED BY <1>5
<1>7. place \in 1..n
  <2>1. place <= k /\ place \in 1..Len(Memory)
    BY <1>2, <1>4, <1>6 DEF Places
  <2> HIDE DEF place
  <2> QED BY <1>1, <1>2, <2>1
<1>8. GetXexHeaderField(field, count) = place
  BY <1>4 DEF GetXexHeaderField
<1> QED BY <1>7, <1>8

LEMMA UnswappedEnough ==
  ASSUME IsExecutable(xex), IsSound(xex)
  PROVE  Unswapped(Len(xex.fields)) \in Int /\ Unswapped(Len(xex.fields)) >= Len(xex.fields)
<1>1. Len(xex.fields) \in Nat /\ Len(xex.fields) < Sign /\ Far \in Nat \ {0} /\ Sign \in Nat
  BY XexAssumption DEF IsExecutable, IsSound
<1>2. Unswapped(Len(xex.fields)) = Len(xex.fields) * Far
  BY <1>1 DEF Unswapped
<1>3. \A a, b \in Nat : b # 0 => a * b \in Int /\ a * b >= a
  OBVIOUS
<1> QED BY <1>1, <1>2, <1>3

(* A section lies where it says. *)
LEMMA SmallMod == ASSUME NEW a \in Nat, NEW b \in Nat, a < b PROVE a % b = a
OBVIOUS

(* The first section of the title's name. *)
LEMMA FirstNamedLies ==
  ASSUME IsExecutable(xex), IsSound(xex), NamedSections # {}
  PROVE  /\ FirstNamed.address \in Nat /\ FirstNamed.size \in Nat /\ FirstNamed.address # 0
         /\ xex.loadAddress \in Nat /\ xex.imageSize \in Nat
         /\ FirstNamed.address >= xex.loadAddress
         /\ FirstNamed.address - xex.loadAddress + FirstNamed.size <= xex.imageSize
         /\ xex.imageSize < Addresses /\ Addresses \in Nat
<1>1. NamedSections \subseteq DOMAIN xex.sections /\ DOMAIN xex.sections \subseteq Nat
  BY DEF NamedSections, IsExecutable
<1>2. \E k \in NamedSections : \A j \in NamedSections : k <= j
  BY <1>1, LeastElement
<1>3. PICK k \in DOMAIN xex.sections : FirstNamed = xex.sections[k]
  BY <1>1, <1>2 DEF FirstNamed
<1> QED BY <1>3, XexAssumption DEF IsExecutable, IsSound

(* It is cut out whole. *)
LEMMA SpaCut ==
  ASSUME xex \in Executables, xex.image # Nothing, xexPc = "xexGetSpaOffset",
         executionId = xex.title, outbuf = xex.image, XexGetSpaOffset
  PROVE  xexPc' = "done" /\ SpaIsSection'
<1>1. IsExecutable(xex) /\ IsSound(xex)
  BY XexAssumption
<1>2. /\ GetXexHeaderField("sections", Unswapped(Len(xex.fields))) \in 1..Len(xex.fields)
      /\ Len(xex.fields) \in Nat /\ DOMAIN xex.fields = 1..Len(xex.fields)
  BY <1>1, FieldFound, UnswappedEnough DEF IsSound, IsExecutable
<1> DEFINE place == GetXexHeaderField("sections", Unswapped(Len(xex.fields)))
<1>3. place # 0 /\ InDirectory(place)
  <2> HIDE DEF place
  <2> QED BY <1>2 DEF InDirectory, place
<1>4. /\ xexPc' = "done"
      /\ spa' = IF NamedSections = {} \/ FirstNamed.address = 0
                   \/ (SpaOffset(FirstNamed) + FirstNamed.size) % Addresses > xex.imageSize
                THEN Nothing
                ELSE SubSeq(outbuf, SpaOffset(FirstNamed) + 1, SpaOffset(FirstNamed) + FirstNamed.size)
      /\ UNCHANGED <<xex, executionId>>
  <2> HIDE DEF place
  <2>1. XexGetSpaOffset =>
        /\ IF place # 0 /\ ~InDirectory(place)
           THEN Goto("crashed") /\ UNCHANGED spa
           ELSE /\ Goto("done")
                /\ spa' = IF place = 0 \/ NamedSections = {} \/ FirstNamed.address = 0
                             \/ (SpaOffset(FirstNamed) + FirstNamed.size) % Addresses > xex.imageSize
                          THEN Nothing
                          ELSE SubSeq(outbuf, SpaOffset(FirstNamed) + 1,
                                      SpaOffset(FirstNamed) + FirstNamed.size)
        /\ UNCHANGED <<xex, executionId>>
    BY DEF XexGetSpaOffset, place
  <2> QED BY <1>3, <2>1 DEF Goto
<1>5. ASSUME NamedSections # {}
      PROVE  spa' = [k \in 1..FirstNamed.size |-> xex.image[FirstNamed.address - xex.loadAddress + k]]
  <2> DEFINE at == FirstNamed.address - xex.loadAddress
             n  == FirstNamed.size
  <2>1. /\ at \in Nat /\ n \in Nat /\ at + n <= xex.imageSize /\ FirstNamed.address # 0
        /\ xex.imageSize \in Nat /\ Addresses \in Nat /\ xex.imageSize < Addresses
    BY <1>1, <1>5, FirstNamedLies
  <2>2. SpaOffset(FirstNamed) = at
    <3>1. SpaOffset(FirstNamed) = at % Addresses
      BY DEF SpaOffset
    <3> HIDE DEF at
    <3> QED BY <2>1, <3>1, SmallMod
  <2>3. (SpaOffset(FirstNamed) + n) % Addresses = at + n
    <3> HIDE DEF at, n
    <3> QED BY <2>1, <2>2, SmallMod
  <2>4. spa' = SubSeq(xex.image, at + 1, at + n)
    <3> HIDE DEF at
    <3>1. ~ (at + n > xex.imageSize)
      BY <2>1
    <3> QED BY <1>4, <1>5, <2>1, <2>2, <2>3, <3>1
  <2>5. SubSeq(xex.image, at + 1, at + n) = [k \in 1..n |-> xex.image[at + k]]
    <3>1. xex.image \in Seq(Nat) /\ Len(xex.image) = xex.imageSize
      BY <1>1 DEF IsSound
    <3>2. \A im \in Seq(Nat) : \A a, b \in Nat : a + b <= Len(im) =>
             SubSeq(im, a + 1, a + b) = [k \in 1..b |-> im[a + k]]
      OBVIOUS
    <3> HIDE DEF at, n
    <3> QED BY <2>1, <3>1, <3>2
  <2> QED BY <2>4, <2>5
<1>6. NamedSections' = NamedSections /\ FirstNamed' = FirstNamed /\ xex' = xex
  BY <1>4 DEF NamedSections, FirstNamed
<1> QED BY <1>4, <1>5, <1>6 DEF SpaIsSection

-------------------------------------------------------------------------------
(* A raw record goes where the console would load it. *)
LEMMA CopyRecordStep ==
  ASSUME xex \in Executables, xex.image # Nothing, xex.format = "raw",
         RawCopied, body = xex.body.cells, CopyRecord
  PROVE  RawCopied'
<1>1. IsExecutable(xex) /\ IsSound(xex) /\ IsRaw(xex)
  BY XexAssumption DEF IsSound
<1> DEFINE n == Len(xex.raw)
           rds == xex.raw[record].data
           zds == xex.raw[record].zero
<1>2. n \in Nat /\ record \in 1..n /\ xex.imageSize \in Nat /\ currPos \in Nat /\ imagePos \in Nat
  BY <1>1 DEF IsExecutable, IsRaw, RawCopied, CopyRecord
<1>3. /\ DataEnd(xex, record) = currPos + rds
      /\ ImageEnd(xex, record) = imagePos + rds + zds
      /\ ImageEnd(xex, record) <= xex.imageSize
      /\ \A j \in 1..rds : xex.image[imagePos + j] = body[currPos + j]
      /\ \A j \in 1..zds : xex.image[imagePos + rds + j] = Blank
  BY <1>1, <1>2 DEF IsRaw, RawCopied
<1>4. /\ outbuf' = [k \in 1..xex.imageSize |->
                     IF k \in (imagePos + 1)..(imagePos + rds) THEN body[currPos + k - imagePos]
                     ELSE outbuf[k]]
      /\ currPos' = currPos + rds /\ imagePos' = imagePos + rds + zds
      /\ record' = record + 1 /\ xex' = xex
  BY DEF CopyRecord
<1>5. rds \in Nat /\ zds \in Nat
  BY <1>1, <1>2 DEF IsExecutable
<1>6. /\ outbuf = [k \in 1..xex.imageSize |-> IF k <= imagePos THEN xex.image[k] ELSE Blank]
  BY DEF RawCopied
<1> HIDE DEF n, rds, zds
<1>7. ASSUME NEW k \in 1..xex.imageSize
      PROVE  outbuf'[k] = IF k <= imagePos' THEN xex.image[k] ELSE Blank
  <2>1. CASE k <= imagePos
    BY <1>2, <1>4, <1>5, <1>6, <2>1
  <2>2. CASE k \in (imagePos + 1)..(imagePos + rds)
    <3>1. k - imagePos \in 1..rds /\ imagePos + (k - imagePos) = k /\ currPos + (k - imagePos) = currPos + k - imagePos
      BY <1>2, <1>5, <2>2
    <3>2. xex.image[k] = body[currPos + k - imagePos]
      BY <1>3, <3>1
    <3>3. outbuf'[k] = body[currPos + k - imagePos]
      BY <1>4, <2>2
    <3>4. k <= imagePos'
      BY <1>2, <1>4, <1>5, <2>2
    <3> QED BY <3>2, <3>3, <3>4
  <2>3. CASE k > imagePos + rds
    <3>1. outbuf'[k] = Blank
      BY <1>2, <1>4, <1>5, <1>6, <2>3
    <3>2. ASSUME k <= imagePos' PROVE xex.image[k] = Blank
      <4>1. k - (imagePos + rds) \in 1..zds /\ imagePos + rds + (k - (imagePos + rds)) = k
        BY <1>2, <1>4, <1>5, <2>3, <3>2
      <4> QED BY <1>3, <4>1
    <3> QED BY <3>1, <3>2
  <2> QED BY <1>2, <1>5, <2>1, <2>2, <2>3
<1>8. outbuf' = [k \in 1..xex.imageSize |-> IF k <= imagePos' THEN xex.image[k] ELSE Blank]
  BY <1>4, <1>7
<1>9. record' \in 1..(n + 1) /\ record' - 1 = record
  BY <1>2, <1>4
<1>10. currPos' \in Nat /\ imagePos' \in Nat
  BY <1>2, <1>4, <1>5
<1>11. /\ currPos' = DataEnd(xex', record' - 1) /\ imagePos' = ImageEnd(xex', record' - 1)
       /\ record' \in 1..(Len(xex'.raw) + 1)
  BY <1>3, <1>4, <1>9 DEF n
<1> QED BY <1>4, <1>8, <1>10, <1>11 DEF RawCopied

(* Behind the last record the image is whole. *)
LEMMA RawParsedStep ==
  ASSUME xex \in Executables, xex.image # Nothing, xex.format = "raw", RawCopied, RawParsed
  PROVE  outbuf = xex.image
<1>1. IsExecutable(xex) /\ IsSound(xex) /\ IsRaw(xex)
  BY XexAssumption DEF IsSound
<1>2. Len(xex.raw) \in Nat /\ record = Len(xex.raw) + 1 /\ xex.imageSize \in Nat
  <2>1. Len(xex.raw) \in Nat /\ xex.imageSize \in Nat
    BY <1>1 DEF IsExecutable
  <2>2. record \in 1..(Len(xex.raw) + 1) /\ record > Len(xex.raw)
    BY DEF RawCopied, RawParsed
  <2> DEFINE n == Len(xex.raw)
  <2> HIDE DEF n
  <2>3. n \in Nat /\ record \in 1..(n + 1) /\ record > n => record = n + 1
    OBVIOUS
  <2> QED BY <2>1, <2>2, <2>3 DEF n
<1>3. imagePos \in Nat /\ imagePos = ImageEnd(xex, Len(xex.raw))
  BY <1>2 DEF RawCopied
<1>4. \A k \in 1..xex.imageSize : k > imagePos => xex.image[k] = Blank
  BY <1>1, <1>2, <1>3 DEF IsRaw
<1>5. \A k \in 1..xex.imageSize : outbuf[k] = xex.image[k]
  BY <1>2, <1>3, <1>4 DEF RawCopied
<1>6. outbuf = [k \in 1..xex.imageSize |-> outbuf[k]]
  BY DEF RawCopied
<1>7. xex.image = [k \in 1..xex.imageSize |-> xex.image[k]]
  BY <1>1 DEF IsSound
<1> QED BY <1>5, <1>6, <1>7

-------------------------------------------------------------------------------
(* How a compressed body is laid out. *)
LEMMA Layout ==
  ASSUME xex \in Executables, xex.image # Nothing, xex.format = "compressed"
  PROVE  LET data == xex.body.cells
             m == Len(Frags)
             n == Len(Chunks)
         IN  /\ m \in Nat \ {0} /\ n \in Nat \ {0} /\ HeadCells \in Nat
             /\ data \in Seq(Nat) /\ Len(data) \in Nat /\ xex.imageSize \in Nat
             /\ Frags[1].at = 0 /\ Frags[1].size = xex.first
             /\ \A f \in 1..m :
                  /\ Frags[f].at \in Nat /\ Frags[f].at < Len(data) /\ Frags[f].size \in Nat
                  /\ data[Frags[f].at + 1] = SizeAfter(f)
                  /\ f # m => /\ Frags[f + 1].size # 0
                              /\ Frags[f + 1].at = Frags[f].at + Frags[f].size
             /\ Chunks[1].from = 0 /\ Chunks[1].frag = 1 /\ Chunks[n].frag = m
             /\ \A k \in 1..n :
                  /\ Chunks[k].frag \in 1..m /\ Chunks[k].len \in Nat /\ Chunks[k].len # 0
                  /\ Chunks[k].at \in Nat /\ Chunks[k].from \in Nat
                  /\ NewFragment(k) => Chunks[k].at = Frags[Chunks[k].frag].at + HeadCells
                  /\ ~NewFragment(k) => Chunks[k].at = Behind(k - 1)
                  /\ Behind(k) < Len(data) /\ data[Chunks[k].at + 1] = Chunks[k].len
                  /\ \A j \in 1..Chunks[k].len :
                       data[Chunks[k].at + 1 + j] = StreamCell(Chunks[k].from + j)
                  /\ k < n => /\ Chunks[k + 1].from = Chunks[k].from + Chunks[k].len
                              /\ Chunks[k + 1].frag \in {Chunks[k].frag, Chunks[k].frag + 1}
                  /\ k = n \/ NewFragment(k + 1) => data[Behind(k) + 1] = 0
             /\ Chunks[n].from + Chunks[n].len = xex.imageSize
             /\ \A k \in 1..xex.imageSize : xex.image[k] = ImageCell(k)
<1>1. /\ IsExecutable(xex) /\ IsCompressed(xex) /\ HeadCells \in Nat
      /\ xex.body.cells \in Seq(Nat)
  BY XexAssumption DEF IsSound
<1>2. xex.imageSize \in Nat
  BY <1>1 DEF IsExecutable
<1>3. Len(xex.body.cells) \in Nat
  BY <1>1
<1> DEFINE data == xex.body.cells
           m == Len(Frags)
           n == Len(Chunks)
<1>4. m \in Nat \ {0} /\ n \in Nat \ {0}
  BY <1>1 DEF IsCompressed, Frags, Chunks
<1>5. /\ Frags[1].at = 0 /\ Frags[1].size = xex.first
      /\ Chunks[1].from = 0 /\ Chunks[1].frag = 1 /\ Chunks[n].frag = m
      /\ Chunks[n].from + Chunks[n].len = xex.imageSize
      /\ \A k \in 1..xex.imageSize : xex.image[k] = ImageCell(k)
  BY <1>1 DEF IsCompressed, Frags, Chunks
<1>6. ASSUME NEW f \in 1..m
      PROVE  /\ Frags[f].at \in Nat /\ Frags[f].at < Len(data) /\ Frags[f].size \in Nat
             /\ data[Frags[f].at + 1] = SizeAfter(f)
             /\ f # m => /\ Frags[f + 1].size # 0
                         /\ Frags[f + 1].at = Frags[f].at + Frags[f].size
  <2>1. /\ Frags[f].at \in 0..(Len(data) - 1) /\ Frags[f].size \in Nat
        /\ IF f = m THEN data[Frags[f].at + 1] = 0
           ELSE /\ data[Frags[f].at + 1] = Frags[f + 1].size /\ Frags[f + 1].size # 0
                /\ Frags[f + 1].at = Frags[f].at + Frags[f].size
    BY <1>1 DEF IsCompressed, Frags
  <2>2. Frags[f].at \in Nat /\ Frags[f].at < Len(data)
    <3> HIDE DEF data
    <3> QED BY <1>3, <2>1 DEF data
  <2> HIDE DEF data
  <2> QED BY <2>1, <2>2 DEF SizeAfter
<1>7. ASSUME NEW k \in 1..n
      PROVE  /\ Chunks[k].frag \in 1..m /\ Chunks[k].len \in Nat /\ Chunks[k].len # 0
             /\ Chunks[k].at \in Nat /\ Chunks[k].from \in Nat
             /\ NewFragment(k) => Chunks[k].at = Frags[Chunks[k].frag].at + HeadCells
             /\ ~NewFragment(k) => Chunks[k].at = Behind(k - 1)
             /\ Behind(k) < Len(data) /\ data[Chunks[k].at + 1] = Chunks[k].len
             /\ \A j \in 1..Chunks[k].len :
                  data[Chunks[k].at + 1 + j] = StreamCell(Chunks[k].from + j)
             /\ k < n => /\ Chunks[k + 1].from = Chunks[k].from + Chunks[k].len
                         /\ Chunks[k + 1].frag \in {Chunks[k].frag, Chunks[k].frag + 1}
             /\ k = n \/ NewFragment(k + 1) => data[Behind(k) + 1] = 0
  <2>1. /\ Chunks[k].frag \in 1..m /\ Chunks[k].len \in Nat \ {0}
        /\ {Chunks[k].at, Chunks[k].from} \subseteq Nat
        /\ Chunks[k].at = IF NewFragment(k) THEN Frags[Chunks[k].frag].at + HeadCells
                          ELSE Behind(k - 1)
    BY <1>1 DEF IsCompressed, Frags, Chunks, NewFragment, Behind
  <2>2. /\ Behind(k) < Len(data) /\ data[Chunks[k].at + 1] = Chunks[k].len
        /\ \A j \in 1..Chunks[k].len :
             data[Chunks[k].at + 1 + j] = StreamCell(Chunks[k].from + j)
    BY <1>1 DEF IsCompressed, Chunks, Behind
  <2>3. k < n => /\ Chunks[k + 1].from = Chunks[k].from + Chunks[k].len
                 /\ Chunks[k + 1].frag \in {Chunks[k].frag, Chunks[k].frag + 1}
    BY <1>1 DEF IsCompressed, Chunks
  <2>4. k = n \/ NewFragment(k + 1) => data[Behind(k) + 1] = 0
    BY <1>1 DEF IsCompressed, Chunks, NewFragment, Behind
  <2> HIDE DEF data, m, n
  <2> QED BY <2>1, <2>2, <2>3, <2>4
<1> HIDE DEF data, m, n
<1> QED BY <1>1, <1>2, <1>3, <1>4, <1>5, <1>6, <1>7 DEF data, m, n

(* The cells of a chunk continue the stream. *)
LEMMA StreamGrows ==
  ASSUME NEW s \in Seq(Nat), NEW at \in Nat, NEW from \in Nat, NEW len \in Nat, at + 1 + len <= Len(s),
         \A j \in 1..len : s[at + 1 + j] = StreamCell(from + j)
  PROVE  Stream(from) \o SubSeq(s, at + 2, at + 1 + len) = Stream(from + len)
<1> DEFINE a == Stream(from)
           b == SubSeq(s, at + 2, at + 1 + len)
<1>1. a \in Seq(Nat) /\ Len(a) = from /\ \A k \in 1..from : a[k] = StreamCell(k)
  BY DEF Stream, StreamCell
<1>2. b \in Seq(Nat) /\ Len(b) = len /\ \A k \in 1..len : b[k] = StreamCell(from + k)
  <2>1. \A t \in Seq(Nat) : \A p, q \in Nat : p <= Len(t) /\ p >= q =>
          /\ SubSeq(t, q + 1, p) \in Seq(Nat) /\ Len(SubSeq(t, q + 1, p)) = p - q
          /\ \A k \in 1..(p - q) : SubSeq(t, q + 1, p)[k] = t[q + k]
    OBVIOUS
  <2>2. /\ at + 1 \in Nat /\ at + 1 + len \in Nat /\ at + 1 + len >= at + 1
        /\ (at + 1) + 1 = at + 2 /\ at + 1 + len - (at + 1) = len
    OBVIOUS
  <2>3. b \in Seq(Nat) /\ Len(b) = len /\ \A k \in 1..len : b[k] = s[at + 1 + k]
    BY <2>1, <2>2
  <2> HIDE DEF b
  <2> QED BY <2>3
<1> HIDE DEF a, b
<1>3. a \o b \in Seq(Nat) /\ Len(a \o b) = from + len
  BY <1>1, <1>2, ConcatProperties
<1>4. Stream(from + len) \in Seq(Nat) /\ Len(Stream(from + len)) = from + len
      /\ \A k \in 1..(from + len) : Stream(from + len)[k] = StreamCell(k)
  BY DEF Stream, StreamCell
<1>5. ASSUME NEW k \in 1..(from + len)
      PROVE  (a \o b)[k] = StreamCell(k)
  <2>1. (a \o b)[k] = IF k <= from THEN a[k] ELSE b[k - from]
    BY <1>1, <1>2, ConcatProperties
  <2>2. CASE k <= from
    BY <1>1, <2>1, <2>2
  <2>3. CASE k > from
    <3>1. k - from \in 1..len /\ from + (k - from) = k
      BY <2>3
    <3> QED BY <1>2, <2>1, <2>3, <3>1
  <2>4. k <= from \/ k > from
    OBVIOUS
  <2> QED BY <2>2, <2>3, <2>4
<1>6. \A s1, s2 \in Seq(Nat) :
        Len(s1) = Len(s2) /\ (\A k \in 1..Len(s1) : s1[k] = s2[k]) => s1 = s2
  BY SeqEqual
<1>7. a \o b = Stream(from + len)
  <2> DEFINE c == a \o b
             d == Stream(from + len)
             n == from + len
  <2>1. c \in Seq(Nat) /\ d \in Seq(Nat) /\ Len(c) = n /\ Len(d) = n
        /\ \A k \in 1..n : c[k] = d[k]
    BY <1>3, <1>4, <1>5
  <2> HIDE DEF c, d, n
  <2>2. c = d
    BY <1>6, <2>1
  <2> QED BY <2>2 DEF c, d
<1> QED BY <1>7 DEF a, b

(* The first fragment is in front. *)
LEMMA UnpackStarts ==
  ASSUME xex \in Executables, xex.image # Nothing, xex.format = "compressed", UnpackXexData
  PROVE  AtFragment'
<1>1. /\ Chunks' = Chunks /\ Frags' = Frags /\ \A k : NewFragment(k)' = NewFragment(k)
      /\ lastPos' = 0 /\ currLen' = xex.first /\ currPos' = 0 /\ nextLen' = 1 /\ rebuf' = << >>
  BY DEF UnpackXexData, Chunks, Frags, NewFragment
<1>2. Stream(0) = << >>
  BY DEF Stream
<1>3. /\ 1 \in 1..Len(Chunks) /\ Frags[1].at = 0 /\ Frags[1].size = xex.first
      /\ Chunks[1].from = 0 /\ Chunks[1].frag = 1
  BY Layout
<1>4. NewFragment(1)
  BY DEF NewFragment
<1> QED BY <1>1, <1>2, <1>3, <1>4 DEF AtFragment, InFragment

(* From a fragment to its first chunk. *)
LEMMA StartFragmentStep ==
  ASSUME xex \in Executables, xex.image # Nothing, xex.format = "compressed",
         body = xex.body.cells, AtFragment, StartFragment
  PROVE  AtSomeChunk'
<1>1. /\ Chunks' = Chunks /\ Frags' = Frags /\ \A f : SizeAfter(f)' = SizeAfter(f)
      /\ lastPos' = lastPos /\ currLen' = currLen /\ rebuf' = rebuf /\ nextLen # 0
      /\ nextLen' = body[currPos + 1] /\ currPos' = currPos + HeadCells
  BY DEF StartFragment, MoreFragments, Chunks, Frags, SizeAfter
<1>2. PICK k \in 1..Len(Chunks) :
         /\ NewFragment(k) /\ InFragment(Chunks[k].frag)
         /\ currPos = lastPos /\ rebuf = Stream(Chunks[k].from)
  BY <1>1 DEF AtFragment
<1> DEFINE f == Chunks[k].frag
<1>3. /\ body[Frags[f].at + 1] = SizeAfter(f) /\ Chunks[k].at = Frags[f].at + HeadCells
  BY <1>2, Layout
<1>4. currPos = Frags[f].at
  BY <1>2 DEF InFragment
<1>5. currPos' = Chunks[k].at /\ nextLen' = SizeAfter(f)
  BY <1>1, <1>3, <1>4
<1> QED BY <1>1, <1>2, <1>5 DEF AtSomeChunk, InFragment

(* From a chunk to the next one, or behind the last one of the fragment. *)
LEMMA CopyChunkStep ==
  ASSUME xex \in Executables, xex.image # Nothing, xex.format = "compressed",
         body = xex.body.cells, AtSomeChunk, CopyChunk
  PROVE  AtSomeChunk'
<1>1. /\ Chunks' = Chunks /\ Frags' = Frags /\ \A f : SizeAfter(f)' = SizeAfter(f)
      /\ \A k : Behind(k)' = Behind(k) /\ NewFragment(k)' = NewFragment(k)
      /\ lastPos' = lastPos /\ currLen' = currLen /\ nextLen' = nextLen
      /\ currPos' = currPos + 1 + body[currPos + 1] /\ body[currPos + 1] # 0
      /\ rebuf' = rebuf \o SubSeq(body, currPos + 2, currPos + 1 + body[currPos + 1])
  BY DEF CopyChunk, AtChunk, Chunks, Frags, SizeAfter, Behind, NewFragment
<1>2. PICK k \in 1..Len(Chunks) :
         /\ InFragment(Chunks[k].frag) /\ nextLen = SizeAfter(Chunks[k].frag)
         /\ \/ currPos = Chunks[k].at /\ rebuf = Stream(Chunks[k].from)
            \/ /\ k = Len(Chunks) \/ NewFragment(k + 1)
               /\ currPos = Behind(k)
  BY DEF AtSomeChunk
<1>3. currPos = Chunks[k].at /\ rebuf = Stream(Chunks[k].from)
  BY <1>1, <1>2, Layout
<1> DEFINE at == Chunks[k].at
           len == Chunks[k].len
           from == Chunks[k].from
<1>4. /\ body \in Seq(Nat) /\ at \in Nat /\ len \in Nat /\ from \in Nat /\ body[at + 1] = len
      /\ at + 1 + len < Len(body) /\ Len(body) \in Nat /\ Len(Chunks) \in Nat
      /\ \A j \in 1..len : body[at + 1 + j] = StreamCell(from + j)
  BY Layout DEF Behind
<1>5. rebuf' = Stream(from + len)
  <2>1. rebuf' = Stream(from) \o SubSeq(body, at + 2, at + 1 + len)
    BY <1>1, <1>3, <1>4
  <2> HIDE DEF at, len, from
  <2>2. at + 1 + len <= Len(body)
    BY <1>4
  <2>3. Stream(from) \o SubSeq(body, at + 2, at + 1 + len) = Stream(from + len)
    <3>1. body \in Seq(Nat) /\ at \in Nat /\ len \in Nat /\ from \in Nat
      BY <1>4
    <3>2. \A j \in 1..len : body[at + 1 + j] = StreamCell(from + j)
      BY <1>4
    <3> QED BY <2>2, <3>1, <3>2, StreamGrows, Zenon
  <2> QED BY <2>1, <2>3
<1>6. currPos' = Behind(k)
  BY <1>1, <1>3, <1>4 DEF Behind
<1>7. CASE k = Len(Chunks) \/ NewFragment(k + 1)
  BY <1>1, <1>2, <1>5, <1>6, <1>7 DEF AtSomeChunk, InFragment
<1>8. CASE k # Len(Chunks) /\ ~NewFragment(k + 1)
  <2>0. Len(Chunks) \in Nat
    BY <1>4
  <2>1. k + 1 \in 1..Len(Chunks) /\ k < Len(Chunks) /\ k + 1 # 1 /\ (k + 1) - 1 = k
    BY <1>8, <2>0
  <2>2. Chunks[k + 1].frag = Chunks[k].frag
    BY <1>8, <2>1 DEF NewFragment
  <2>3. Chunks[k + 1].at = Behind(k) /\ Chunks[k + 1].from = from + len
    BY <1>8, <2>1, Layout
  <2> QED BY <1>1, <1>2, <1>5, <1>6, <2>1, <2>2, <2>3 DEF AtSomeChunk, InFragment
<1> QED BY <1>7, <1>8

(* From the last chunk of a fragment to the next one. *)
LEMMA EndFragmentStep ==
  ASSUME xex \in Executables, xex.image # Nothing, xex.format = "compressed",
         body = xex.body.cells, AtSomeChunk, EndFragment
  PROVE  AtFragment'
<1>1. /\ Chunks' = Chunks /\ Frags' = Frags /\ xex' = xex
      /\ \A k : NewFragment(k)' = NewFragment(k)
      /\ currPos' = lastPos + currLen /\ lastPos' = lastPos + currLen
      /\ currLen' = nextLen /\ nextLen' = nextLen /\ rebuf' = rebuf
      /\ ~(currPos < Len(body) /\ body[currPos + 1] # 0)
  BY DEF EndFragment, AtChunk, Chunks, Frags, NewFragment
<1>2. PICK k \in 1..Len(Chunks) :
         /\ InFragment(Chunks[k].frag) /\ nextLen = SizeAfter(Chunks[k].frag)
         /\ \/ currPos = Chunks[k].at
            \/ /\ k = Len(Chunks) \/ NewFragment(k + 1)
               /\ rebuf = Stream(Chunks[k].from + Chunks[k].len)
  BY DEF AtSomeChunk
<1>3. currPos # Chunks[k].at
  <2>1. /\ body[Chunks[k].at + 1] # 0 /\ Chunks[k].at + 1 + Chunks[k].len < Len(body)
        /\ Chunks[k].at \in Nat /\ Chunks[k].len \in Nat /\ Len(body) \in Nat
    BY Layout DEF Behind
  <2>2. Chunks[k].at < Len(body)
    BY <2>1
  <2> QED BY <1>1, <2>1, <2>2
<1>4. CASE k = Len(Chunks)
  <2>1. nextLen = 0 /\ rebuf = Stream(xex.imageSize)
    BY <1>2, <1>3, <1>4, Layout DEF SizeAfter
  <2> QED BY <1>1, <2>1 DEF AtFragment
<1>5. CASE k # Len(Chunks)
  <2> DEFINE f == Chunks[k].frag
  <2>1. Len(Chunks) \in Nat /\ Len(Frags) \in Nat /\ f \in 1..Len(Frags)
    BY Layout
  <2>2. k + 1 \in 1..Len(Chunks) /\ k < Len(Chunks) /\ k + 1 # 1 /\ (k + 1) - 1 = k
    BY <1>5, <2>1
  <2>3. NewFragment(k + 1) /\ Chunks[k + 1].frag # f
    BY <1>2, <1>3, <1>5, <2>2 DEF NewFragment
  <2>4. Chunks[k + 1].frag = f + 1 /\ Chunks[k + 1].frag \in 1..Len(Frags)
    BY <2>2, <2>3, Layout
  <2>5. f # Len(Frags)
    <3> HIDE DEF f
    <3> QED BY <2>1, <2>4
  <2>6. Frags[f + 1].size # 0 /\ Frags[f + 1].at = Frags[f].at + Frags[f].size
    BY <2>1, <2>5, Layout
  <2>7. nextLen = Frags[f + 1].size /\ lastPos' = Frags[f + 1].at
    BY <1>1, <1>2, <2>5, <2>6 DEF SizeAfter, InFragment
  <2>8. rebuf' = Stream(Chunks[k + 1].from)
    BY <1>1, <1>2, <1>3, <2>2, Layout
  <2> QED BY <1>1, <2>2, <2>3, <2>4, <2>6, <2>7, <2>8 DEF AtFragment, InFragment
<1> QED BY <1>4, <1>5

(* All of the stream decompresses to the image. *)
LEMMA UnpackWhole ==
  ASSUME xex \in Executables, xex.image # Nothing, xex.format = "compressed",
         body = xex.body.cells, AtFragment, DoXexUnpack
  PROVE  xexPc' = "xexGetSpaOffset" /\ outbuf' = xex.image
<1>1. rebuf = Stream(xex.imageSize)
  <2>1. ~(currPos < Len(body) /\ nextLen # 0)
    BY DEF DoXexUnpack, MoreFragments
  <2>2. ASSUME NEW k \in 1..Len(Chunks), InFragment(Chunks[k].frag), currPos = lastPos
        PROVE  currPos < Len(body)
    BY <2>2, Layout DEF InFragment
  <2> QED BY <2>1, <2>2 DEF AtFragment
<1> DEFINE size == xex.imageSize
           IsGood(n) ==
             /\ \A k \in 1..n : k <= Len(rebuf) /\ rebuf[k] = StreamCell(k)
             /\ n = size \/ n = Len(rebuf) \/ rebuf[n + 1] # StreamCell(n + 1)
<1>2. size \in Nat /\ Len(rebuf) = size /\ \A k \in 1..size : rebuf[k] = StreamCell(k)
  BY <1>1, Layout DEF Stream
<1>3. size \in 0..size /\ IsGood(size)
  <2> HIDE DEF size
  <2> QED BY <1>2
<1>4. ASSUME NEW n \in 0..size, IsGood(n) PROVE n = size
  <2> HIDE DEF size
  <2> QED BY <1>2, <1>4
<1>5. GoodCells(rebuf, size) = size
  <2>1. GoodCells(rebuf, size) = CHOOSE n \in 0..size : IsGood(n)
    BY DEF GoodCells
  <2> HIDE DEF IsGood, size
  <2> QED BY <1>3, <1>4, <2>1
<1>6. BitSizeKnown(xex.window) /\ xex.image \in Seq(Nat) /\ Len(xex.image) = size
  BY XexAssumption DEF IsSound
<1>7. /\ xexPc' = "xexGetSpaOffset"
      /\ outbuf' = [k \in 1..size |-> IF k <= size THEN ImageCell(k) ELSE Blank]
  BY <1>5, <1>6 DEF DoXexUnpack, Goto
<1>8. \A k \in 1..size : xex.image[k] = ImageCell(k)
  BY Layout
<1> HIDE DEF size
<1>9. xex.image = [k \in 1..size |-> xex.image[k]]
  BY <1>6
<1> QED BY <1>2, <1>7, <1>8, <1>9

(* The body is decrypted, and unpacked from its start. *)
LEMMA FindDescriptorStep ==
  ASSUME xex \in Executables, xex.image # Nothing, record = 1, currPos = 0, imagePos = 0,
         FindDescriptor
  PROVE  /\ xexPc' = xex.format /\ body' = xex.body.cells
         /\ xex.format \in {"raw", "compressed"} /\ (xex.format = "raw" => RawCopied')
<1>1. IsExecutable(xex) /\ IsSound(xex)
  BY XexAssumption
<1>2. /\ GetXexHeaderField("descriptor", Unswapped(Len(xex.fields))) \in 1..Len(xex.fields)
      /\ DOMAIN xex.fields = 1..Len(xex.fields)
  BY <1>1, FieldFound, UnswappedEnough DEF IsSound, IsExecutable
<1> DEFINE place == GetXexHeaderField("descriptor", Unswapped(Len(xex.fields)))
<1>3. place # 0 /\ InDirectory(place)
  <2> HIDE DEF place
  <2> QED BY <1>2 DEF InDirectory, place
<1>4. /\ outbuf' = Blanks(xex.imageSize) /\ xexPc' = xex.format
      /\ body' = IF xex.encrypted THEN Decrypted(xex.body, KeyUsed(xex.mfg)) ELSE xex.body.cells
      /\ xex' = xex /\ record' = 1 /\ currPos' = 0 /\ imagePos' = 0
  BY <1>3 DEF FindDescriptor, Goto, packVars, rawVars
<1>5. body' = xex.body.cells
  BY <1>1, <1>4 DEF IsSound, Decrypted
<1>6. xex.format \in {"raw", "compressed"}
  BY <1>1 DEF IsSound
<1>7. RawCopied'
  <2>1. xex.imageSize \in Nat /\ Len(xex.raw) \in Nat
    BY <1>1 DEF IsExecutable
  <2>2. DataEnd(xex, 0) = 0 /\ ImageEnd(xex, 0) = 0
    BY DEF DataEnd, ImageEnd
  <2>3. 1 \in 1..(Len(xex.raw) + 1)
    BY <2>1
  <2>4. Blanks(xex.imageSize) = [k \in 1..xex.imageSize |-> IF k <= 0 THEN xex.image[k] ELSE Blank]
    BY <2>1 DEF Blanks
  <2> QED BY <1>4, <2>2, <2>3, <2>4 DEF RawCopied
<1> QED BY <1>4, <1>5, <1>6, <1>7

(* Every step of the parser keeps the invariant. *)
LEMMA XexStep ==
  ASSUME XexInv, [XexNext]_xexVars
  PROVE  XexInv'
<1>1. xex' = xex
  BY DEF XexNext, xexVars, DumpDefaultXex, GetXexInfo, GetXexExecInfo, FindDescriptor, CopyRecord,
     RawParsed, OtherFormat, UnpackXexData, StartFragment, CopyChunk, EndFragment, DoXexUnpack,
     XexGetSpaOffset
<1> SUFFICES ASSUME xex.image # Nothing, XexControl, xex \in Executables
             PROVE  XexControl'
  BY <1>1 DEF XexInv
<1>2. IsExecutable(xex) /\ IsSound(xex)
  BY XexAssumption
<1>3. CASE DumpDefaultXex
  <2>1. xexPc' = "getXexInfo" /\ UNCHANGED <<record, currPos, imagePos>>
    BY <1>2, <1>3 DEF DumpDefaultXex, Goto, IsSound, packVars, rawVars
  <2>2. record = 1 /\ currPos = 0 /\ imagePos = 0
    BY <1>3 DEF DumpDefaultXex, XexControl, Early
  <2> QED BY <2>1, <2>2 DEF XexControl, Early, Packed
<1>4. CASE GetXexInfo
  <2>1. xexPc' = "getXexExecInfo" /\ UNCHANGED <<record, currPos, imagePos>>
    BY <1>2, <1>4 DEF GetXexInfo, Goto, IsSound, packVars, rawVars
  <2>2. record = 1 /\ currPos = 0 /\ imagePos = 0
    BY <1>4 DEF GetXexInfo, XexControl, Early
  <2> QED BY <2>1, <2>2 DEF XexControl, Early, Packed
<1>5. CASE GetXexExecInfo
  <2>1. /\ GetXexHeaderField("execution", Len(xex.fields)) \in 1..Len(xex.fields)
        /\ Len(xex.fields) \in Nat
    <3>1. Len(xex.fields) \in Nat /\ Len(xex.fields) \in Int /\ Len(xex.fields) >= Len(xex.fields)
      BY <1>2 DEF IsExecutable
    <3> QED BY <1>2, <3>1, FieldFound DEF IsSound
  <2>2. GetXexHeaderField("execution", Len(xex.fields)) # 0
    BY <2>1
  <2>3. /\ xexPc' = "xexGetSpaInfo" /\ executionId' = xex.title
        /\ UNCHANGED <<record, currPos, imagePos>>
    BY <1>2, <1>5, <2>2 DEF GetXexExecInfo, Goto, IsSound, packVars, rawVars
  <2>4. record = 1 /\ currPos = 0 /\ imagePos = 0
    BY <1>5 DEF GetXexExecInfo, XexControl, Early
  <2> QED BY <1>1, <2>3, <2>4 DEF XexControl, Early, Packed
<1>6. CASE FindDescriptor
  <2>1. xexPc = "xexGetSpaInfo" /\ executionId' = executionId
    BY <1>6 DEF FindDescriptor
  <2>2. record = 1 /\ currPos = 0 /\ imagePos = 0 /\ executionId = xex.title
    BY <2>1 DEF XexControl, Early
  <2>3. /\ xexPc' = xex.format /\ body' = xex.body.cells
        /\ xex.format \in {"raw", "compressed"} /\ (xex.format = "raw" => RawCopied')
    BY <1>6, <2>2, FindDescriptorStep
  <2> QED BY <1>1, <2>1, <2>2, <2>3 DEF XexControl, Early, Packed
<1>7. CASE CopyRecord
  <2>1. xexPc = "raw" /\ UNCHANGED <<xexPc, executionId, body>>
    BY <1>7 DEF CopyRecord
  <2>2. xex.format = "raw" /\ RawCopied /\ body = xex.body.cells /\ executionId = xex.title
    BY <2>1 DEF XexControl, Early, Packed
  <2>3. RawCopied'
    BY <1>7, <2>2, CopyRecordStep
  <2> QED BY <1>1, <2>1, <2>2, <2>3 DEF XexControl, Early, Packed
<1>8. CASE RawParsed
  <2>1. /\ xexPc = "raw" /\ xexPc' = "xexGetSpaOffset" /\ UNCHANGED <<executionId, outbuf>>
    BY <1>8 DEF RawParsed, Goto
  <2>2. xex.format = "raw" /\ RawCopied /\ executionId = xex.title
    BY <2>1 DEF XexControl, Early
  <2>3. outbuf = xex.image
    BY <1>8, <2>2, RawParsedStep
  <2> QED BY <1>1, <2>1, <2>2, <2>3 DEF XexControl, Early, Packed
<1>9. CASE OtherFormat
  BY <1>9 DEF OtherFormat, XexControl
<1>10. CASE UnpackXexData
  <2>1. xexPc = "compressed" /\ xexPc' = "fragments" /\ UNCHANGED <<executionId, body>>
    BY <1>10 DEF UnpackXexData, Goto
  <2>2. xex.format = "compressed" /\ body = xex.body.cells /\ executionId = xex.title
    BY <2>1 DEF XexControl, Early, Packed
  <2>3. AtFragment'
    BY <1>10, <2>2, UnpackStarts
  <2> QED BY <1>1, <2>1, <2>2, <2>3 DEF XexControl, Early, Packed
<1>11. CASE StartFragment
  <2>1. xexPc = "fragments" /\ xexPc' = "chunks" /\ UNCHANGED <<executionId, body>>
    BY <1>11 DEF StartFragment, Goto
  <2>2. xex.format = "compressed" /\ body = xex.body.cells /\ executionId = xex.title /\ AtFragment
    BY <2>1 DEF XexControl, Early, Packed
  <2>3. AtSomeChunk'
    BY <1>11, <2>2, StartFragmentStep
  <2> QED BY <1>1, <2>1, <2>2, <2>3 DEF XexControl, Early, Packed
<1>12. CASE CopyChunk
  <2>1. xexPc = "chunks" /\ UNCHANGED <<xexPc, executionId, body>>
    BY <1>12 DEF CopyChunk
  <2>2. xex.format = "compressed" /\ body = xex.body.cells /\ executionId = xex.title /\ AtSomeChunk
    BY <2>1 DEF XexControl, Early, Packed
  <2>3. AtSomeChunk'
    BY <1>12, <2>2, CopyChunkStep
  <2> QED BY <1>1, <2>1, <2>2, <2>3 DEF XexControl, Early, Packed
<1>13. CASE EndFragment
  <2>1. xexPc = "chunks" /\ xexPc' = "fragments" /\ UNCHANGED <<executionId, body>>
    BY <1>13 DEF EndFragment, Goto
  <2>2. xex.format = "compressed" /\ body = xex.body.cells /\ executionId = xex.title /\ AtSomeChunk
    BY <2>1 DEF XexControl, Early, Packed
  <2>3. AtFragment'
    BY <1>13, <2>2, EndFragmentStep
  <2> QED BY <1>1, <2>1, <2>2, <2>3 DEF XexControl, Early, Packed
<1>14. CASE DoXexUnpack
  <2>1. xexPc = "fragments" /\ executionId' = executionId
    BY <1>14 DEF DoXexUnpack
  <2>2. xex.format = "compressed" /\ body = xex.body.cells /\ executionId = xex.title /\ AtFragment
    BY <2>1 DEF XexControl, Early, Packed
  <2>3. xexPc' = "xexGetSpaOffset" /\ outbuf' = xex.image
    BY <1>14, <2>2, UnpackWhole
  <2> QED BY <1>1, <2>1, <2>2, <2>3 DEF XexControl, Early, Packed
<1>15. CASE XexGetSpaOffset
  <2>1. xexPc = "xexGetSpaOffset" /\ executionId' = executionId
    BY <1>15 DEF XexGetSpaOffset
  <2>2. executionId = xex.title /\ outbuf = xex.image
    BY <2>1 DEF XexControl, Early
  <2>3. xexPc' = "done" /\ SpaIsSection'
    BY <1>15, <2>1, <2>2, SpaCut
  <2> QED BY <1>1, <2>1, <2>2, <2>3 DEF XexControl, Early, Packed
<1>16. CASE UNCHANGED xexVars
  <2>1. UNCHANGED <<xexPc, executionId, body, record, imagePos, currPos, lastPos, currLen, nextLen,
                    rebuf, outbuf, spa>>
    BY <1>16 DEF xexVars, packVars, rawVars, fragmentVars
  <2>2. RawCopied' = RawCopied
    BY <1>1, <2>1 DEF RawCopied
  <2>3. /\ Frags' = Frags /\ Chunks' = Chunks /\ \A k : NewFragment(k)' = NewFragment(k)
        /\ \A k : Behind(k)' = Behind(k) /\ \A f : SizeAfter(f)' = SizeAfter(f)
        /\ \A f : InFragment(f)' = InFragment(f)
    BY <1>1, <2>1 DEF Frags, Chunks, NewFragment, Behind, SizeAfter, InFragment
  <2>4. AtFragment' = AtFragment
    BY <1>1, <2>1, <2>3 DEF AtFragment
  <2>5. AtSomeChunk' = AtSomeChunk
    BY <1>1, <2>1, <2>3 DEF AtSomeChunk
  <2>6. SpaIsSection' = SpaIsSection
    BY <1>1, <2>1 DEF SpaIsSection, NamedSections, FirstNamed
  <2> QED BY <1>1, <2>1, <2>2, <2>4, <2>5, <2>6 DEF XexControl, Early, Packed
<1> QED BY <1>3, <1>4, <1>5, <1>6, <1>7, <1>8, <1>9, <1>10, <1>11, <1>12, <1>13, <1>14, <1>15, <1>16
       DEF XexNext

(* However the executable of a title is packed and encrypted, the cells    *)
(* handed to getSpaInfo are those of the title's section in the image the  *)
(* console would load.                                                     *)
THEOREM TitleDataIsExact == XexSpec => []TitleDataExact
<1>1. XexInit => XexInv
  BY DEF XexInit, XexInv, XexControl, Early, Packed
<1>2. XexInv /\ [XexNext]_xexVars => XexInv'
  BY XexStep
<1>3. XexInv => TitleDataExact
  BY DEF XexInv, XexControl, TitleDataExact, SpaIsSection
<1> QED BY <1>1, <1>2, <1>3, PTL DEF XexSpec
===============================================================================
