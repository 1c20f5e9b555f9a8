------------------------------ MODULE ToolProofs ------------------------------
(***************************************************************************)
(* Proofs about four of the tools around the flash image, whatever files   *)
(* they are given: the container of patches dl_patches writes describes    *)
(* exactly what it has read, each item at its place; the index opt_idx     *)
(* builds has every list of places once, keeps its base, and is read back  *)
(* word for word as it was written; the ini file of ini_creator has each   *)
(* file once, in the section of its console; and scriptsetc's blocks and   *)
(* its places for files and settings tile the flash.                       *)
(***************************************************************************)
EXTENDS PatchContainer, OptIndex, FlashIni, SfcGeometry,
        FiniteSetTheorems, SequenceTheorems, WellFoundedInduction, TLAPS

(* dl_patches. *)

(* How many items in front of item n have contents. *)
PresentBefore(n) == {m \in Items : m < n /\ Present(m)}
Before(n) == Cardinality(PresentBefore(n))

Last == Len(fileList) + 1

(* What has been read of the items in front of item n. *)
DataRead(n) ==
  \A k \in Items :
    IF k < n THEN IF SourceOf(k) = Gone THEN data[k] = Gone
                  ELSE data[k] \in ReadResults(SourceOf(k))
    ELSE data[k] = Gone

(* The contents lie one behind the other. *)
EndOf(j) == IF j = 0 THEN 0 ELSE header.inf[j].offset + header.inf[j].size
Chain ==
  /\ \A j \in 1..Len(header.inf) : header.inf[j].offset = EndOf(j - 1)
  /\ currOff = EndOf(Len(header.inf))

EntryOf(k) == header.inf[Before(k) + 1]

(* The header describes the items in front of item n, each in its place.   *)
Described(n) ==
  /\ Len(header.inf) = Before(n)
  /\ \A k \in PresentBefore(n) :
       EntryOf(k).consoleType = fileList[k].type /\ EntryOf(k).size = Len(data[k])
  /\ \A j \in 1..Len(header.inf) : \E k \in PresentBefore(n) : j = Before(k) + 1

(* Their contents have been written. *)
Written(n) ==
  /\ Len(container) = EndOf(Before(n))
  /\ \A k \in PresentBefore(n) :
       /\ EntryOf(k).offset + EntryOf(k).size <= Len(container)
       /\ \A c \in 1..EntryOf(k).size : container[EntryOf(k).offset + c] = data[k][c]

ListInv ==
  /\ ListTypeOK
  /\ listPc = "get" => DataRead(listItem) /\ cnt = Before(listItem)
  /\ listPc = "get" => currOff = 0 /\ container = << >> /\ header = NoHeader
  /\ listPc \in {"header", "content", "done"} =>
       DataRead(Last) /\ header.numEntries = Before(Last) /\ Chain
  /\ listPc = "header" => Described(listItem) /\ container = << >>
  /\ listPc \in {"content", "done"} => Described(Last)
  /\ listPc = "content" => Written(listItem)
  /\ listPc = "done" => Written(Last)

-------------------------------------------------------------------------------
(* Counting the items. *)
LEMMA BeforeFacts ==
  /\ Before(1) = 0
  /\ \A n \in 1..Last : Before(n) \in Nat
  /\ \A n \in Items : Before(n + 1) = IF Present(n) THEN Before(n) + 1 ELSE Before(n)
  /\ \A k, n \in 1..Last : k <= n => Before(k) <= Before(n)
<1>1. Items = 1..Len(fileList) /\ Len(fileList) \in Nat
  BY ContainerAssumption
<1>2. IsFiniteSet(Items)
  BY <1>1, FS_Interval
<1>3. \A n : IsFiniteSet(PresentBefore(n)) /\ Before(n) \in Nat
  BY <1>2, FS_Subset, FS_CardinalityType DEF PresentBefore, Before
<1>4. PresentBefore(1) = {}
  BY <1>1 DEF PresentBefore
<1>5. ASSUME NEW n \in Items
      PROVE  Before(n + 1) = IF Present(n) THEN Before(n) + 1 ELSE Before(n)
  <2>1. PresentBefore(n + 1) = IF Present(n) THEN PresentBefore(n) \cup {n} ELSE PresentBefore(n)
    BY <1>1 DEF PresentBefore
  <2>2. n \notin PresentBefore(n)
    BY <1>1 DEF PresentBefore
  <2> QED BY <1>3, <2>1, <2>2, FS_AddElement DEF Before
<1>6. ASSUME NEW k \in 1..Last, NEW n \in 1..Last, k <= n
      PROVE  Before(k) <= Before(n)
  <2>1. PresentBefore(k) \subseteq PresentBefore(n)
    BY <1>1, <1>6 DEF PresentBefore, Last
  <2> QED BY <1>3, <2>1, FS_Subset DEF Before
<1> QED BY <1>3, <1>4, <1>5, <1>6, FS_EmptySet DEF Before

(* An item that is there has a place of its own among the entries. *)
LEMMA PlaceOfItem ==
  ASSUME NEW n \in 1..Last, NEW k \in PresentBefore(n)
  PROVE  k \in Items /\ k < n /\ Present(k) /\ Before(k) \in Nat /\ Before(k) + 1 <= Before(n)
<1>1. Items = 1..Len(fileList) /\ Len(fileList) \in Nat
  BY ContainerAssumption
<1>2. k \in Items /\ k < n /\ Present(k)
  BY DEF PresentBefore
<1>3. k \in 1..Last /\ k + 1 \in 1..Last /\ k + 1 <= n
  BY <1>1, <1>2 DEF Last
<1>4. Before(k + 1) = Before(k) + 1 /\ Before(k + 1) <= Before(n)
  BY <1>2, <1>3, BeforeFacts
<1> QED BY <1>2, <1>3, <1>4, BeforeFacts

(* The items in front of the next one. *)
LEMMA OneMoreItem ==
  ASSUME NEW n \in Items
  PROVE  PresentBefore(n + 1) = IF Present(n) THEN PresentBefore(n) \cup {n} ELSE PresentBefore(n)
BY ContainerAssumption DEF PresentBefore

(* What a file is read from. *)
LEMMA SourceFacts ==
  ASSUME patches \in Disks, NEW k \in Items
  PROVE  /\ SourceOf(k) \in Seq(Cells) \cup {Gone}
         /\ SourceOf(k) # Gone =>
              \A b \in ReadResults(SourceOf(k)) :
                /\ b \in Seq(Cells) /\ b # Gone /\ Len(b) = Len(SourceOf(k))
                /\ \A c \in 1..Len(b) : b[c] \in {SourceOf(k)[c], Junk}
<1>1. SourceOf(k) \in Seq(Cells) \cup {Gone}
  BY ContainerAssumption DEF SourceOf, IsDisk
<1>2. ASSUME SourceOf(k) # Gone, NEW b \in ReadResults(SourceOf(k))
      PROVE  /\ b \in Seq(Cells) /\ Len(b) = Len(SourceOf(k))
             /\ \A c \in 1..Len(b) : b[c] \in {SourceOf(k)[c], Junk}
  <2> DEFINE s == SourceOf(k)
  <2>1. s \in Seq(Cells)
    BY <1>1, <1>2
  <2>2. PICK n \in 0..Len(s) : b = [c \in DOMAIN s |-> IF c <= n THEN s[c] ELSE Junk]
    BY <1>2 DEF ReadResults
  <2> HIDE DEF s
  <2>3. DOMAIN s = 1..Len(s) /\ Len(s) \in Nat /\ \A c \in 1..Len(s) : s[c] \in Cells
    BY <2>1
  <2>4. b \in [1..Len(s) -> Cells]
    BY <2>2, <2>3, ContainerAssumption
  <2>5. b \in Seq(Cells) /\ Len(b) = Len(s)
    BY <2>3, <2>4, SeqDef, LenProperties
  <2>6. \A c \in 1..Len(b) : b[c] \in {s[c], Junk}
    BY <2>2, <2>3, <2>5
  <2> QED BY <2>5, <2>6 DEF s
<1> QED BY <1>1, <1>2, ContainerAssumption

(* What a step leaves that does not read. *)
LEMMA DataStays ==
  ASSUME data' = data
  PROVE  /\ \A k : Present(k)' = Present(k)
         /\ \A n : PresentBefore(n)' = PresentBefore(n)
         /\ \A n : Before(n)' = Before(n)
BY DEF Present, PresentBefore, Before

(* The sources are where they were. *)
LEMMA SourcesStay ==
  ASSUME patches' = patches
  PROVE  \A k : SourceOf(k)' = SourceOf(k)
BY DEF SourceOf

(* One item is read. *)
LEMMA GetItemDataKeepsListInv ==
  ASSUME ListInv, GetItemData
  PROVE  ListInv'
<1>1. /\ listPc = "get" /\ listPc' = "get" /\ listItem \in Items /\ listItem' = listItem + 1
      /\ UNCHANGED <<patches, currOff, header, container>>
      /\ patches \in Disks /\ data \in [Items -> Seq(Cells) \cup {Gone}]
      /\ Items = 1..Len(fileList) /\ Len(fileList) \in Nat /\ cnt \in Nat
  BY ContainerAssumption DEF ListInv, ListTypeOK, GetItemData
<1>2. Found = SourceOf(listItem)
  <2>1. patches[<<listItem, "file">>] = Gone \/ patches[<<listItem, "file">>] # Gone
    OBVIOUS
  <2> QED BY <1>1, ContainerAssumption DEF Found, SourceOf
<1>3. /\ data' \in [Items -> Seq(Cells) \cup {Gone}]
      /\ \A k \in Items : k # listItem => data'[k] = data[k]
      /\ IF SourceOf(listItem) = Gone THEN data'[listItem] = Gone /\ cnt' = cnt
         ELSE data'[listItem] \in ReadResults(SourceOf(listItem)) /\ cnt' = cnt + 1
  <2>1. data[listItem] = Gone
    BY <1>1 DEF ListInv, DataRead
  <2>2. CASE SourceOf(listItem) = Gone
    BY <1>1, <1>2, <2>1, <2>2 DEF GetItemData
  <2>3. CASE SourceOf(listItem) # Gone
    <3>1. PICK buffer \in ReadResults(SourceOf(listItem)) : data' = [data EXCEPT ![listItem] = buffer]
      BY <1>2, <2>3 DEF GetItemData
    <3>2. cnt' = cnt + 1
      BY <1>2, <2>3 DEF GetItemData
    <3>3. buffer \in Seq(Cells)
      BY <1>1, <2>3, <3>1, SourceFacts
    <3> QED BY <1>1, <2>3, <3>1, <3>2, <3>3
  <2> QED BY <2>2, <2>3
<1>4. DataRead(listItem)'
  <2>1. SUFFICES ASSUME NEW k \in Items
                 PROVE  IF k < listItem + 1
                        THEN IF SourceOf(k) = Gone THEN data'[k] = Gone
                             ELSE data'[k] \in ReadResults(SourceOf(k))
                        ELSE data'[k] = Gone
    BY <1>1, SourcesStay DEF DataRead, ReadResults
  <2>2. CASE k = listItem
    BY <1>1, <1>3, <2>2
  <2>3. CASE k # listItem
    <3>1. k < listItem + 1 <=> k < listItem
      BY <1>1, <2>3
    <3> QED BY <1>1, <1>3, <2>3, <3>1 DEF ListInv, DataRead
  <2> QED BY <2>2, <2>3
<1>5. cnt' = Before(listItem)' /\ cnt' \in Nat
  <2>1. cnt = Before(listItem)
    BY <1>1 DEF ListInv
  <2>2. PresentBefore(listItem)' = IF SourceOf(listItem) = Gone THEN PresentBefore(listItem)
                                   ELSE PresentBefore(listItem) \cup {listItem}
    <3>1. data'[listItem] # Gone <=> SourceOf(listItem) # Gone
      BY <1>1, <1>3, SourceFacts
    <3>2. \A m \in Items : m < listItem + 1 <=> m < listItem \/ m = listItem
      BY <1>1
    <3>3. PresentBefore(listItem)' = {m \in Items : m < listItem + 1 /\ data'[m] # Gone}
      BY <1>1 DEF PresentBefore, Present
    <3>4. PresentBefore(listItem) = {m \in Items : m < listItem /\ data[m] # Gone}
      BY DEF PresentBefore, Present
    <3>5. ~ (listItem < listItem)
      BY <1>1
    <3>6. ASSUME NEW m \in Items
          PROVE  m < listItem + 1 /\ data'[m] # Gone
                   <=> (m < listItem /\ data[m] # Gone) \/ (m = listItem /\ SourceOf(listItem) # Gone)
      BY <1>3, <3>1, <3>2, <3>5
    <3> QED BY <1>1, <3>3, <3>4, <3>6
  <2>3. listItem \notin PresentBefore(listItem) /\ IsFiniteSet(PresentBefore(listItem))
    <3>1. IsFiniteSet(Items) /\ ~ (listItem < listItem)
      BY <1>1, FS_Interval
    <3> QED BY <3>1, FS_Subset DEF PresentBefore
  <2>4. Before(listItem)' = IF SourceOf(listItem) = Gone THEN Before(listItem) ELSE Before(listItem) + 1
    BY <2>2, <2>3, FS_AddElement DEF Before
  <2> QED BY <1>1, <1>3, <2>1, <2>4
<1>6. ListTypeOK'
  BY <1>1, <1>3, <1>5 DEF ListInv, ListTypeOK
<1> QED BY <1>1, <1>4, <1>5, <1>6 DEF ListInv

(* Nothing is described yet. *)
LEMMA MakeHeaderKeepsListInv ==
  ASSUME ListInv, MakeHeader
  PROVE  ListInv'
<1>1. CASE listPc' = "failed"
  <2>1. UNCHANGED <<patches, data, cnt, currOff, header, container>> /\ listItem' = 1
    BY <1>1 DEF MakeHeader
  <2>2. Len(fileList) \in Nat
    BY ContainerAssumption
  <2> QED BY <1>1, <2>1, <2>2 DEF ListInv, ListTypeOK
<1>2. CASE listPc' = "header"
  <2>1. /\ listPc = "get" /\ listPc' = "header" /\ listItem' = 1 /\ listItem = Last
        /\ UNCHANGED <<patches, data, cnt, currOff, container>>
        /\ header' = [numEntries |-> cnt, inf |-> << >>]
        /\ currOff = 0 /\ container = << >> /\ cnt = Before(listItem) /\ DataRead(listItem)
        /\ cnt \in Nat /\ Last \in Nat /\ Last > 0
    BY <1>2, ContainerAssumption DEF ListInv, ListTypeOK, MakeHeader, NoHeader, Last
  <2>2. Len(header'.inf) = 0 /\ DOMAIN header'.inf = {}
    BY <2>1
  <2>3. ListTypeOK'
    BY <2>1, ContainerAssumption DEF ListInv, ListTypeOK
  <2>4. DataRead(Last)' /\ header'.numEntries = Before(Last)'
    BY <2>1, DataStays, SourcesStay DEF DataRead, ReadResults, Last
  <2>5. Chain'
    BY <2>1, <2>2 DEF Chain, EndOf
  <2>6. PresentBefore(1)' = {} /\ Before(1)' = 0
    BY <2>1, BeforeFacts, DataStays, ContainerAssumption DEF PresentBefore
  <2>7. Described(listItem)'
    BY <2>1, <2>2, <2>6 DEF Described, Before
  <2> QED BY <2>1, <2>3, <2>4, <2>5, <2>7 DEF ListInv
<1> QED BY <1>1, <1>2 DEF MakeHeader

(* Nothing is written yet. *)
LEMMA WriteHeaderKeepsListInv ==
  ASSUME ListInv, WriteHeader
  PROVE  ListInv'
<1>1. /\ listPc = "header" /\ listPc' = "content" /\ listItem' = 1 /\ listItem = Last
      /\ UNCHANGED <<patches, data, cnt, currOff, header, container>>
      /\ container = << >> /\ Last \in Nat /\ Last > 0
  BY ContainerAssumption DEF ListInv, ListTypeOK, WriteHeader, Last
<1>2. ListTypeOK'
  BY <1>1, ContainerAssumption DEF ListInv, ListTypeOK
<1>3. DataRead(Last)' /\ header'.numEntries = Before(Last)' /\ Chain'
  BY <1>1, DataStays, SourcesStay DEF ListInv, DataRead, ReadResults, Last, Chain, EndOf
<1>4. Described(Last)'
  BY <1>1, DataStays DEF ListInv, Described, EntryOf, Last
<1>5. PresentBefore(1)' = {} /\ Before(1)' = 0
  BY <1>1, BeforeFacts, DataStays, ContainerAssumption DEF PresentBefore
<1>6. Written(listItem)'
  BY <1>1, <1>5 DEF Written, EndOf
<1> QED BY <1>1, <1>2, <1>3, <1>4, <1>6 DEF ListInv

(* An entry follows the others, and so do its contents. *)
LEMMA AddInfoKeepsListInv ==
  ASSUME ListInv, AddInfo
  PROVE  ListInv'
<1> DEFINE inf == header.inf
           Info == [consoleType : {fileList[k].type : k \in Items}, size : Nat, offset : Nat]
<1>1. /\ listPc = "header" /\ listPc' = "header" /\ listItem \in Items /\ listItem' = listItem + 1
      /\ UNCHANGED <<patches, data, cnt, container>>
      /\ container = << >> /\ Described(listItem) /\ Chain /\ currOff \in Nat
      /\ Items = 1..Len(fileList) /\ Len(fileList) \in Nat
      /\ data \in [Items -> Seq(Cells) \cup {Gone}]
      /\ inf \in Seq(Info) /\ header.numEntries \in Nat
  BY ContainerAssumption DEF ListInv, ListTypeOK, AddInfo
<1>2. /\ listItem \in 1..Last /\ listItem + 1 \in 1..Last
      /\ Len(inf) = Before(listItem) /\ Before(listItem) \in Nat
  BY <1>1, BeforeFacts DEF Described, Last
<1>3. DataRead(Last)' /\ header.numEntries = Before(Last)'
  BY <1>1, DataStays, SourcesStay DEF ListInv, DataRead, ReadResults, Last
<1>4. CASE ~Present(listItem)
  <2>1. UNCHANGED <<header, currOff>>
    BY <1>4 DEF AddInfo
  <2>2. ListTypeOK' /\ Chain'
    BY <1>1, <2>1 DEF ListInv, ListTypeOK, Chain, EndOf
  <2>3. PresentBefore(listItem)' = PresentBefore(listItem) /\ Before(listItem)' = Before(listItem)
    <3>1. PresentBefore(listItem + 1) = PresentBefore(listItem)
      BY <1>1, <1>4, OneMoreItem
    <3> QED BY <1>1, <3>1 DEF PresentBefore, Present, Before
  <2>4. Described(listItem)'
    <3>1. header' = header /\ data' = data /\ Described(listItem)
      BY <1>1, <2>1
    <3>2. \A k : EntryOf(k)' = EntryOf(k)
      BY <3>1, DataStays DEF EntryOf
    <3> QED BY <2>3, <3>1, <3>2, DataStays DEF Described
  <2> QED BY <1>1, <1>3, <2>1, <2>2, <2>4 DEF ListInv
<1>5. CASE Present(listItem)
  <2> DEFINE e == InfoOf(listItem)
  <2>1. /\ header' = [numEntries |-> header.numEntries, inf |-> Append(inf, e)]
        /\ currOff' = currOff + Len(data[listItem])
    BY <1>1, <1>5 DEF AddInfo, OffsetStep
  <2>2. data[listItem] \in Seq(Cells) /\ Len(data[listItem]) \in Nat
    <3>1. data[listItem] \in Seq(Cells) \cup {Gone} /\ data[listItem] # Gone
      <4> HIDE DEF inf, Info
      <4> QED BY <1>1, <1>5 DEF Present
    <3> QED BY <3>1
  <2>3. e \in Info /\ e.consoleType = fileList[listItem].type /\ e.size = Len(data[listItem]) /\ e.offset = currOff
    BY <1>1, <2>2 DEF InfoOf
  <2>5. /\ header'.numEntries = header.numEntries /\ header'.inf = Append(inf, e)
        /\ Append(inf, e) \in Seq(Info) /\ Len(Append(inf, e)) = Len(inf) + 1 /\ Len(inf) \in Nat
        /\ \A j \in 1..Len(inf) : Append(inf, e)[j] = inf[j]
        /\ Append(inf, e)[Len(inf) + 1] = e
    <3> HIDE DEF e, inf, Info
    <3> QED BY <1>1, <2>1, <2>3, AppendProperties, LenProperties
  <2> HIDE DEF e, inf
  <2>6. ListTypeOK'
    BY <1>1, <2>1, <2>2, <2>5 DEF ListInv, ListTypeOK
  <2>7. \A j \in 0..Len(inf) : EndOf(j)' = EndOf(j)
    BY <2>5 DEF EndOf, inf
  <2>8. Chain'
    <3>1. ASSUME NEW j \in 1..(Len(inf) + 1) PROVE header'.inf[j].offset = EndOf(j - 1)'
      <4>1. CASE j <= Len(inf)
        <5>1. j \in 1..Len(inf) /\ j - 1 \in 0..Len(inf)
          BY <2>5, <4>1
        <5> QED BY <1>1, <2>5, <2>7, <5>1 DEF Chain, inf
      <4>2. CASE j = Len(inf) + 1
        <5>1. header'.inf[j].offset = currOff /\ j - 1 = Len(inf) /\ Len(inf) \in 0..Len(inf)
          BY <2>3, <2>5, <4>2
        <5> QED BY <1>1, <2>7, <5>1 DEF Chain, inf
      <4> QED BY <2>5, <4>1, <4>2
    <3>2. Len(header'.inf) = Len(inf) + 1 /\ Len(header'.inf) # 0
      BY <2>5
    <3>3. currOff' = EndOf(Len(header.inf))'
      BY <2>1, <2>3, <2>5, <3>2 DEF EndOf
    <3> QED BY <3>1, <3>2, <3>3 DEF Chain, EndOf
  <2>9. PresentBefore(listItem)' = PresentBefore(listItem) \cup {listItem}
        /\ Before(listItem)' = Before(listItem) + 1
    <3>1. PresentBefore(listItem + 1) = PresentBefore(listItem) \cup {listItem}
      BY <1>1, <1>5, OneMoreItem
    <3>2. Before(listItem + 1) = Before(listItem) + 1
      BY <1>1, <1>5, BeforeFacts
    <3>3. PresentBefore(listItem)' = PresentBefore(listItem + 1)
      BY <1>1 DEF PresentBefore, Present
    <3> QED BY <3>1, <3>2, <3>3 DEF Before
  <2>10. ASSUME NEW k \in PresentBefore(listItem) \cup {listItem}
         PROVE  /\ EntryOf(k)' = IF k = listItem THEN e ELSE EntryOf(k)
                /\ Before(k)' = Before(k) /\ Before(k) + 1 \in 1..(Len(inf) + 1)
                /\ k # listItem => Before(k) + 1 <= Len(inf)
    <3>1. Before(k)' = Before(k)
      BY <1>1, DataStays
    <3>2. CASE k = listItem
      BY <1>2, <2>5, <3>1, <3>2 DEF EntryOf
    <3>3. CASE k # listItem
      <4>1. Before(k) \in Nat /\ Before(k) + 1 <= Before(listItem)
        BY <1>2, <3>3, PlaceOfItem
      <4>2. Before(k) + 1 \in 1..Len(inf)
        BY <1>2, <2>5, <4>1 DEF inf
      <4> QED BY <2>5, <3>1, <3>3, <4>2 DEF EntryOf, inf
    <3> QED BY <3>2, <3>3
  <2>11. Described(listItem)'
    <3>1. Len(header'.inf) = Before(listItem)'
      BY <1>2, <2>5, <2>9 DEF inf
    <3>2. ASSUME NEW k \in PresentBefore(listItem)'
          PROVE  EntryOf(k)'.consoleType = fileList[k].type /\ EntryOf(k)'.size = Len(data'[k])
      BY <1>1, <2>3, <2>9, <2>10 DEF Described
    <3>3. ASSUME NEW j \in 1..Len(header'.inf)
          PROVE  \E k \in PresentBefore(listItem)' : j = Before(k)' + 1
      <4>1. CASE j <= Len(inf)
        <5>1. j \in 1..Len(inf)
          BY <2>5, <4>1
        <5>2. PICK k \in PresentBefore(listItem) : j = Before(k) + 1
          BY <1>1, <5>1 DEF Described, inf
        <5> QED BY <2>9, <2>10, <5>2
      <4>2. CASE j = Len(inf) + 1
        <5>1. Before(listItem) + 1 = j
          BY <1>2, <4>2 DEF inf
        <5> QED BY <2>9, <2>10, <5>1
      <4> QED BY <2>5, <4>1, <4>2
    <3> QED BY <3>1, <3>2, <3>3 DEF Described
  <2> QED BY <1>1, <1>3, <2>5, <2>6, <2>8, <2>11 DEF ListInv
<1> QED BY <1>4, <1>5

(* The contents of an item go behind those of the items in front of it. *)
LEMMA WriteContentKeepsListInv ==
  ASSUME ListInv, WriteContent
  PROVE  ListInv'
<1>1. /\ listPc = "content" /\ listPc' = "content" /\ listItem \in Items /\ listItem' = listItem + 1
      /\ UNCHANGED <<patches, data, cnt, currOff, header>>
      /\ Described(Last) /\ Written(listItem) /\ Chain
      /\ Items = 1..Len(fileList) /\ Len(fileList) \in Nat
      /\ data \in [Items -> Seq(Cells) \cup {Gone}] /\ container \in Seq(Cells)
      /\ listItem \in 1..Last /\ listItem + 1 \in 1..Last
  BY ContainerAssumption DEF ListInv, ListTypeOK, WriteContent, Last
<1>2. Before(listItem) \in Nat /\ Before(Last) \in Nat /\ Last \in 1..Last
  BY <1>1, BeforeFacts DEF Last
<1>3. DataRead(Last)' /\ header'.numEntries = Before(Last)' /\ Chain' /\ Described(Last)'
  <2>1. DataRead(Last) /\ header.numEntries = Before(Last)
    BY <1>1 DEF ListInv
  <2>2. Before(Last)' = Before(Last) /\ Last' = Last
    BY <1>1, DataStays DEF Last
  <2>3. DataRead(Last)'
    BY <1>1, <2>1, SourcesStay DEF DataRead, ReadResults, Last
  <2>4. header'.numEntries = Before(Last)'
    BY <1>1, <2>1, <2>2
  <2>5. Chain'
    BY <1>1 DEF Chain, EndOf
  <2>6. Described(Last)'
    BY <1>1, DataStays DEF Described, EntryOf, Last
  <2> QED BY <2>3, <2>4, <2>5, <2>6
<1>4. CASE ~Present(listItem)
  <2>1. container' = container
    BY <1>4 DEF WriteContent
  <2>2. PresentBefore(listItem)' = PresentBefore(listItem) /\ Before(listItem)' = Before(listItem)
    <3>1. PresentBefore(listItem + 1) = PresentBefore(listItem)
      BY <1>1, <1>4, OneMoreItem
    <3> QED BY <1>1, <3>1 DEF PresentBefore, Present, Before
  <2>3. Written(listItem)'
    <3>1. \A k : EntryOf(k)' = EntryOf(k)
      BY <1>1, DataStays DEF EntryOf
    <3>2. EndOf(Before(listItem))' = EndOf(Before(listItem))
      BY <1>1, <2>2 DEF EndOf
    <3> HIDE DEF EntryOf, EndOf
    <3> QED BY <1>1, <2>1, <2>2, <3>1, <3>2 DEF Written
  <2>4. ListTypeOK'
    BY <1>1, <2>1 DEF ListInv, ListTypeOK, Last
  <2> QED BY <1>1, <1>3, <2>3, <2>4 DEF ListInv
<1>5. CASE Present(listItem)
  <2>1. container' = container \o data[listItem]
    BY <1>5 DEF WriteContent
  <2>2. data[listItem] \in Seq(Cells) /\ Len(data[listItem]) \in Nat
    <3>1. data[listItem] \in Seq(Cells) \cup {Gone} /\ data[listItem] # Gone
      BY <1>1, <1>5 DEF Present
    <3> QED BY <3>1
  <2>3. /\ container' \in Seq(Cells) /\ Len(container') = Len(container) + Len(data[listItem])
        /\ Len(container) \in Nat
        /\ \A c \in 1..Len(container) : container'[c] = container[c]
        /\ \A c \in 1..Len(data[listItem]) : container'[Len(container) + c] = data[listItem][c]
    <3> HIDE DEF Items
    <3> QED BY <1>1, <2>1, <2>2, ConcatProperties, LenProperties
  <2>4. ListTypeOK'
    BY <1>1, <2>3 DEF ListInv, ListTypeOK, Last
  <2>5. PresentBefore(listItem)' = PresentBefore(listItem) \cup {listItem}
        /\ Before(listItem)' = Before(listItem) + 1
    <3>1. PresentBefore(listItem + 1) = PresentBefore(listItem) \cup {listItem}
      BY <1>1, <1>5, OneMoreItem
    <3>2. Before(listItem + 1) = Before(listItem) + 1
      BY <1>1, <1>5, BeforeFacts
    <3>3. PresentBefore(listItem)' = PresentBefore(listItem + 1)
      BY <1>1 DEF PresentBefore, Present
    <3> QED BY <3>1, <3>2, <3>3 DEF Before
  <2>6. listItem \in PresentBefore(Last)
    BY <1>1, <1>5 DEF PresentBefore, Last
  <2>7. /\ EntryOf(listItem).size = Len(data[listItem])
        /\ EntryOf(listItem).offset = Len(container)
        /\ EndOf(Before(listItem) + 1) = Len(container) + Len(data[listItem])
    <3>1. EntryOf(listItem).size = Len(data[listItem])
      BY <1>1, <2>6 DEF Described
    <3>2. Before(listItem) + 1 \in 1..Len(header.inf)
      BY <1>1, <1>2, <2>6, PlaceOfItem DEF Described
    <3>3. EntryOf(listItem).offset = EndOf(Before(listItem))
      BY <1>1, <1>2, <3>2 DEF Chain, EntryOf
    <3>4. EndOf(Before(listItem) + 1) = EntryOf(listItem).offset + EntryOf(listItem).size
      BY <1>2 DEF EndOf, EntryOf
    <3> QED BY <1>1, <3>1, <3>3, <3>4 DEF Written
  <2>8. Written(listItem)'
    <3>1. Len(container') = EndOf(Before(listItem))'
      BY <1>1, <1>2, <2>3, <2>5, <2>7 DEF EndOf
    <3>2. ASSUME NEW k \in PresentBefore(listItem) \cup {listItem}
          PROVE  /\ EntryOf(k).offset + EntryOf(k).size <= Len(container')
                 /\ \A c \in 1..EntryOf(k).size : container'[EntryOf(k).offset + c] = data[k][c]
      <4>1. CASE k = listItem
        <5>1. EntryOf(k).offset = Len(container) /\ EntryOf(k).size = Len(data[k])
          BY <2>7, <4>1
        <5>2. \A c \in 1..Len(data[k]) : container'[Len(container) + c] = data[k][c]
          BY <2>3, <4>1
        <5>3. Len(container) + Len(data[k]) <= Len(container')
          BY <2>2, <2>3, <4>1
        <5> QED BY <5>1, <5>2, <5>3
      <4>2. CASE k # listItem
        <5>1. k \in PresentBefore(listItem) /\ k \in PresentBefore(Last)
          BY <1>1, <4>2 DEF PresentBefore, Last
        <5>2. EntryOf(k).offset \in Nat /\ EntryOf(k).size \in Nat
          <6>1. Before(k) + 1 \in 1..Len(header.inf)
            BY <1>1, <1>2, <5>1, PlaceOfItem DEF Described
          <6> DEFINE Info == [consoleType : {fileList[m].type : m \in Items}, size : Nat, offset : Nat]
          <6>2. header.inf \in Seq(Info)
            BY DEF ListInv, ListTypeOK
          <6>3. EntryOf(k) \in Info
            <7> HIDE DEF Info
            <7> QED BY <6>1, <6>2 DEF EntryOf
          <6> QED BY <6>3
        <5> DEFINE o == EntryOf(k).offset
                   z == EntryOf(k).size
        <5>3. o + z <= Len(container) /\ \A c \in 1..z : container[o + c] = data[k][c]
          BY <1>1, <5>1 DEF Written
        <5>4. o \in Nat /\ z \in Nat
          BY <5>2
        <5> HIDE DEF o, z
        <5>5. \A c \in 1..z : o + c \in 1..Len(container)
          BY <2>3, <5>3, <5>4
        <5>6. o + z <= Len(container') /\ \A c \in 1..z : container'[o + c] = data[k][c]
          BY <2>2, <2>3, <5>3, <5>4, <5>5
        <5> QED BY <5>6 DEF o, z
      <4> QED BY <4>1, <4>2
    <3>3. \A k : EntryOf(k)' = EntryOf(k)
      BY <1>1, DataStays DEF EntryOf
    <3> QED BY <1>1, <2>5, <3>1, <3>2, <3>3 DEF Written
  <2> QED BY <1>1, <1>3, <2>4, <2>8 DEF ListInv
<1> QED BY <1>4, <1>5

(* All contents are written. *)
LEMMA CloseContainerKeepsListInv ==
  ASSUME ListInv, CloseContainer
  PROVE  ListInv'
<1>1. /\ listPc = "content" /\ listPc' = "done" /\ listItem = Last
      /\ UNCHANGED <<patches, listItem, data, cnt, currOff, header, container>>
  BY ContainerAssumption DEF ListInv, ListTypeOK, CloseContainer, Last
<1>2. ListTypeOK'
  BY <1>1 DEF ListInv, ListTypeOK
<1>3. DataRead(Last)' /\ header'.numEntries = Before(Last)' /\ Chain'
  BY <1>1, DataStays, SourcesStay DEF ListInv, DataRead, ReadResults, Last, Chain, EndOf
<1>4. Described(Last)'
  BY <1>1, DataStays DEF ListInv, Described, EntryOf, Last
<1>5. Written(Last)'
  BY <1>1, DataStays DEF ListInv, Written, EntryOf, EndOf, Last
<1> QED BY <1>1, <1>2, <1>3, <1>4, <1>5 DEF ListInv

(* The container is built as ListInv says. *)
THEOREM ListInvariant == ListSpec => []ListInv
<1>1. ListInit => ListInv
  <2>1. SUFFICES ASSUME ListInit PROVE ListInv
    OBVIOUS
  <2>2. ListTypeOK
    BY <2>1, ContainerAssumption DEF ListInit, ListTypeOK, NoHeader
  <2>3. DataRead(1) /\ Before(1) = 0
    BY <2>1, ContainerAssumption, BeforeFacts DEF ListInit, DataRead
  <2> QED BY <2>1, <2>2, <2>3 DEF ListInit, ListInv
<1>2. ListInv /\ [ListNext]_listVars => ListInv'
  <2>1. SUFFICES ASSUME ListInv, [ListNext]_listVars PROVE ListInv'
    OBVIOUS
  <2>2. CASE UNCHANGED listVars
    <3>1. UNCHANGED <<patches, listItem, data, cnt, currOff, header, container, listPc>>
      BY <2>2 DEF listVars
    <3>2. ListTypeOK'
      BY <2>1, <3>1 DEF ListInv, ListTypeOK
    <3>3. /\ \A n : Before(n)' = Before(n) /\ PresentBefore(n)' = PresentBefore(n)
          /\ \A k : SourceOf(k)' = SourceOf(k)
      BY <3>1, DataStays, SourcesStay
    <3>4. /\ DataRead(listItem) => DataRead(listItem)'
          /\ DataRead(Last) => DataRead(Last)'
          /\ Chain => Chain'
      BY <3>1, <3>3 DEF DataRead, ReadResults, Chain, EndOf, Last
    <3>5. /\ Described(listItem) => Described(listItem)'
          /\ Described(Last) => Described(Last)'
      BY <3>1, <3>3 DEF Described, EntryOf, Last
    <3>6. /\ Written(listItem) => Written(listItem)'
          /\ Written(Last) => Written(Last)'
      BY <3>1, <3>3 DEF Written, EntryOf, EndOf, Last
    <3>7. Before(listItem)' = Before(listItem) /\ Before(Last)' = Before(Last)
      BY <3>1, <3>3 DEF Last
    <3> QED BY <2>1, <3>1, <3>2, <3>4, <3>5, <3>6, <3>7 DEF ListInv
  <2> QED
    BY <2>1, <2>2, GetItemDataKeepsListInv, MakeHeaderKeepsListInv, AddInfoKeepsListInv,
       WriteHeaderKeepsListInv, WriteContentKeepsListInv, CloseContainerKeepsListInv DEF ListNext
<1> QED BY <1>1, <1>2, PTL DEF ListSpec

(* A container that is closed has the patch set of each type that was on   *)
(* the disk behind its entry, in the length it had, and no other: a short  *)
(* read moves no other set.                                                *)
THEOREM ContainerIsExact == ListSpec => []ContainerExact
<1>1. ListInv => ContainerExact
  <2>1. SUFFICES ASSUME ListInv, listPc = "done"
                 PROVE  /\ header.numEntries = Len(header.inf)
                        /\ {e.consoleType : e \in Infos}
                             = {fileList[k].type : k \in {m \in Items : SourceOf(m) # Gone}}
                        /\ \A k \in Items, e \in Infos : e.consoleType = fileList[k].type =>
                             /\ e.size = Len(SourceOf(k)) /\ e.offset + e.size <= Len(container)
                             /\ \A c \in 1..e.size :
                                  container[e.offset + c] \in {SourceOf(k)[c], Junk}
    BY DEF ContainerExact
  <2>2. /\ DataRead(Last) /\ Described(Last) /\ Written(Last) /\ header.numEntries = Before(Last)
        /\ patches \in Disks /\ Items = 1..Len(fileList) /\ Len(fileList) \in Nat
        /\ Last \in 1..Last
    BY <2>1, ContainerAssumption DEF ListInv, ListTypeOK, Last
  <2>3. \A k \in Items : Present(k) <=> SourceOf(k) # Gone
    BY <2>2, SourceFacts DEF DataRead, Present, Last
  <2>4. PresentBefore(Last) = {m \in Items : SourceOf(m) # Gone}
    BY <2>2, <2>3 DEF PresentBefore, Last
  <2>5. Infos = {EntryOf(k) : k \in PresentBefore(Last)}
    <3>1. DOMAIN header.inf = 1..Len(header.inf)
      BY <2>1 DEF ListInv, ListTypeOK
    <3>2. ASSUME NEW k \in PresentBefore(Last) PROVE Before(k) + 1 \in 1..Len(header.inf)
      BY <2>2, PlaceOfItem DEF Described
    <3> QED BY <2>2, <3>1, <3>2 DEF Infos, EntryOf, Described
  <2>6. {e.consoleType : e \in Infos} = {fileList[k].type : k \in {m \in Items : SourceOf(m) # Gone}}
    BY <2>2, <2>4, <2>5 DEF Described
  <2>7. ASSUME NEW k \in Items, NEW e \in Infos, e.consoleType = fileList[k].type
        PROVE  /\ e.size = Len(SourceOf(k)) /\ e.offset + e.size <= Len(container)
               /\ \A c \in 1..e.size : container[e.offset + c] \in {SourceOf(k)[c], Junk}
    <3>1. PICK m \in PresentBefore(Last) : e = EntryOf(m)
      BY <2>5
    <3>2. m = k
      BY <2>2, <2>7, <3>1, PlaceOfItem, ContainerAssumption DEF Described
    <3>3. SourceOf(k) # Gone /\ data[k] \in ReadResults(SourceOf(k))
      BY <2>2, <2>4, <3>1, <3>2 DEF DataRead, Last
    <3>4. Len(data[k]) = Len(SourceOf(k)) /\ \A c \in 1..Len(data[k]) : data[k][c] \in {SourceOf(k)[c], Junk}
      BY <2>2, <3>3, SourceFacts
    <3> QED BY <2>2, <3>1, <3>2, <3>4 DEF Described, Written
  <2> QED BY <2>1, <2>2, <2>6, <2>7 DEF Described
<1> QED BY <1>1, ListInvariant, PTL

-------------------------------------------------------------------------------
(* opt_idx. *)

(* The sizes are numbers. *)
LEMMA OptNumbers == NameWords \in Nat \ {0} /\ Width \in Nat \ {0}
BY OptAssumption

(* Less than on natural numbers as a set. *)
NatLess == {p \in Nat \X Nat : p[1] < p[2]}

(* There is no falling without end. *)
LEMMA NatLessWellFounded == IsWellFoundedOn(NatLess, Nat)
BY NatLessThanWellFounded DEF OpToRel, NatLess

(* What holds for 0 and for each number with the one in front of it holds  *)
(* up to n.                                                                *)
LEMMA CountedUp ==
  ASSUME NEW n \in Nat, NEW S, 0 \in S, \A i \in 1..n : i - 1 \in S => i \in S
  PROVE  0..n \subseteq S
<1>1. SUFFICES ASSUME (0..n) \ S # {} PROVE FALSE
  OBVIOUS
<1>2. (0..n) \ S \subseteq Nat
  OBVIOUS
<1>3. PICK x \in (0..n) \ S : \A y \in (0..n) \ S : ~ (<<y, x>> \in NatLess)
  BY <1>1, <1>2, NatLessWellFounded, WFMin
<1>4. x \in 1..n /\ x - 1 \in 0..n
  BY <1>3
<1>5. <<x - 1, x>> \in NatLess
  BY <1>4 DEF NatLess
<1> QED BY <1>3, <1>4, <1>5

(* A function defined by its value before exists. *)
StepsOn(n, X) == [1..n -> [X -> X]]
Follows(f, n, X, a, G) ==
  f \in [0..n -> X] /\ f[0] = a /\ \A i \in 1..n : f[i] = G[i][f[i - 1]]

(* Such a function exists for any start and any steps. *)
LEMMA Recursion ==
  ASSUME NEW n \in Nat, NEW X, NEW a \in X, NEW G \in StepsOn(n, X)
  PROVE  \E f : Follows(f, n, X, a, G)
<1>0. \A i \in 1..n : \A x \in X : G[i][x] \in X
  BY DEF StepsOn
<1> DEFINE Good(f, k) == f[0] = a /\ \A i \in 1..k : f[i] = G[i][f[i - 1]]
           S == {k \in 0..n : \E f \in [0..k -> X] : Good(f, k)}
<1>1. 0 \in S
  <2>1. [i \in 0..0 |-> a] \in [0..0 -> X] /\ Good([i \in 0..0 |-> a], 0)
    OBVIOUS
  <2> HIDE DEF Good
  <2> QED BY <2>1
<1>2. ASSUME NEW k \in 1..n, k - 1 \in S PROVE k \in S
  <2>1. PICK f \in [0..(k - 1) -> X] : Good(f, k - 1)
    BY <1>2
  <2> DEFINE g == [i \in 0..k |-> IF i < k THEN f[i] ELSE G[k][f[k - 1]]]
  <2>2. k - 1 \in 0..(k - 1) /\ f[k - 1] \in X /\ k \in 1..n
    BY <2>1
  <2>3. G[k][f[k - 1]] \in X
    BY <1>0, <2>2
  <2>4. g \in [0..k -> X]
    BY <2>1, <2>3
  <2>5. g[0] = a
    BY <2>1
  <2>6. ASSUME NEW i \in 1..k PROVE g[i] = G[i][g[i - 1]]
    <3>1. i - 1 \in 0..(k - 1) /\ g[i - 1] = f[i - 1]
      OBVIOUS
    <3>2. CASE i < k
      <4>1. i \in 1..(k - 1) /\ g[i] = f[i]
        BY <3>2
      <4> QED BY <2>1, <3>1, <4>1
    <3>3. CASE i = k
      <4>1. g[i] = G[i][f[i - 1]]
        BY <3>3
      <4> QED BY <3>1, <4>1
    <3> QED BY <3>2, <3>3
  <2>7. Good(g, k)
    BY <2>5, <2>6
  <2> HIDE DEF Good, g
  <2> QED BY <2>4, <2>7
<1>3. 0..n \subseteq S
  <2> HIDE DEF S
  <2> QED BY <1>1, <1>2, CountedUp
<1>4. n \in S
  BY <1>3
<1> QED BY <1>4 DEF Follows

Cell == Nat \cup PatchNames \cup {Nul}

(* How far the output has got with each entry. *)
IsOut(es, f) ==
  f = [k \in 0..Len(es) |-> IF k = 0 THEN <<Len(es)>> ELSE f[k - 1] \o EntryWords(es[k])]

(* IndexWords is the last of them. *)
LEMMA OutDefined ==
  ASSUME NEW es
  PROVE  IndexWords(es) = (CHOOSE f : IsOut(es, f))[Len(es)]
BY DEF IndexWords, IsOut

(* The places of an entry. *)
LEMMA EntryFacts ==
  ASSUME NEW e \in IndexEntries
  PROVE  /\ e.fname \in PatchNames /\ Len(e.pitm) \in Nat \ {0}
         /\ e = [fname |-> e.fname, pitm |-> e.pitm]
         /\ e.pitm \in PatchList /\ DOMAIN e.pitm = 1..Len(e.pitm)
         /\ \A j \in 1..Len(e.pitm) :
              /\ e.pitm[j].offset \in Nat /\ e.pitm[j].size \in Nat
              /\ e.pitm[j] = [offset |-> e.pitm[j].offset, size |-> e.pitm[j].size]
<1> DEFINE Item == [offset : Nat, size : Nat]
<1>1. e.fname \in PatchNames /\ e.pitm \in PatchList /\ e.pitm # << >>
      /\ e = [fname |-> e.fname, pitm |-> e.pitm]
  BY DEF IndexEntries
<1>2. e.pitm \in Seq(Item)
  BY <1>1 DEF PatchList
<1>3. Len(e.pitm) \in Nat /\ DOMAIN e.pitm = 1..Len(e.pitm) /\ Len(e.pitm) # 0
      /\ \A j \in 1..Len(e.pitm) : e.pitm[j] \in Item
  <2> HIDE DEF Item
  <2> QED BY <1>1, <1>2, EmptySeq, LenProperties
<1> QED BY <1>1, <1>3

(* The words of an entry. *)
LEMMA EntryWordsFacts ==
  ASSUME NEW e \in IndexEntries
  PROVE  /\ EntryWords(e) \in Seq(Cell)
         /\ Len(EntryWords(e)) = 2 * Len(e.pitm) + 1 + NameWords
         /\ EntryWords(e)[1] = Len(e.pitm)
         /\ \A j \in 1..Len(e.pitm) :
              EntryWords(e)[2 * j] = e.pitm[j].offset /\ EntryWords(e)[2 * j + 1] = e.pitm[j].size
         /\ EntryWords(e)[2 * Len(e.pitm) + 2] = e.fname
<1> DEFINE n == Len(e.pitm)
           Field(w) == IF w % 2 = 0 THEN e.pitm[w \div 2].offset ELSE e.pitm[w \div 2].size
           size == 2 * n + 1 + NameWords
<1>1. n \in Nat \ {0} /\ size \in Nat /\ NameWords \in Nat \ {0} /\ size >= 2 * n + 2
  BY EntryFacts, OptNumbers
<1>2. EntryWords(e) = [w \in 1..size |-> IF w = 1 THEN n ELSE IF w <= 2 * n + 1 THEN Field(w)
                                         ELSE IF w = 2 * n + 2 THEN e.fname ELSE Nul]
  BY DEF EntryWords
<1>3. \A j \in 1..n : e.pitm[j].offset \in Nat /\ e.pitm[j].size \in Nat
  BY EntryFacts
<1>4. ASSUME NEW w \in 1..size, w # 1, w <= 2 * n + 1
      PROVE  Field(w) \in Nat
  <2>1. w \div 2 \in 1..n
    BY <1>1, <1>4
  <2> QED BY <1>3, <2>1
<1>5. ASSUME NEW j \in 1..n
      PROVE  /\ 2 * j \in 1..size /\ 2 * j # 1 /\ 2 * j <= 2 * n + 1 /\ Field(2 * j) = e.pitm[j].offset
             /\ 2 * j + 1 \in 1..size /\ 2 * j + 1 # 1 /\ 2 * j + 1 <= 2 * n + 1
             /\ Field(2 * j + 1) = e.pitm[j].size
  <2>1. (2 * j) % 2 = 0 /\ (2 * j) \div 2 = j /\ (2 * j + 1) % 2 = 1 /\ (2 * j + 1) \div 2 = j
    BY <1>1
  <2>2. Field(2 * j) = e.pitm[j].offset /\ Field(2 * j + 1) = e.pitm[j].size
    BY <2>1
  <2> HIDE DEF n, size, Field
  <2>3. 2 * j \in 1..size /\ 2 * j # 1 /\ 2 * j <= 2 * n + 1
        /\ 2 * j + 1 \in 1..size /\ 2 * j + 1 # 1 /\ 2 * j + 1 <= 2 * n + 1
    BY <1>1
  <2> QED BY <2>2, <2>3
<1>6. e.fname \in Cell /\ Nul \in Cell /\ n \in Cell
  BY <1>1, EntryFacts DEF Cell
<1> HIDE DEF Field, n, size
<1>7. EntryWords(e) \in [1..size -> Cell]
  BY <1>1, <1>2, <1>4, <1>6 DEF Cell
<1>8. EntryWords(e) \in Seq(Cell) /\ Len(EntryWords(e)) = size
  BY <1>1, <1>2, <1>7, SeqDef, LenProperties
<1>9. EntryWords(e)[1] = n /\ EntryWords(e)[2 * n + 2] = e.fname
  BY <1>1, <1>2
<1>10. \A j \in 1..n : EntryWords(e)[2 * j] = e.pitm[j].offset /\ EntryWords(e)[2 * j + 1] = e.pitm[j].size
  BY <1>2, <1>5
<1> QED BY <1>8, <1>9, <1>10 DEF n, size

(* The output after each entry exists. *)
LEMMA OutFacts ==
  ASSUME NEW es \in Seq(IndexEntries)
  PROVE  \E f \in [0..Len(es) -> Seq(Cell)] :
           /\ f[0] = <<Len(es)>> /\ \A k \in 1..Len(es) : f[k] = f[k - 1] \o EntryWords(es[k])
           /\ IndexWords(es) = f[Len(es)]
<1> DEFINE n == Len(es)
           X == Seq(Cell)
           G == [i \in 1..n |-> [x \in X |-> x \o EntryWords(es[i])]]
           out == CHOOSE f : IsOut(es, f)
<1>1. n \in Nat /\ \A k \in 1..n : es[k] \in IndexEntries
  OBVIOUS
<1>2. <<n>> \in X
  BY <1>1 DEF Cell
<1>3. \A k \in 1..n : EntryWords(es[k]) \in X
  BY <1>1, EntryWordsFacts
<1>4. \A s \in X, k \in 1..n : s \o EntryWords(es[k]) \in X
  BY <1>3, ConcatProperties
<1>5. /\ \A i \in 1..n : \A x \in X : G[i][x] = x \o EntryWords(es[i])
      /\ G \in StepsOn(n, X)
  <2> HIDE DEF X, n
  <2> QED BY <1>4 DEF StepsOn
<1>6. PICK f \in [0..n -> X] : f[0] = <<n>> /\ \A i \in 1..n : f[i] = G[i][f[i - 1]]
  <2> DEFINE a == <<n>>
  <2>1. n \in Nat /\ a \in X
    BY <1>1, <1>2
  <2> HIDE DEF X, G, n, a
  <2>2. PICK f : Follows(f, n, X, a, G)
    BY <2>1, <1>5, Recursion
  <2> QED BY <2>2 DEF Follows, a
<1>7. \A i \in 1..n : f[i] = f[i - 1] \o EntryWords(es[i])
  <2>1. ASSUME NEW i \in 1..n PROVE i - 1 \in 0..n /\ f[i - 1] \in X
    <3> HIDE DEF X
    <3>1. i - 1 \in 0..n
      BY <1>1
    <3> QED BY <1>6, <3>1
  <2> HIDE DEF X, n, G
  <2> QED BY <1>5, <1>6, <2>1
<1>8. IsOut(es, f)
  <2> DEFINE h == [k \in 0..n |-> IF k = 0 THEN <<n>> ELSE f[k - 1] \o EntryWords(es[k])]
  <2>1. \A k \in 0..n : f[k] = h[k]
    <3>1. ASSUME NEW k \in 0..n, k # 0 PROVE k \in 1..n
      BY <1>1, <3>1
    <3> HIDE DEF n, X
    <3> QED BY <1>6, <1>7, <3>1
  <2>2. DOMAIN f = 0..n /\ f = [k \in 0..n |-> f[k]]
    BY <1>6
  <2>3. f = h
    BY <2>1, <2>2
  <2> QED BY <2>3 DEF IsOut
<1>9. IsOut(es, out)
  BY <1>8
<1>10. out = [k \in 0..n |-> IF k = 0 THEN <<n>> ELSE out[k - 1] \o EntryWords(es[k])]
  <2> HIDE DEF out
  <2> QED BY <1>9 DEF IsOut
<1> HIDE DEF out
<1>11. 0..n \subseteq {k \in 0..n : out[k] = f[k]}
  <2>1. out[0] = f[0]
    BY <1>1, <1>6, <1>10
  <2>2. ASSUME NEW k \in 1..n, out[k - 1] = f[k - 1] PROVE out[k] = f[k]
    <3>1. k \in 0..n /\ k # 0
      BY <1>1
    <3>2. out[k] = out[k - 1] \o EntryWords(es[k])
      <4> HIDE DEF n
      <4> QED BY <1>10, <3>1
    <3> QED BY <1>7, <2>2, <3>2
  <2> DEFINE S == {k \in 0..n : out[k] = f[k]}
  <2>3. 0 \in S /\ \A i \in 1..n : i - 1 \in S => i \in S
    BY <1>1, <2>1, <2>2
  <2> HIDE DEF S
  <2>4. 0..n \subseteq S
    BY <1>1, <2>3, CountedUp
  <2> QED BY <2>4 DEF S
<1>12. IndexWords(es) = f[n]
  BY <1>1, <1>11, OutDefined DEF out
<1> QED BY <1>6, <1>7, <1>12

(* Each part of the output stays in front of the next one. *)
InFront(s, w) == Len(s) <= Len(w) /\ \A p \in 1..Len(s) : w[p] = s[p]

(* Two sequences one behind the other. *)
LEMMA Joined ==
  ASSUME NEW X, NEW s \in Seq(X), NEW e \in Seq(X)
  PROVE  /\ Len(s \o e) = Len(s) + Len(e) /\ InFront(s, s \o e)
         /\ \A p \in 1..Len(e) : (s \o e)[Len(s) + p] = e[p]
         /\ Len(s) \in Nat /\ Len(e) \in Nat
<1>1. Len(s) \in Nat /\ Len(e) \in Nat /\ Len(s \o e) = Len(s) + Len(e)
  BY ConcatProperties, LenProperties
<1>2. \A p \in 1..(Len(s) + Len(e)) :
        (s \o e)[p] = IF p <= Len(s) THEN s[p] ELSE e[p - Len(s)]
  BY ConcatProperties
<1>3. ASSUME NEW p \in 1..Len(s) PROVE (s \o e)[p] = s[p]
  BY <1>1, <1>2
<1>4. ASSUME NEW p \in 1..Len(e) PROVE (s \o e)[Len(s) + p] = e[p]
  <2>1. Len(s) + p \in 1..(Len(s) + Len(e)) /\ ~ (Len(s) + p <= Len(s)) /\ Len(s) + p - Len(s) = p
    BY <1>1
  <2> QED BY <1>2, <2>1
<1> QED BY <1>1, <1>3, <1>4 DEF InFront

(* What the words of entry k are, in the output and behind it. *)
LEMMA OutPlaces ==
  ASSUME NEW es \in Seq(IndexEntries), NEW f \in [0..Len(es) -> Seq(Cell)],
         f[0] = <<Len(es)>>, \A k \in 1..Len(es) : f[k] = f[k - 1] \o EntryWords(es[k])
  PROVE  /\ \A k \in 0..Len(es) : InFront(f[k], f[Len(es)])
         /\ \A k \in 1..Len(es) :
              /\ Len(f[k]) = Len(f[k - 1]) + Len(EntryWords(es[k]))
              /\ \A p \in 1..Len(EntryWords(es[k])) :
                   f[Len(es)][Len(f[k - 1]) + p] = EntryWords(es[k])[p]
<1> DEFINE n == Len(es)
           w == f[n]
           S == {i \in 0..n : InFront(f[n - i], w)}
<1>1. n \in Nat
  OBVIOUS
<1>2. ASSUME NEW k \in 1..n
      PROVE  /\ Len(f[k]) = Len(f[k - 1]) + Len(EntryWords(es[k]))
             /\ InFront(f[k - 1], f[k])
             /\ \A p \in 1..Len(EntryWords(es[k])) : f[k][Len(f[k - 1]) + p] = EntryWords(es[k])[p]
             /\ Len(f[k - 1]) \in Nat /\ Len(EntryWords(es[k])) \in Nat
  <2>1. k - 1 \in 0..n /\ es[k] \in IndexEntries
    BY <1>1
  <2> DEFINE s == f[k - 1]
             e == EntryWords(es[k])
             t == f[k]
  <2>2. s \in Seq(Cell) /\ e \in Seq(Cell) /\ t = s \o e
    BY <2>1, EntryWordsFacts
  <2> HIDE DEF s, e, t
  <2>3. /\ Len(t) = Len(s) + Len(e) /\ InFront(s, t)
        /\ \A p \in 1..Len(e) : t[Len(s) + p] = e[p]
        /\ Len(s) \in Nat /\ Len(e) \in Nat
    BY <2>2, Joined
  <2> QED BY <2>3 DEF s, e, t
<1>3. ASSUME NEW k \in 0..n PROVE Len(f[k]) \in Nat
  BY LenProperties
<1>4. 0 \in S
  BY <1>1, <1>3 DEF InFront
<1>5. ASSUME NEW i \in 1..n, i - 1 \in S PROVE i \in S
  <2> DEFINE k == n - (i - 1)
  <2>1. k \in 1..n /\ k - 1 = n - i /\ k - 1 \in 0..n
    BY <1>1
  <2>2. InFront(f[k], w)
    BY <1>5
  <2> HIDE DEF k, w
  <2>3. InFront(f[k - 1], f[k]) /\ Len(f[k]) \in Nat /\ Len(f[k - 1]) \in Nat
    <3>1. k \in 0..n
      BY <1>1, <2>1
    <3> HIDE DEF n, S
    <3> QED BY <1>2, <1>3, <2>1, <3>1
  <2>4. InFront(f[k - 1], w)
    <3>1. Len(w) \in Nat
      BY <1>1, <1>3 DEF w
    <3> QED BY <2>2, <2>3, <3>1 DEF InFront
  <2> QED BY <2>1, <2>4
<1>6. 0..n \subseteq S
  <2> HIDE DEF S, n
  <2> QED BY <1>1, <1>4, <1>5, CountedUp
<1>7. ASSUME NEW k \in 0..n PROVE InFront(f[k], w)
  <2>1. n - k \in S /\ n - (n - k) = k
    <3> HIDE DEF S
    <3> QED BY <1>1, <1>6
  <2> QED BY <2>1
<1>8. ASSUME NEW k \in 1..n, NEW p \in 1..Len(EntryWords(es[k]))
      PROVE  w[Len(f[k - 1]) + p] = EntryWords(es[k])[p]
  <2>1. InFront(f[k], w)
    BY <1>1, <1>7
  <2> DEFINE q == Len(f[k - 1]) + p
  <2>2. q \in 1..Len(f[k]) /\ f[k][q] = EntryWords(es[k])[p]
    <3>1. /\ Len(f[k]) = Len(f[k - 1]) + Len(EntryWords(es[k]))
          /\ Len(f[k - 1]) \in Nat /\ Len(EntryWords(es[k])) \in Nat
      BY <1>2
    <3>2. f[k][q] = EntryWords(es[k])[p]
      BY <1>2
    <3> DEFINE a == Len(f[k - 1])
               b == Len(EntryWords(es[k]))
    <3>3. a \in Nat /\ b \in Nat /\ p \in 1..b /\ q = a + p /\ Len(f[k]) = a + b
      BY <3>1
    <3> HIDE DEF a, b, q
    <3>4. q \in 1..Len(f[k])
      BY <3>3
    <3> QED BY <3>2, <3>4
  <2> HIDE DEF q, w
  <2>3. w[q] = f[k][q]
    BY <2>1, <2>2 DEF InFront
  <2> QED BY <2>2, <2>3 DEF q
<1> QED BY <1>2, <1>7, <1>8

(* The size of the output is the one that was computed. *)
IsTotal(es, f) ==
  f = [k \in 0..Len(es) |-> IF k = 0 THEN 1 ELSE f[k - 1] + 2 * Len(es[k].pitm) + 1 + NameWords]

(* The size is the last value of that function. *)
LEMMA TotalDefined ==
  ASSUME NEW es
  PROVE  TotalWords(es) = (CHOOSE f : IsTotal(es, f))[Len(es)]
BY DEF TotalWords, IsTotal

(* An index of any patch files is as long as its allocation. *)
LEMMA TotalIsLength ==
  ASSUME NEW es \in Seq(IndexEntries)
  PROVE  Len(IndexWords(es)) = TotalWords(es)
<1> DEFINE n == Len(es)
           total == CHOOSE f : IsTotal(es, f)
<1>1. n \in Nat /\ \A k \in 1..n : es[k] \in IndexEntries
  OBVIOUS
<1>2. PICK f \in [0..n -> Seq(Cell)] :
           /\ f[0] = <<n>> /\ \A k \in 1..n : f[k] = f[k - 1] \o EntryWords(es[k])
           /\ IndexWords(es) = f[n]
  BY OutFacts
<1>3. \A k \in 1..n : Len(f[k]) = Len(f[k - 1]) + Len(EntryWords(es[k]))
  BY <1>2, OutPlaces
<1>4. \A k \in 0..n : Len(f[k]) \in Nat
  BY <1>2, LenProperties
<1> DEFINE g == [k \in 0..n |-> Len(f[k])]
<1>5. ASSUME NEW k \in 1..n PROVE g[k] = g[k - 1] + 2 * Len(es[k].pitm) + 1 + NameWords
  <2>1. k \in 0..n /\ k - 1 \in 0..n
    BY <1>1
  <2>2. Len(EntryWords(es[k])) = 2 * Len(es[k].pitm) + 1 + NameWords /\ Len(es[k].pitm) \in Nat
    BY <1>1, EntryWordsFacts, EntryFacts
  <2>3. g[k] = Len(f[k]) /\ g[k - 1] = Len(f[k - 1])
    BY <2>1
  <2>4. Len(f[k]) = Len(f[k - 1]) + Len(EntryWords(es[k])) /\ Len(f[k - 1]) \in Nat
    <3> HIDE DEF n
    <3> QED BY <1>3, <1>4, <2>1
  <2> DEFINE a == Len(f[k - 1])
             b == Len(es[k].pitm)
  <2>5. g[k] = a + Len(EntryWords(es[k])) /\ g[k - 1] = a /\ a \in Nat /\ b \in Nat
        /\ Len(EntryWords(es[k])) = 2 * b + 1 + NameWords
    BY <2>2, <2>3, <2>4
  <2> HIDE DEF a, g
  <2>6. g[k] = g[k - 1] + 2 * b + 1 + NameWords
    <3> HIDE DEF b
    <3> QED BY <2>5, OptNumbers
  <2> QED BY <2>6
<1>6. g[0] = 1
  <2>1. g[0] = Len(<<n>>)
    <3>1. 0 \in 0..n
      BY <1>1
    <3>2. g[0] = Len(f[0])
      BY <3>1
    <3> HIDE DEF g, n
    <3> QED BY <1>2, <3>2
  <2> QED BY <2>1
<1>7. IsTotal(es, g)
  <2> DEFINE h == [k \in 0..n |-> IF k = 0 THEN 1 ELSE g[k - 1] + 2 * Len(es[k].pitm) + 1 + NameWords]
  <2>1. ASSUME NEW k \in 0..n PROVE g[k] = h[k]
    <3>1. k # 0 => k \in 1..n
      BY <1>1
    <3> HIDE DEF g
    <3> QED BY <1>5, <1>6, <3>1
  <2>2. g = h
    BY <2>1
  <2> QED BY <2>2 DEF IsTotal
<1>8. IsTotal(es, total)
  <2> HIDE DEF g
  <2> QED BY <1>7
<1>9. total = [k \in 0..n |-> IF k = 0 THEN 1 ELSE total[k - 1] + 2 * Len(es[k].pitm) + 1 + NameWords]
  <2> HIDE DEF total
  <2> QED BY <1>8 DEF IsTotal
<1> HIDE DEF total, g
<1>10. 0..n \subseteq {k \in 0..n : total[k] = g[k]}
  <2>1. total[0] = g[0]
    BY <1>1, <1>6, <1>9
  <2>2. ASSUME NEW k \in 1..n, total[k - 1] = g[k - 1] PROVE total[k] = g[k]
    <3>1. k \in 0..n /\ k # 0
      BY <1>1
    <3>2. total[k] = total[k - 1] + 2 * Len(es[k].pitm) + 1 + NameWords
      <4> HIDE DEF n
      <4> QED BY <1>9, <3>1
    <3> QED BY <1>5, <2>2, <3>2
  <2> DEFINE S == {k \in 0..n : total[k] = g[k]}
  <2>3. 0 \in S /\ \A i \in 1..n : i - 1 \in S => i \in S
    BY <1>1, <2>1, <2>2
  <2> HIDE DEF S
  <2>4. 0..n \subseteq S
    BY <1>1, <2>3, CountedUp
  <2> QED BY <2>4 DEF S
<1>11. total[n] = Len(f[n])
  BY <1>1, <1>10 DEF g
<1> QED BY <1>2, <1>11, TotalDefined DEF total

-------------------------------------------------------------------------------
(* How far the input has been read with each entry. *)
NextRead(words, r) ==
  LET at    == r.off
      pttl  == words[at + 1]
      names == at + 1 + 2 * pttl
  IN  [off  |-> names + NameWords,
       list |-> Append(r.list,
                  [fname |-> words[names + 1],
                   pitm  |-> [j \in 1..pttl |-> ItemAt(words, at + 2 * j - 1)]])]

IsRead(words, f) ==
  f = [k \in 0..words[1] |-> IF k = 0 THEN [off |-> 1, list |-> << >>] ELSE NextRead(words, f[k - 1])]

(* What is read back is the last value of that function. *)
LEMMA ReadDefined ==
  ASSUME NEW words
  PROVE  Entries(words) = (CHOOSE f : IsRead(words, f))[words[1]].list
BY DEF Entries, IsRead, NextRead

(* The words of e stand in w, behind the first ones. *)
Holds(w, at, e) == \A p \in 1..Len(EntryWords(e)) : w[at + p] = EntryWords(e)[p]

(* An entry is read where it was put. *)
LEMMA EntryRead ==
  ASSUME NEW w, NEW e \in IndexEntries, NEW r, r.off \in Nat, Holds(w, r.off, e)
  PROVE  NextRead(w, r) = [off |-> r.off + Len(EntryWords(e)), list |-> Append(r.list, e)]
<1> DEFINE at == r.off
           n == Len(e.pitm)
           names == at + 1 + 2 * n
           len == Len(EntryWords(e))
<1>1. n \in Nat \ {0} /\ NameWords \in Nat \ {0} /\ len = 2 * n + 1 + NameWords
  BY EntryFacts, EntryWordsFacts, OptNumbers
<1>2. /\ EntryWords(e)[1] = n /\ EntryWords(e)[2 * n + 2] = e.fname
      /\ \A j \in 1..n : EntryWords(e)[2 * j] = e.pitm[j].offset
                       /\ EntryWords(e)[2 * j + 1] = e.pitm[j].size
  BY EntryWordsFacts
<1>3. \A p \in 1..len : w[at + p] = EntryWords(e)[p]
  BY DEF Holds
<1>4. \A j \in 1..n : e.pitm[j] = [offset |-> e.pitm[j].offset, size |-> e.pitm[j].size]
  BY EntryFacts
<1>5. e.pitm = [j \in 1..n |-> e.pitm[j]]
  <2> DEFINE Item == [offset : Nat, size : Nat]
             q == e.pitm
  <2>1. q \in Seq(Item) /\ DOMAIN q = 1..n
    BY EntryFacts DEF PatchList
  <2> HIDE DEF Item, q, n
  <2>2. q = [j \in DOMAIN q |-> q[j]]
    BY <2>1
  <2> QED BY <2>1, <2>2 DEF q
<1>6. e = [fname |-> e.fname, pitm |-> e.pitm]
  BY EntryFacts
<1> HIDE DEF n, len
<1>7. w[at + 1] = n
  BY <1>1, <1>2, <1>3
<1>8. w[names + 1] = e.fname
  <2>1. names + 1 = at + (2 * n + 2) /\ 2 * n + 2 \in 1..len
    BY <1>1
  <2> QED BY <1>2, <1>3, <2>1
<1>9. ASSUME NEW j \in 1..n PROVE ItemAt(w, at + 2 * j - 1) = e.pitm[j]
  <2>1. /\ 2 * j \in 1..len /\ 2 * j + 1 \in 1..len
        /\ at + 2 * j - 1 + 1 = at + 2 * j /\ at + 2 * j - 1 + 2 = at + (2 * j + 1)
    BY <1>1
  <2>2. w[at + 2 * j] = e.pitm[j].offset /\ w[at + (2 * j + 1)] = e.pitm[j].size
    BY <1>2, <1>3, <2>1
  <2> QED BY <1>4, <2>1, <2>2 DEF ItemAt
<1>10. [j \in 1..n |-> ItemAt(w, at + 2 * j - 1)] = e.pitm
  <2> DEFINE q == e.pitm
  <2>1. q = [j \in 1..n |-> q[j]] /\ \A j \in 1..n : ItemAt(w, at + 2 * j - 1) = q[j]
    BY <1>5, <1>9
  <2> HIDE DEF q
  <2> QED BY <2>1 DEF q
<1>11. names + NameWords = at + len
  BY <1>1
<1> HIDE DEF names
<1>12. NextRead(w, r)
         = [off |-> names + NameWords,
            list |-> Append(r.list, [fname |-> w[names + 1],
                                   pitm |-> [j \in 1..n |-> ItemAt(w, at + 2 * j - 1)]])]
  BY <1>7 DEF NextRead, names
<1> QED BY <1>6, <1>8, <1>10, <1>11, <1>12 DEF len

(* What is written is read back. *)
LEMMA ReadBack ==
  ASSUME NEW es \in Seq(IndexEntries)
  PROVE  Entries(IndexWords(es)) = es
<1> DEFINE n == Len(es)
           w == IndexWords(es)
           read == CHOOSE f : IsRead(w, f)
<1>1. n \in Nat /\ \A k \in 1..n : es[k] \in IndexEntries
  OBVIOUS
<1>2. PICK f \in [0..n -> Seq(Cell)] :
           /\ f[0] = <<n>> /\ \A k \in 1..n : f[k] = f[k - 1] \o EntryWords(es[k])
           /\ w = f[n]
  BY OutFacts
<1>3. /\ \A k \in 0..n : InFront(f[k], w)
      /\ \A k \in 1..n : /\ Len(f[k]) = Len(f[k - 1]) + Len(EntryWords(es[k]))
                          /\ \A p \in 1..Len(EntryWords(es[k])) :
                               w[Len(f[k - 1]) + p] = EntryWords(es[k])[p]
  BY <1>2, OutPlaces
<1>4. \A k \in 0..n : Len(f[k]) \in Nat
  BY <1>2, LenProperties
<1>5. w[1] = n /\ Len(f[0]) = 1
  <2>1. f[0] = <<n>> /\ Len(f[0]) = 1 /\ InFront(f[0], w)
    BY <1>1, <1>2, <1>3
  <2> QED BY <2>1 DEF InFront
<1> DEFINE g == [k \in 0..n |-> [off |-> Len(f[k]), list |-> SubSeq(es, 1, k)]]
<1>6. ASSUME NEW k \in 1..n PROVE g[k] = NextRead(w, g[k - 1])
  <2>1. k \in 0..n /\ k - 1 \in 0..n
    BY <1>1
  <2>2. g[k - 1] = [off |-> Len(f[k - 1]), list |-> SubSeq(es, 1, k - 1)]
    BY <2>1
  <2>3. NextRead(w, g[k - 1])
          = [off |-> Len(f[k - 1]) + Len(EntryWords(es[k])), list |-> Append(SubSeq(es, 1, k - 1), es[k])]
    <3> DEFINE at == Len(f[k - 1])
               list == SubSeq(es, 1, k - 1)
               e == es[k]
    <3>1. /\ at \in Nat /\ e \in IndexEntries
          /\ Holds(w, at, e)
      <4> HIDE DEF n, w
      <4> QED BY <1>1, <1>3, <1>4, <2>1 DEF Holds
    <3>2. g[k - 1] = [off |-> at, list |-> list]
      BY <2>2
    <3> HIDE DEF at, list, e, g, w
    <3>3. NextRead(w, g[k - 1]) = [off |-> at + Len(EntryWords(e)), list |-> Append(list, e)]
      <4> DEFINE prev == g[k - 1]
      <4>1. prev.off = at /\ prev.list = list
        BY <3>2
      <4> HIDE DEF prev
      <4>2. NextRead(w, prev) = [off |-> prev.off + Len(EntryWords(e)), list |-> Append(prev.list, e)]
        BY <3>1, <4>1, EntryRead
      <4> QED BY <4>1, <4>2 DEF prev
    <3> QED BY <3>3 DEF at, list, e
  <2>4. Append(SubSeq(es, 1, k - 1), es[k]) = SubSeq(es, 1, k)
    <3> HIDE DEF w, g
    <3>1. k \in 1..Len(es)
      OBVIOUS
    <3> HIDE DEF n
    <3> QED BY <3>1, SubSeqProperties, AppendProperties, LenProperties
  <2>5. g[k] = [off |-> Len(f[k]), list |-> SubSeq(es, 1, k)]
    BY <2>1
  <2>6. Len(f[k]) = Len(f[k - 1]) + Len(EntryWords(es[k]))
    <3> HIDE DEF n, w, g
    <3> QED BY <1>3
  <2> HIDE DEF g, w
  <2> QED BY <2>3, <2>4, <2>5, <2>6
<1>7. g[0] = [off |-> 1, list |-> << >>]
  <2>1. 0 \in 0..n /\ SubSeq(es, 1, 0) = << >>
    BY <1>1
  <2> QED BY <1>5, <2>1
<1>8. IsRead(w, g)
  <2> DEFINE h == [k \in 0..n |-> IF k = 0 THEN [off |-> 1, list |-> << >>] ELSE NextRead(w, g[k - 1])]
  <2>1. ASSUME NEW k \in 0..n PROVE g[k] = h[k]
    <3>1. k # 0 => k \in 1..n
      BY <1>1
    <3> HIDE DEF g, w, n
    <3> QED BY <1>6, <1>7, <3>1
  <2>2. g = h
    <3> HIDE DEF w
    <3> QED BY <2>1
  <2> HIDE DEF g, w
  <2> QED BY <1>5, <2>2 DEF IsRead
<1>9. IsRead(w, read)
  <2> HIDE DEF g, w
  <2> QED BY <1>8
<1>10. read = [k \in 0..n |-> IF k = 0 THEN [off |-> 1, list |-> << >>] ELSE NextRead(w, read[k - 1])]
  <2> HIDE DEF read, w
  <2> QED BY <1>5, <1>9 DEF IsRead
<1>11. Entries(w) = read[w[1]].list
  <2> HIDE DEF w
  <2> QED BY ReadDefined
<1> HIDE DEF read, g, w
<1>12. 0..n \subseteq {k \in 0..n : read[k] = g[k]}
  <2>1. read[0] = g[0]
    BY <1>1, <1>7, <1>10
  <2>2. ASSUME NEW k \in 1..n, read[k - 1] = g[k - 1] PROVE read[k] = g[k]
    <3>1. k \in 0..n /\ k # 0
      BY <1>1
    <3>2. read[k] = NextRead(w, read[k - 1])
      <4> HIDE DEF n
      <4> QED BY <1>10, <3>1
    <3> QED BY <1>6, <2>2, <3>2
  <2> DEFINE S == {k \in 0..n : read[k] = g[k]}
  <2>3. 0 \in S /\ \A i \in 1..n : i - 1 \in S => i \in S
    BY <1>1, <2>1, <2>2
  <2> HIDE DEF S
  <2>4. 0..n \subseteq S
    BY <1>1, <2>3, CountedUp
  <2> QED BY <2>4 DEF S
<1>13. read[n].list = SubSeq(es, 1, n)
  <2>1. n \in 0..n
    BY <1>1
  <2>2. read[n] = g[n]
    BY <1>12, <2>1
  <2> QED BY <2>1, <2>2 DEF g
<1>14. SubSeq(es, 1, n) = es
  BY <1>1
<1> QED BY <1>5, <1>11, <1>13, <1>14 DEF w

-------------------------------------------------------------------------------
(* How far a patch file has been read. *)
NextItem(words, r) ==
  IF MoreItems(r.off, words)
  THEN LET item == ItemAt(words, r.off)
       IN  [off |-> (r.off + item.size + 2) % Width, list |-> Append(r.list, item)]
  ELSE r

IsItems(words, f) ==
  f = [k \in 0..Len(words) |-> IF k = 0 THEN [off |-> 0, list |-> << >>] ELSE NextItem(words, f[k - 1])]

(* The patches of a file are the last value of that function. *)
LEMMA ItemsDefined ==
  ASSUME NEW words
  PROVE  PatchItems(words) = (CHOOSE f : IsItems(words, f))[Len(words)].list
BY DEF PatchItems, PatchRead, IsItems, NextItem

ItemStates == [off : Nat, list : PatchList]

(* With two words or more, no patch lies behind the file. *)
LEMMA ItemStep ==
  ASSUME NEW words \in Seq(Nat), Len(words) >= 2, NEW r \in ItemStates
  PROVE  NextItem(words, r) \in ItemStates
<1> DEFINE len == Len(words)
<1>1. len \in Nat /\ len >= 2 /\ Width \in Nat \ {0} /\ r.off \in Nat /\ r.list \in PatchList
  BY LenProperties, OptNumbers DEF ItemStates
<1>2. CASE ~MoreItems(r.off, words)
  BY <1>2 DEF NextItem
<1>3. CASE MoreItems(r.off, words)
  <2>1. r.off < (len - 2) % Width
    BY <1>3 DEF MoreItems
  <2>2. (len - 2) % Width <= len - 2
    <3> DEFINE d == len - 2
    <3>1. d \in Nat
      BY <1>1
    <3> HIDE DEF d, len
    <3> DEFINE q == d \div Width
    <3>2. d % Width \in Nat /\ d = Width * q + (d % Width) /\ q \in Nat
      BY <1>1, <3>1
    <3>3. \A a, b \in Nat : a * b \in Nat
      OBVIOUS
    <3> HIDE DEF q
    <3>4. Width * q \in Nat
      BY <1>1, <3>2, <3>3
    <3>5. d % Width <= d
      BY <3>1, <3>2, <3>4
    <3> QED BY <3>5 DEF d
  <2>3. r.off + 1 \in 1..len /\ r.off + 2 \in 1..len
    <3> DEFINE stop == (len - 2) % Width
    <3>1. stop \in Nat /\ r.off \in Nat /\ len \in Nat
      BY <1>1
    <3>2. r.off < stop /\ stop <= len - 2
      BY <2>1, <2>2
    <3> HIDE DEF len, stop
    <3> QED BY <3>1, <3>2
  <2> DEFINE item == ItemAt(words, r.off)
             Item == [offset : Nat, size : Nat]
  <2>4. item \in Item /\ item.size \in Nat
    BY <2>3 DEF ItemAt
  <2>5. Append(r.list, item) \in PatchList
    <3>1. r.list \in Seq(Item)
      BY <1>1 DEF PatchList
    <3>2. Append(r.list, item) \in Seq(Item)
      <4> HIDE DEF item, Item
      <4> QED BY <2>4, <3>1, AppendProperties
    <3> QED BY <3>2 DEF PatchList
  <2>6. NextItem(words, r)
          = [off |-> (r.off + item.size + 2) % Width, list |-> Append(r.list, item)]
    BY <1>3 DEF NextItem
  <2> HIDE DEF item, Item
  <2>7. (r.off + item.size + 2) % Width \in Nat
    BY <1>1, <2>4
  <2> QED BY <2>5, <2>6, <2>7 DEF ItemStates
<1> QED BY <1>2, <1>3

(* The patches of such a file are a list of numbers. *)
LEMMA ItemsTyped ==
  ASSUME NEW words \in Seq(Nat), Len(words) >= 2
  PROVE  PatchItems(words) \in PatchList
<1> DEFINE n == Len(words)
           X == ItemStates
           a == [off |-> 0, list |-> << >>]
           G == [i \in 1..n |-> [x \in X |-> NextItem(words, x)]]
           read == CHOOSE f : IsItems(words, f)
<1>1. n \in Nat /\ n >= 2
  BY LenProperties
<1>2. a \in X
  BY EmptySeq DEF ItemStates, PatchList
<1>3. \A x \in X : NextItem(words, x) \in X
  BY ItemStep
<1>4. G \in StepsOn(n, X) /\ \A i \in 1..n : \A x \in X : G[i][x] = NextItem(words, x)
  <2> HIDE DEF X, n, a
  <2> QED BY <1>3 DEF StepsOn
<1>5. PICK f : f \in [0..n -> X] /\ f[0] = a /\ \A i \in 1..n : f[i] = G[i][f[i - 1]]
  <2> HIDE DEF n, X, a, G
  <2>1. PICK f : Follows(f, n, X, a, G)
    BY <1>1, <1>2, <1>4, Recursion
  <2> QED BY <2>1 DEF Follows
<1>6. IsItems(words, f)
  <2> HIDE DEF X, a, n
  <2>1. ASSUME NEW k \in 0..n PROVE f[k] = IF k = 0 THEN a ELSE NextItem(words, f[k - 1])
    <3>1. CASE k = 0
      BY <1>5, <3>1
    <3>2. CASE k # 0
      <4>1. k \in 1..n /\ k - 1 \in 0..n
        BY <1>1, <3>2
      <4>2. f[k - 1] \in X
        BY <1>5, <4>1
      <4>3. f[k] = G[k][f[k - 1]]
        BY <1>5, <4>1
      <4> QED BY <1>4, <3>2, <4>1, <4>2, <4>3
    <3> QED BY <3>1, <3>2
  <2>2. f = [k \in 0..n |-> f[k]]
    BY <1>5
  <2>3. f = [k \in 0..n |-> IF k = 0 THEN a ELSE NextItem(words, f[k - 1])]
    BY <2>1, <2>2
  <2> QED BY <2>3 DEF IsItems, n, a
<1>7. IsItems(words, read)
  BY <1>6
<1> HIDE DEF read
<1>8. read = [k \in 0..n |-> IF k = 0 THEN a ELSE NextItem(words, read[k - 1])]
  BY <1>7 DEF IsItems
<1> DEFINE S == {k \in 0..n : read[k] \in X}
<1>9. 0 \in S
  <2>1. 0 \in 0..n /\ read[0] = a
    <3> HIDE DEF a
    <3> QED BY <1>1, <1>8
  <2> QED BY <1>2, <2>1
<1>10. ASSUME NEW k \in 1..n, k - 1 \in S PROVE k \in S
  <2>1. k \in 0..n /\ k # 0 /\ read[k - 1] \in X
    BY <1>1, <1>10
  <2>2. read[k] = NextItem(words, read[k - 1])
    <3> HIDE DEF n, a, X
    <3> QED BY <1>8, <2>1
  <2> QED BY <1>3, <2>1, <2>2
<1>11. 0..n \subseteq S
  <2> HIDE DEF S, n
  <2> QED BY <1>1, <1>9, <1>10, CountedUp
<1>12. read[n] \in X
  BY <1>1, <1>11
<1> QED BY <1>12, ItemsDefined DEF read, ItemStates

-------------------------------------------------------------------------------
(* The name of an entry. *)
LEMMA NameTyped ==
  ASSUME NEW name \in PatchNames
  PROVE  FixupName(name) \in PatchNames
BY OptAssumption DEF FixupName

(* Two lists agree exactly when they are equal. *)
LEMMA SamePlacesIsEqual ==
  ASSUME NEW a \in PatchList, NEW b \in PatchList
  PROVE  SamePlaces(a, b) <=> a = b
<1> DEFINE Item == [offset : Nat, size : Nat]
<1>1. a \in Seq(Item) /\ b \in Seq(Item)
  BY DEF PatchList
<1>2. DOMAIN a = 1..Len(a)
  BY <1>1, LenProperties
<1> HIDE DEF Item
<1>3. Len(a) = Len(b) /\ (\A j \in DOMAIN a : a[j] = b[j]) => a = b
  BY <1>1, <1>2, SeqEqual
<1> QED BY <1>3 DEF SamePlaces

(* What the index holds while the tool runs. *)
BaseKept ==
  idx["base"] # Missing =>
    \A k \in DOMAIN Entries(idx["base"]) :
      \E m \in DOMAIN pfiles : pfiles[m] = Entries(idx["base"])[k]

(* The files that have been read are in the list. *)
Taken ==
  \A f \in folder \ left :
    /\ PatchReadable(f) => Len(f.words) # 1
    /\ PatchReadable(f) /\ PatchItems(f.words) # << >> => PatchItems(f.words) \in Listed(pfiles)

OptInv ==
  /\ OptTypeOK /\ NoneTwice(pfiles)
  /\ DOMAIN idx = {"base", "addon"}
  /\ idx["base"] = Missing \/ IsBase(idx["base"])
  /\ optPc \in {"scan", "output", "done"} => BaseKept /\ Taken
  /\ optPc \in {"output", "done"} => left = {}
  /\ IndexLoads

(* At the start the list is empty. *)
LEMMA OptInitInv == OptInit => OptInv
<1> SUFFICES ASSUME OptInit PROVE OptInv
  OBVIOUS
<1>1. OptTypeOK /\ NoneTwice(pfiles)
  <2>1. << >> \in Seq(IndexEntries) /\ DOMAIN << >> = {}
    BY EmptySeq
  <2> QED BY <2>1 DEF OptInit, OptTypeOK, NoneTwice
<1>2. PICK b \in Bases : idx = [f \in {"base", "addon"} |-> IF f = "base" THEN b ELSE Missing]
  BY DEF OptInit
<1>3. idx["base"] = b /\ DOMAIN idx = {"base", "addon"}
  BY <1>2
<1> QED BY <1>1, <1>3, OptAssumption DEF OptInit, OptInv, IndexLoads

(* The base is read into the list. *)
LEMMA LoadBaseInv == OptInv /\ LoadBase => OptInv'
<1> SUFFICES ASSUME OptInv, LoadBase PROVE OptInv'
  OBVIOUS
<1>1. pfiles' = IF idx["base"] # Missing THEN Entries(idx["base"]) ELSE << >>
  BY DEF LoadBase
<1>2. pfiles' \in Seq(IndexEntries) /\ NoneTwice(pfiles)'
  <2>1. CASE idx["base"] = Missing
    BY <1>1, <2>1, EmptySeq DEF NoneTwice
  <2>2. CASE idx["base"] # Missing
    BY <1>1, <2>2 DEF OptInv, IsBase, NoneTwice
  <2> QED BY <2>1, <2>2
<1>3. OptTypeOK'
  BY <1>2 DEF OptInv, OptTypeOK, LoadBase
<1>4. BaseKept'
  BY <1>1 DEF BaseKept, LoadBase
<1>5. Taken'
  BY DEF Taken, LoadBase
<1> QED BY <1>2, <1>3, <1>4, <1>5 DEF OptInv, LoadBase, IndexLoads

(* The places of one file are put behind the list, unless they are there. *)
LEMMA ProcessInv == OptInv /\ ProcessPatchFile => OptInv'
<1> SUFFICES ASSUME OptInv, ProcessPatchFile PROVE OptInv'
  OBVIOUS
<1>1. PICK file \in left :
        /\ left' = left \ {file}
        /\ PatchReadable(file) => Len(file.words) # 1
        /\ pfiles' = IF PatchReadable(file) /\ PatchItems(file.words) # << >>
                          /\ ShouldAdd(PatchItems(file.words))
                     THEN Append(pfiles, [fname |-> FixupName(file.name),
                                          pitm |-> PatchItems(file.words)])
                     ELSE pfiles
  BY DEF ProcessPatchFile
<1>2. /\ optPc = "scan" /\ optPc' = optPc /\ baseBuild' = baseBuild
      /\ folder' = folder /\ idx' = idx
  BY DEF ProcessPatchFile
<1>3. pfiles \in Seq(IndexEntries) /\ left \subseteq folder /\ folder \in Folders
  BY DEF OptInv, OptTypeOK
<1>4. IsPatchFile(file)
  BY <1>3, OptAssumption
<1> DEFINE items == PatchItems(file.words)
           new == [fname |-> FixupName(file.name), pitm |-> items]
<1>5. ASSUME PatchReadable(file) PROVE items \in PatchList
  <2>1. file.words \in Seq(Nat) /\ file.words # << >> /\ Len(file.words) # 1
    BY <1>1, <1>4, <1>5 DEF IsPatchFile, PatchReadable
  <2>2. Len(file.words) \in Nat /\ Len(file.words) # 0
    BY <2>1, EmptySeq, LenProperties
  <2>3. Len(file.words) >= 2
    <3> DEFINE n == Len(file.words)
    <3>1. n \in Nat /\ n # 0 /\ n # 1
      BY <2>1, <2>2
    <3> HIDE DEF n
    <3>2. n >= 2
      BY <3>1
    <3> QED BY <3>2 DEF n
  <2> QED BY <2>1, <2>3, ItemsTyped
<1>6. CASE ~(PatchReadable(file) /\ items # << >> /\ ShouldAdd(items))
  <2>1. pfiles' = pfiles
    BY <1>1, <1>6
  <2>2. PatchReadable(file) /\ items # << >> => items \in Listed(pfiles)
    <3> SUFFICES ASSUME PatchReadable(file), items # << >> PROVE items \in Listed(pfiles)
      OBVIOUS
    <3>1. PICK k \in DOMAIN pfiles : SamePlaces(pfiles[k].pitm, items)
      BY <1>6 DEF ShouldAdd
    <3>2. pfiles[k] \in IndexEntries
      BY <1>3, <3>1
    <3>3. pfiles[k].pitm \in PatchList
      BY <3>2 DEF IndexEntries
    <3> HIDE DEF items
    <3>4. pfiles[k].pitm = items
      BY <1>5, <3>1, <3>3, SamePlacesIsEqual
    <3> QED BY <3>1, <3>4 DEF Listed
  <2>3. Taken'
    BY <1>1, <1>2, <2>1, <2>2 DEF Taken, OptInv, Listed, PatchReadable
  <2>4. BaseKept' /\ NoneTwice(pfiles)'
    BY <1>2, <2>1 DEF OptInv, BaseKept, NoneTwice
  <2>5. OptTypeOK'
    BY <1>1, <1>2, <2>1 DEF OptInv, OptTypeOK
  <2> QED BY <1>2, <2>3, <2>4, <2>5 DEF OptInv, IndexLoads
<1>7. CASE PatchReadable(file) /\ items # << >> /\ ShouldAdd(items)
  <2>1. pfiles' = Append(pfiles, new)
    BY <1>1, <1>7
  <2>2. new \in IndexEntries
    <3>1. items \in PatchList
      BY <1>5, <1>7
    <3>2. FixupName(file.name) \in PatchNames
      BY <1>4, NameTyped DEF IsPatchFile
    <3> HIDE DEF items
    <3> QED BY <1>7, <3>1, <3>2 DEF IndexEntries
  <2> DEFINE n == Len(pfiles)
  <2>3. n \in Nat /\ DOMAIN pfiles = 1..n
    BY <1>3
  <2>4. new.pitm = items
    OBVIOUS
  <2> HIDE DEF new
  <2>5. /\ pfiles' \in Seq(IndexEntries) /\ DOMAIN pfiles' = 1..(n + 1)
        /\ pfiles'[n + 1] = new /\ \A k \in 1..n : pfiles'[k] = pfiles[k]
    BY <1>3, <2>1, <2>2, AppendProperties, LenProperties
  <2> HIDE DEF n
  <2>6. \A k \in 1..n : pfiles'[k].pitm # items
    <3> SUFFICES ASSUME NEW k \in 1..n, pfiles'[k].pitm = items PROVE FALSE
      OBVIOUS
    <3>1. pfiles[k].pitm = items /\ ~ SamePlaces(pfiles[k].pitm, items)
      BY <1>7, <2>3, <2>5 DEF ShouldAdd
    <3> HIDE DEF items
    <3>2. items \in PatchList
      BY <1>5, <1>7
    <3> QED BY <3>1, <3>2, SamePlacesIsEqual
  <2> HIDE DEF items
  <2>7. NoneTwice(pfiles')
    <3> SUFFICES ASSUME NEW k \in 1..(n + 1), NEW m \in 1..(n + 1),
                        pfiles'[k].pitm = pfiles'[m].pitm
                 PROVE  k = m
      BY <2>5 DEF NoneTwice
    <3>1. CASE k \in 1..n /\ m \in 1..n
      BY <2>3, <2>5, <3>1 DEF OptInv, NoneTwice
    <3>2. CASE k = n + 1 /\ m \in 1..n
      BY <2>4, <2>5, <2>6, <3>2
    <3>3. CASE m = n + 1 /\ k \in 1..n
      BY <2>4, <2>5, <2>6, <3>3
    <3>4. CASE k = n + 1 /\ m = n + 1
      BY <3>4
    <3> QED BY <2>3, <3>1, <3>2, <3>3, <3>4
  <2>8. \A k \in 1..n : k \in 1..(n + 1)
    BY <2>3
  <2>9. Listed(pfiles) \subseteq Listed(pfiles') /\ items \in Listed(pfiles')
    <3>1. n + 1 \in 1..(n + 1)
      BY <2>3
    <3> QED BY <2>3, <2>4, <2>5, <2>8, <3>1 DEF Listed
  <2>10. Taken'
    BY <1>1, <1>2, <2>9 DEF Taken, OptInv, PatchReadable, items
  <2>11. BaseKept'
    BY <1>2, <2>3, <2>5, <2>8 DEF OptInv, BaseKept
  <2>12. OptTypeOK'
    BY <1>1, <1>2, <2>5 DEF OptInv, OptTypeOK
  <2> QED BY <1>2, <2>7, <2>10, <2>11, <2>12 DEF OptInv, IndexLoads, NoneTwice
<1> QED BY <1>6, <1>7

(* What is written is the list. *)
LEMMA OutputInv == OptInv /\ OutputIdx => OptInv'
<1> SUFFICES ASSUME OptInv, OutputIdx PROVE OptInv'
  OBVIOUS
<1>1. /\ optPc = "output" /\ optPc' \in {"done", "unwritten"} /\ pfiles' = pfiles /\ folder' = folder
      /\ left' = left /\ baseBuild' = baseBuild
  BY DEF OutputIdx
<1>2. pfiles \in Seq(IndexEntries)
  BY DEF OptInv, OptTypeOK
<1>3. Len(IndexWords(pfiles)) = TotalWords(pfiles) /\ Entries(IndexWords(pfiles)) = pfiles
  BY <1>2, TotalIsLength, ReadBack
<1>4. OptTypeOK' /\ NoneTwice(pfiles)' /\ Taken' /\ left' = {} /\ OutFile' = OutFile
  BY <1>1 DEF OptInv, OptTypeOK, NoneTwice, Taken, PatchReadable, Listed, OutFile
<1>5. OutFile \in {"base", "addon"} /\ DOMAIN idx = {"base", "addon"}
  BY DEF OutFile, OptInv
<1>6. CASE idx' = idx /\ (pfiles = << >> \/ optPc' = "unwritten")
  BY <1>1, <1>4, <1>5, <1>6 DEF OptInv, BaseKept, IndexLoads, IsBase, NoneTwice
<1>7. CASE idx' = [idx EXCEPT ![OutFile] = IndexWords(pfiles)]
  <2>1. idx' = [idx EXCEPT ![OutFile] = IndexWords(pfiles)]
    BY <1>7
  <2>2. DOMAIN idx' = {"base", "addon"} /\ idx'[OutFile] = IndexWords(pfiles)
        /\ (OutFile # "base" => idx'["base"] = idx["base"])
    BY <1>5, <2>1
  <2>3. Entries(idx'[OutFile]) = pfiles
    BY <1>3, <2>2
  <2>4. BaseKept' /\ (idx'["base"] = Missing \/ IsBase(idx'["base"]))
    <3>1. CASE OutFile = "base"
      BY <1>1, <1>2, <2>3, <3>1 DEF BaseKept, IsBase, OptInv
    <3>2. CASE OutFile # "base"
      BY <1>1, <2>2, <3>2 DEF BaseKept, OptInv
    <3> QED BY <3>1, <3>2
  <2>5. IndexLoads'
    BY <1>1, <1>4, <2>3 DEF IndexLoads
  <2> QED BY <1>1, <1>4, <2>2, <2>4, <2>5 DEF OptInv, IsBase, NoneTwice
<1>8. \/ idx' = idx /\ (pfiles = << >> \/ optPc' = "unwritten")
      \/ idx' = [idx EXCEPT ![OutFile] = IndexWords(pfiles)]
  BY <1>3 DEF OutputIdx
<1> QED BY <1>6, <1>7, <1>8

(* The invariant is kept by every step. *)
LEMMA OptStepInv == OptInv /\ [OptNext]_optVars => OptInv'
<1> SUFFICES ASSUME OptInv, [OptNext]_optVars PROVE OptInv'
  OBVIOUS
<1>1. CASE LoadBase
  BY <1>1, LoadBaseInv
<1>2. CASE ProcessPatchFile
  BY <1>2, ProcessInv
<1>3. CASE ReadBehind
  BY <1>3 DEF OptInv, OptTypeOK, NoneTwice, IsBase, IndexLoads, ReadBehind
<1>4. CASE ScanDone
  BY <1>4 DEF OptInv, OptTypeOK, NoneTwice, IsBase, IndexLoads, ScanDone, BaseKept, Taken,
              Listed, PatchReadable
<1>5. CASE OutputIdx
  BY <1>5, OutputInv
<1>6. CASE CallAgain
  <2>1. pfiles' = << >> /\ << >> \in Seq(IndexEntries) /\ DOMAIN << >> = {}
    BY <1>6, EmptySeq DEF CallAgain
  <2> QED BY <1>6, <2>1 DEF OptInv, OptTypeOK, NoneTwice, IsBase, IndexLoads, CallAgain
<1>7. CASE UNCHANGED optVars
  BY <1>7 DEF optVars, OptInv, OptTypeOK, NoneTwice, IsBase, IndexLoads, OutFile, BaseKept, Taken,
              Listed, PatchReadable
<1> QED BY <1>1, <1>2, <1>3, <1>4, <1>5, <1>6, <1>7 DEF OptNext

(* The index has every list once and loses nothing of the base. *)
THEOREM IndexIsExact == OptSpec => []IndexExact
<1>1. OptInv => IndexExact
  BY DEF OptInv, IndexExact, Lists, Taken, BaseKept
<1> QED BY <1>1, OptInitInv, OptStepInv, PTL DEF OptSpec

-------------------------------------------------------------------------------
(* ini_creator. *)

(* A sequence with the members of a set, each once. *)
ListsOnce(q, S) ==
  /\ q \in Seq(S)
  /\ \A x \in S : \E n \in 1..Len(q) : q[n] = x
  /\ \A m, n \in 1..Len(q) : q[m] = q[n] => m = n

(* Nothing is listed in front. *)
LEMMA ListsNothing == ListsOnce(<< >>, {})
BY EmptySeq DEF ListsOnce

(* One more at the end. *)
LEMMA OneMoreListed ==
  ASSUME NEW q, NEW S, ListsOnce(q, S), NEW x, x \notin S
  PROVE  ListsOnce(Append(q, x), S \cup {x})
<1> DEFINE T == S \cup {x}
           a == Append(q, x)
           n == Len(q)
<1>1. q \in Seq(S) /\ \A j \in 1..n : q[j] \in S
  BY LenProperties, ElementOfSeq DEF ListsOnce
<1>2. q \in Seq(T) /\ n \in Nat
  BY <1>1, SeqMonotonic, LenProperties
<1>3. x \in T /\ S \subseteq T
  OBVIOUS
<1>4. a \in Seq(T) /\ Len(a) = n + 1 /\ a[n + 1] = x /\ \A j \in 1..n : a[j] = q[j]
  <2> HIDE DEF T
  <2> QED BY <1>2, <1>3, AppendProperties
<1>5. (\A y \in S : \E j \in 1..n : q[j] = y) /\ \A j, k \in 1..n : q[j] = q[k] => j = k
  BY DEF ListsOnce
<1> HIDE DEF a, n
<1>6. \A y \in T : \E j \in 1..(n + 1) : a[j] = y
  <2> SUFFICES ASSUME NEW y \in T PROVE \E j \in 1..(n + 1) : a[j] = y
    OBVIOUS
  <2>1. CASE y = x
    BY <1>2, <1>4, <2>1
  <2>2. CASE y \in S
    BY <1>2, <1>4, <1>5, <2>2
  <2> QED BY <2>1, <2>2
<1>7. ASSUME NEW j \in 1..(n + 1), NEW k \in 1..(n + 1), a[j] = a[k] PROVE j = k
  <2>1. CASE j \in 1..n /\ k \in 1..n
    BY <1>4, <1>5, <1>7, <2>1
  <2>2. CASE j = n + 1 \/ k = n + 1
    BY <1>1, <1>2, <1>4, <1>7, <2>2
  <2> QED BY <1>2, <2>1, <2>2
<1> QED BY <1>4, <1>6, <1>7 DEF ListsOnce, a

(* One list behind the other. *)
LEMMA ListedBehind ==
  ASSUME NEW p, NEW S, ListsOnce(p, S), NEW q, NEW T, ListsOnce(q, T), S \cap T = {}
  PROVE  ListsOnce(p \o q, S \cup T)
<1> DEFINE U == S \cup T
           m == Len(p)
           n == Len(q)
           c == p \o q
<1>1. p \in Seq(S) /\ q \in Seq(T) /\ m \in Nat /\ n \in Nat
      /\ (\A j \in 1..m : p[j] \in S) /\ (\A j \in 1..n : q[j] \in T)
  BY LenProperties, ElementOfSeq DEF ListsOnce
<1>2. p \in Seq(U) /\ q \in Seq(U)
  BY <1>1, SeqMonotonic
<1>3. /\ c \in Seq(U) /\ Len(c) = m + n
      /\ \A j \in 1..(m + n) : c[j] = IF j <= m THEN p[j] ELSE q[j - m]
  <2> HIDE DEF U
  <2> QED BY <1>2, ConcatProperties
<1>4. /\ \A y \in S : \E j \in 1..m : p[j] = y
      /\ \A y \in T : \E j \in 1..n : q[j] = y
      /\ \A j, k \in 1..m : p[j] = p[k] => j = k
      /\ \A j, k \in 1..n : q[j] = q[k] => j = k
  BY DEF ListsOnce
<1> HIDE DEF m, n, c
<1>5. \A j \in 1..m : j \in 1..(m + n) /\ c[j] = p[j]
  BY <1>1, <1>3
<1>6. \A j \in 1..n : m + j \in 1..(m + n) /\ c[m + j] = q[j]
  <2> SUFFICES ASSUME NEW j \in 1..n PROVE m + j \in 1..(m + n) /\ c[m + j] = q[j]
    OBVIOUS
  <2> DEFINE i == m + j
  <2>1. i \in 1..(m + n) /\ ~ (i <= m) /\ i - m = j
    BY <1>1
  <2> HIDE DEF i
  <2>2. c[i] = q[j]
    BY <1>3, <2>1
  <2> QED BY <2>1, <2>2 DEF i
<1>7. \A y \in U : \E j \in 1..(m + n) : c[j] = y
  <2> SUFFICES ASSUME NEW y \in U PROVE \E j \in 1..(m + n) : c[j] = y
    OBVIOUS
  <2>1. CASE y \in S
    BY <1>4, <1>5, <2>1
  <2>2. CASE y \in T
    BY <1>4, <1>6, <2>2
  <2> QED BY <2>1, <2>2
<1>8. ASSUME NEW j \in 1..(m + n), NEW k \in 1..(m + n), c[j] = c[k] PROVE j = k
  <2>1. CASE j <= m /\ k <= m
    <3>1. j \in 1..m /\ k \in 1..m
      BY <1>1, <2>1
    <3> QED BY <1>4, <1>5, <1>8, <3>1
  <2>2. CASE ~ (j <= m) /\ ~ (k <= m)
    <3>1. j - m \in 1..n /\ k - m \in 1..n
      BY <1>1, <2>2
    <3>2. q[j - m] = q[k - m]
      BY <1>3, <1>8, <2>2
    <3>3. j - m = k - m
      BY <1>4, <3>1, <3>2
    <3> QED BY <1>1, <3>3
  <2>3. CASE j <= m /\ ~ (k <= m)
    <3>1. j \in 1..m /\ k - m \in 1..n
      BY <1>1, <2>3
    <3>2. p[j] = q[k - m]
      BY <1>3, <1>8, <2>3
    <3> QED BY <1>1, <3>1, <3>2
  <2>4. CASE ~ (j <= m) /\ k <= m
    <3>1. k \in 1..m /\ j - m \in 1..n
      BY <1>1, <2>4
    <3>2. p[k] = q[j - m]
      BY <1>3, <1>8, <2>4
    <3> QED BY <1>1, <3>1, <3>2
  <2> QED BY <2>1, <2>2, <2>3, <2>4
<1> QED BY <1>3, <1>7, <1>8 DEF ListsOnce, c

(* A list of other things, one for each. *)
LEMMA MapListed ==
  ASSUME NEW q, NEW S, ListsOnce(q, S), NEW T, NEW F \in [S -> T],
         \A y \in T : \E x \in S : F[x] = y,
         \A x, y \in S : F[x] = F[y] => x = y
  PROVE  ListsOnce([j \in 1..Len(q) |-> F[q[j]]], T)
<1> DEFINE n == Len(q)
           a == [j \in 1..n |-> F[q[j]]]
<1>1. q \in Seq(S) /\ n \in Nat /\ \A j \in 1..n : q[j] \in S
  BY LenProperties, ElementOfSeq DEF ListsOnce
<1>2. (\A y \in S : \E j \in 1..n : q[j] = y) /\ \A j, k \in 1..n : q[j] = q[k] => j = k
  BY DEF ListsOnce
<1> HIDE DEF n
<1>3. \A j \in 1..n : a[j] = F[q[j]] /\ a[j] \in T
  BY <1>1
<1>4. a \in [1..n -> T]
  BY <1>3
<1> HIDE DEF a
<1>5. a \in Seq(T) /\ Len(a) = n
  BY <1>1, <1>4, SeqDef, LenProperties
<1>6. \A y \in T : \E j \in 1..n : a[j] = y
  BY <1>2, <1>3
<1>7. ASSUME NEW j \in 1..n, NEW k \in 1..n, a[j] = a[k] PROVE j = k
  BY <1>1, <1>2, <1>3, <1>7
<1> QED BY <1>5, <1>6, <1>7 DEF ListsOnce, a, n

(* The lines of a list of names. *)
LEMMA LinesListed ==
  ASSUME NEW section, NEW q, NEW S, ListsOnce(q, S)
  PROVE  ListsOnce(Lines(section, q), {Line(section, x) : x \in S})
<1> DEFINE T == {Line(section, x) : x \in S}
           F == [x \in S |-> Line(section, x)]
<1>1. F \in [S -> T] /\ (\A y \in T : \E x \in S : F[x] = y) /\ \A x \in S : F[x] = Line(section, x)
  OBVIOUS
<1>2. \A x, y \in S : F[x] = F[y] => x = y
  BY <1>1 DEF Line
<1>3. \A j \in 1..Len(q) : q[j] \in S
  BY ElementOfSeq DEF ListsOnce
<1>4. Lines(section, q) = [j \in 1..Len(q) |-> F[q[j]]]
  BY <1>3 DEF Lines
<1> HIDE DEF T, F
<1>5. ListsOnce([j \in 1..Len(q) |-> F[q[j]]], T)
  BY <1>1, <1>2, MapListed
<1> QED BY <1>4, <1>5 DEF T

(* How many of the boot loaders have been shown. *)
NextShown(section, chosen, k, q) ==
  IF k \in chosen THEN Append(q, Line(section, flashBls[k].name)) ELSE q

IsShown(section, chosen, f) ==
  f = [k \in 0..Len(flashBls) |->
         IF k = 0 THEN << >> ELSE NextShown(section, chosen, k, f[k - 1])]

(* The lines of a section are the last value of that function. *)
LEMMA ShownDefined ==
  ASSUME NEW section, NEW chosen
  PROVE  Shown(section, chosen) = (CHOOSE f : IsShown(section, chosen, f))[Len(flashBls)]
BY DEF Shown, IsShown, NextShown

(* Each boot loader that is chosen is shown once. *)
LEMMA ShownListed ==
  ASSUME NEW section, NEW chosen, Len(flashBls) \in Nat, chosen \subseteq 1..Len(flashBls),
         \A j, k \in 1..Len(flashBls) : flashBls[j].name = flashBls[k].name => j = k
  PROVE  ListsOnce(Shown(section, chosen), {Line(section, flashBls[k].name) : k \in chosen})
<1> DEFINE n == Len(flashBls)
           X == Seq({Line(section, flashBls[k].name) : k \in chosen})
           G == [k \in 1..n |-> [q \in X |-> NextShown(section, chosen, k, q)]]
           show == CHOOSE f : IsShown(section, chosen, f)
           a == << >>
<1>1. n \in Nat /\ \A i \in chosen : i \in 1..n
  OBVIOUS
<1>2. a \in X
  BY EmptySeq
<1>3. ASSUME NEW k \in 1..n, NEW q \in X PROVE NextShown(section, chosen, k, q) \in X
  <2> DEFINE L == {Line(section, flashBls[j].name) : j \in chosen}
             line == Line(section, flashBls[k].name)
  <2>1. CASE k \in chosen
    <3>1. line \in L
      BY <2>1
    <3>2. q \in Seq(L) /\ NextShown(section, chosen, k, q) = Append(q, line)
      BY <2>1 DEF NextShown
    <3> HIDE DEF L, line
    <3>3. Append(q, line) \in Seq(L)
      BY <3>1, <3>2, AppendProperties
    <3> QED BY <3>2, <3>3 DEF L
  <2>2. CASE k \notin chosen
    BY <2>2 DEF NextShown
  <2> QED BY <2>1, <2>2
<1>4. G \in StepsOn(n, X) /\ \A k \in 1..n : \A q \in X : G[k][q] = NextShown(section, chosen, k, q)
  <2> HIDE DEF X, n
  <2> QED BY <1>3 DEF StepsOn
<1>5. PICK f : f \in [0..n -> X] /\ f[0] = a /\ \A k \in 1..n : f[k] = G[k][f[k - 1]]
  <2> HIDE DEF n, X, a, G
  <2>1. PICK f : Follows(f, n, X, a, G)
    BY <1>1, <1>2, <1>4, Recursion
  <2> QED BY <2>1 DEF Follows
<1>6. IsShown(section, chosen, f)
  <2> HIDE DEF X, a, n
  <2>1. ASSUME NEW k \in 0..n
        PROVE  f[k] = IF k = 0 THEN a ELSE NextShown(section, chosen, k, f[k - 1])
    <3>1. CASE k = 0
      BY <1>5, <3>1
    <3>2. CASE k # 0
      <4>1. k \in 1..n /\ k - 1 \in 0..n
        BY <1>1, <3>2
      <4>2. f[k - 1] \in X
        BY <1>5, <4>1
      <4>3. f[k] = G[k][f[k - 1]]
        BY <1>5, <4>1
      <4> QED BY <1>4, <3>2, <4>1, <4>2, <4>3
    <3> QED BY <3>1, <3>2
  <2>2. f = [k \in 0..n |-> f[k]]
    BY <1>5
  <2>3. f = [k \in 0..n |-> IF k = 0 THEN a ELSE NextShown(section, chosen, k, f[k - 1])]
    BY <2>1, <2>2
  <2> QED BY <2>3 DEF IsShown, n, a
<1>7. IsShown(section, chosen, show)
  BY <1>6
<1> HIDE DEF show, G
<1>8. show = [k \in 0..n |-> IF k = 0 THEN a ELSE NextShown(section, chosen, k, show[k - 1])]
  BY <1>7 DEF IsShown
<1> DEFINE Some(k) == {Line(section, flashBls[j].name) : j \in {i \in chosen : i <= k}}
           S == {k \in 0..n : ListsOnce(show[k], Some(k))}
<1>9. 0 \in S
  <2>1. 0 \in 0..n /\ show[0] = a
    <3> HIDE DEF a
    <3> QED BY <1>1, <1>8
  <2>2. Some(0) = {}
    OBVIOUS
  <2> HIDE DEF Some
  <2>3. ListsOnce(show[0], Some(0))
    BY <2>1, <2>2, ListsNothing
  <2> QED BY <2>1, <2>3
<1>10. ASSUME NEW k \in 1..n, k - 1 \in S PROVE k \in S
  <2>1. k \in 0..n /\ k # 0 /\ ListsOnce(show[k - 1], Some(k - 1))
    BY <1>1, <1>10
  <2>2. show[k] = NextShown(section, chosen, k, show[k - 1])
    <3> HIDE DEF n, a, X
    <3> QED BY <1>8, <2>1
  <2> DEFINE line == Line(section, flashBls[k].name)
  <2>3. CASE k \in chosen
    <3>1. Some(k) = Some(k - 1) \cup {line}
      <4>1. {i \in chosen : i <= k} = {i \in chosen : i <= k - 1} \cup {k}
        <5>1. \A i \in chosen : i <= k <=> i <= k - 1 \/ i = k
          <6> HIDE DEF n
          <6> QED BY <1>1
        <5> QED BY <2>3, <5>1
      <4> QED BY <4>1
    <3>2. line \notin Some(k - 1)
      <4> SUFFICES ASSUME NEW j \in chosen, j <= k - 1, Line(section, flashBls[j].name) = line
                   PROVE  FALSE
        OBVIOUS
      <4>1. flashBls[j].name = flashBls[k].name
        BY DEF Line
      <4>2. j = k
        BY <4>1
      <4> QED BY <1>1, <4>2
    <3>3. show[k] = Append(show[k - 1], line)
      BY <2>2, <2>3 DEF NextShown
    <3> HIDE DEF Some, line
    <3>4. ListsOnce(show[k], Some(k))
      BY <2>1, <3>1, <3>2, <3>3, OneMoreListed
    <3> QED BY <2>1, <3>4
  <2>4. CASE k \notin chosen
    <3>1. Some(k) = Some(k - 1)
      <4>1. {i \in chosen : i <= k} = {i \in chosen : i <= k - 1}
        <5>1. \A i \in chosen : i <= k <=> i <= k - 1
          <6> HIDE DEF n
          <6> QED BY <1>1, <2>4
        <5> QED BY <5>1
      <4> QED BY <4>1
    <3>2. show[k] = show[k - 1]
      BY <2>2, <2>4 DEF NextShown
    <3> HIDE DEF Some
    <3> QED BY <2>1, <3>1, <3>2
  <2> QED BY <2>3, <2>4
<1>11. 0..n \subseteq S
  <2> HIDE DEF S, n
  <2> QED BY <1>1, <1>9, <1>10, CountedUp
<1>12. n \in S
  <2> HIDE DEF S, n
  <2>1. n \in 0..n
    BY <1>1
  <2> QED BY <1>11, <2>1
<1>13. Some(n) = {Line(section, flashBls[k].name) : k \in chosen}
  <2>1. {i \in chosen : i <= n} = chosen
    <3>1. \A i \in chosen : i <= n
      <4> HIDE DEF n
      <4> QED BY <1>1
    <3> QED BY <3>1
  <2> QED BY <2>1
<1>14. ListsOnce(show[n], Some(n))
  BY <1>12
<1> HIDE DEF Some
<1> QED BY <1>13, <1>14, ShownDefined DEF show

-------------------------------------------------------------------------------
(* The six sections are different, and none is one of the others. *)
LEMMA SectionFacts ==
  /\ Len(Sections) = 6
  /\ \A s, t \in 1..6 : Sections[s] = Sections[t] => s = t
  /\ \A s \in 1..6 :
       Sections[s] \notin {"read", "rest", "done", "crashed", "commonbl", "flash", "unknown"}
BY DEF Sections

(* The versions of each section. *)
LEMMA WithinFacts ==
  ASSUME NEW ver \in Nat
  PROVE  /\ Within(ver, Sections[1]) <=> (ver > 1000 /\ ver < 2000) \/ (ver > 7000 /\ ver < 8000)
         /\ Within(ver, Sections[2]) <=> ver > 4000 /\ ver < 5000
         /\ Within(ver, Sections[3]) <=> ver > 5000 /\ ver < 6000
         /\ Within(ver, Sections[4]) <=> ver > 6000 /\ ver < 7000
         /\ Within(ver, Sections[5]) <=> ver > 9000 /\ ver < 10000
         /\ Within(ver, Sections[6]) <=> (ver > 13000 /\ ver < 15000) \/ (ver > 12000 /\ ver < 12999)
<1>1. /\ Bounds[Sections[1]] = {<<1000, 2000>>, <<7000, 8000>>}
      /\ Bounds[Sections[2]] = {<<4000, 5000>>}
      /\ Bounds[Sections[3]] = {<<5000, 6000>>}
      /\ Bounds[Sections[4]] = {<<6000, 7000>>}
      /\ Bounds[Sections[5]] = {<<9000, 10000>>}
      /\ Bounds[Sections[6]] = {<<13000, 15000>>, <<12000, 12999>>}
  BY DEF Bounds, Sections
<1>2. Within(ver, Sections[1]) <=> (ver > 1000 /\ ver < 2000) \/ (ver > 7000 /\ ver < 8000)
  BY <1>1 DEF Within
<1>3. Within(ver, Sections[2]) <=> ver > 4000 /\ ver < 5000
  BY <1>1 DEF Within
<1>4. Within(ver, Sections[3]) <=> ver > 5000 /\ ver < 6000
  BY <1>1 DEF Within
<1>5. Within(ver, Sections[4]) <=> ver > 6000 /\ ver < 7000
  BY <1>1 DEF Within
<1>6. Within(ver, Sections[5]) <=> ver > 9000 /\ ver < 10000
  BY <1>1 DEF Within
<1>7. Within(ver, Sections[6]) <=> (ver > 13000 /\ ver < 15000) \/ (ver > 12000 /\ ver < 12999)
  BY <1>1 DEF Within
<1> QED BY <1>2, <1>3, <1>4, <1>5, <1>6, <1>7

(* No version is in two sections. *)
LEMMA WithinOne ==
  ASSUME NEW ver \in Nat, NEW s \in 1..6, NEW t \in 1..6,
         Within(ver, Sections[s]), Within(ver, Sections[t])
  PROVE  s = t
<1>1. /\ s = 1 \/ s = 2 \/ s = 3 \/ s = 4 \/ s = 5 \/ s = 6
      /\ t = 1 \/ t = 2 \/ t = 3 \/ t = 4 \/ t = 5 \/ t = 6
  OBVIOUS
<1> QED BY <1>1, WithinFacts

(* The sections against the last comment of the source. *)
LEMMA ConsoleFacts ==
  ASSUME NEW ver \in Nat
  PROVE  /\ \A s \in 1..6 : Within(ver, Sections[s]) =>
              (Sections[s] \in Consoles(ver) /\ ver % 1000 # 0) \/ Consoles(ver) = {}
         /\ (\A s \in 1..6 : ~Within(ver, Sections[s])) =>
              ver % 1000 = 0 \/ Consoles(ver) = {}
<1>1. SectionNames = {Sections[s] : s \in 1..6}
  BY SectionFacts DEF SectionNames
<1>2. /\ Thousands[Sections[1]] = 1 /\ Thousands[Sections[2]] = 4 /\ Thousands[Sections[3]] = 5
      /\ Thousands[Sections[4]] = 6 /\ Thousands[Sections[5]] = 9 /\ Thousands[Sections[6]] = 13
  BY DEF Thousands, Sections
<1>3. \A s \in 1..6 : s = 1 \/ s = 2 \/ s = 3 \/ s = 4 \/ s = 5 \/ s = 6
  OBVIOUS
<1> DEFINE th == ver \div 1000
           rest == ver % 1000
<1>4. th \in Nat /\ rest \in 0..999 /\ ver = 1000 * th + rest
  OBVIOUS
<1> HIDE DEF th, rest
<1>5. \A s \in 1..6 : Sections[s] \in Consoles(ver) <=> Thousands[Sections[s]] = th
  BY <1>1 DEF Consoles, th
<1>6. Consoles(ver) # {} <=> th \in {1, 4, 5, 6, 9, 13}
  <2>1. Consoles(ver) # {} => th \in {1, 4, 5, 6, 9, 13}
    BY <1>1, <1>2, <1>3 DEF Consoles, th
  <2>2. th \in {1, 4, 5, 6, 9, 13} => Consoles(ver) # {}
    BY <1>2, <1>5
  <2> QED BY <2>1, <2>2
<1>7. ASSUME NEW s \in 1..6, Within(ver, Sections[s])
      PROVE  (Sections[s] \in Consoles(ver) /\ rest # 0) \/ Consoles(ver) = {}
  <2>1. CASE s = 1
    BY <1>2, <1>4, <1>5, <1>6, <1>7, <2>1, WithinFacts
  <2>2. CASE s = 2
    BY <1>2, <1>4, <1>5, <1>7, <2>2, WithinFacts
  <2>3. CASE s = 3
    BY <1>2, <1>4, <1>5, <1>7, <2>3, WithinFacts
  <2>4. CASE s = 4
    BY <1>2, <1>4, <1>5, <1>7, <2>4, WithinFacts
  <2>5. CASE s = 5
    BY <1>2, <1>4, <1>5, <1>7, <2>5, WithinFacts
  <2>6. CASE s = 6
    BY <1>2, <1>4, <1>5, <1>6, <1>7, <2>6, WithinFacts
  <2> QED BY <1>3, <2>1, <2>2, <2>3, <2>4, <2>5, <2>6
<1>8. ASSUME \A s \in 1..6 : ~Within(ver, Sections[s])
      PROVE  rest = 0 \/ Consoles(ver) = {}
  <2>1. /\ ~Within(ver, Sections[1]) /\ ~Within(ver, Sections[2]) /\ ~Within(ver, Sections[3])
        /\ ~Within(ver, Sections[4]) /\ ~Within(ver, Sections[5]) /\ ~Within(ver, Sections[6])
    BY <1>8
  <2> QED BY <1>4, <1>6, <2>1, WithinFacts
<1> QED BY <1>7, <1>8 DEF rest

-------------------------------------------------------------------------------
(* The files that have been read, by what they are. *)
Of(kind) == {k \in 1..(arg - 1) : argv[k].kind = kind}
NamesOf(kind) == {argv[k].name : k \in Of(kind)}

Fits(f, s) == f.letter \in {B, D} /\ Within(f.ver, Sections[s])

(* The section is behind the tool. *)
Past(s) == iniPc \in {"rest", "done"} \/ \E t \in 1..6 : iniPc = Sections[t] /\ s < t
WasShown(f) == \E s \in 1..6 : Past(s) /\ Fits(f, s)

Slot(k) ==
  [name |-> argv[k].name, letter |-> argv[k].letter, ver |-> argv[k].ver,
   magic |-> ProperBl(argv[k]) /\ ~WasShown(argv[k])]
Slots == {Slot(k) : k \in Of("bl")}

Fitting(s) == {k \in Of("bl") : ProperBl(argv[k]) /\ Fits(argv[k], s)}
SectionLines(s) == {Line(Sections[s], argv[k].name) : k \in Fitting(s)}
ShownLines == UNION {SectionLines(s) : s \in {t \in 1..6 : Past(t)}}

Leftovers == {k \in Of("bl") : ProperBl(argv[k]) /\ ~WasShown(argv[k])}
RestLines == {Line("commonbl", argv[k].name) : k \in Leftovers}
KindLines(section, kind) == {Line(section, x) : x \in NamesOf(kind)}
AllLines ==
  ((ShownLines \cup RestLines) \cup KindLines("flash", "flash")) \cup KindLines("unknown", "other")

HighestSoFar ==
  /\ flashVer \in Nat
  /\ \A k \in CfFiles : k < arg => argv[k].ver <= flashVer
  /\ flashVer = 0 \/ \E k \in CfFiles : flashVer = argv[k].ver

(* Each file read is in its list once, and what has been written has each  *)
(* loader of the sections behind the tool once.                            *)
IniInv ==
  /\ IniTypeOK
  /\ iniPc \notin {"read", "crashed"} => arg = Len(argv) + 1
  /\ ListsOnce(flashFiles, NamesOf("flash"))
  /\ ListsOnce(otherFiles, NamesOf("other"))
  /\ ListsOnce(flashBls, Slots)
  /\ iniPc # "done" => ListsOnce(ini, ShownLines)
  /\ iniPc = "done" => ListsOnce(ini, AllLines)
  /\ HighestSoFar

(* The files of the command line. *)
LEMMA ArgvFacts ==
  ASSUME IniTypeOK
  PROVE  /\ Len(argv) \in Nat /\ DOMAIN argv = 1..Len(argv) /\ arg \in 1..(Len(argv) + 1)
         /\ \A k \in 1..Len(argv) : IsImageFile(argv[k])
         /\ \A j, k \in 1..Len(argv) : argv[j].name = argv[k].name => j = k
         /\ \A kind : \A k \in Of(kind) : k \in 1..Len(argv) /\ k < arg
<1>1. /\ Len(argv) \in 0..255 /\ DOMAIN argv = 1..Len(argv) /\ arg \in 1..(Len(argv) + 1)
      /\ \A k \in DOMAIN argv : IsImageFile(argv[k])
      /\ \A j, k \in DOMAIN argv : argv[j].name = argv[k].name => j = k
  BY IniAssumption DEF IniTypeOK
<1>2. Len(argv) \in Nat /\ \A k \in 1..(arg - 1) : k \in 1..Len(argv) /\ k < arg
  BY <1>1
<1>3. \A kind : \A k \in Of(kind) : k \in 1..Len(argv) /\ k < arg
  BY <1>2 DEF Of
<1> QED BY <1>1, <1>2, <1>3

(* The members of a list. *)
LEMMA ListsFacts ==
  ASSUME NEW q, NEW S, ListsOnce(q, S)
  PROVE  q \in Seq(S) /\ Len(q) \in Nat /\ DOMAIN q = 1..Len(q) /\ \A j \in 1..Len(q) : q[j] \in S
BY LenProperties, ElementOfSeq DEF ListsOnce

(* At the start nothing is listed. *)
LEMMA IniInitInv == IniInit => IniInv
<1> SUFFICES ASSUME IniInit PROVE IniInv
  OBVIOUS
<1>1. Len(argv) \in Nat /\ Len(<< >>) = 0
  BY IniAssumption, EmptySeq DEF IniInit
<1>2. IniTypeOK
  BY <1>1 DEF IniInit, IniTypeOK
<1>3. \A kind : Of(kind) = {}
  BY DEF IniInit, Of
<1>4. NamesOf("flash") = {} /\ NamesOf("other") = {} /\ Slots = {}
  BY <1>3 DEF NamesOf, Slots
<1>5. ShownLines = {}
  BY <1>3 DEF ShownLines, SectionLines, Fitting
<1>6. HighestSoFar
  BY <1>1 DEF IniInit, HighestSoFar, CfFiles
<1> QED BY <1>2, <1>4, <1>5, <1>6, ListsNothing DEF IniInit, IniInv

(* Before the sections a slot has its magic if the loader is proper. *)
LEMMA FirstSlot ==
  ASSUME \A s \in 1..6 : ~Past(s), NEW k
  PROVE  Slot(k) = [name |-> argv[k].name, letter |-> argv[k].letter, ver |-> argv[k].ver,
                    magic |-> ProperBl(argv[k])]
<1>1. ~WasShown(argv[k]) /\ ProperBl(argv[k]) \in BOOLEAN
  BY DEF WasShown, ProperBl
<1>2. (ProperBl(argv[k]) /\ ~WasShown(argv[k])) = ProperBl(argv[k])
  BY <1>1
<1> QED BY <1>2 DEF Slot

(* While files are read no section is behind the tool. *)
LEMMA ReadingFacts ==
  ASSUME IniInv, Reading
  PROVE  /\ arg \in 1..Len(argv) /\ \A s \in 1..6 : ~Past(s)
         /\ \A kind : File.name \notin NamesOf(kind)
         /\ Slots = {[name |-> argv[k].name, letter |-> argv[k].letter, ver |-> argv[k].ver,
                      magic |-> ProperBl(argv[k])] : k \in Of("bl")}
         /\ ShownLines = {} /\ File = argv[arg] /\ IsImageFile(File)
<1>1. /\ Len(argv) \in Nat /\ DOMAIN argv = 1..Len(argv)
      /\ \A k \in 1..Len(argv) : IsImageFile(argv[k])
      /\ \A j, k \in 1..Len(argv) : argv[j].name = argv[k].name => j = k
      /\ \A kind : \A k \in Of(kind) : k \in 1..Len(argv) /\ k < arg
  BY ArgvFacts DEF IniInv
<1>2. arg \in 1..Len(argv) /\ iniPc = "read" /\ File = argv[arg]
  BY <1>1 DEF Reading, File
<1>3. \A s \in 1..6 : ~Past(s)
  BY <1>2, SectionFacts DEF Past
<1>4. \A kind : File.name \notin NamesOf(kind)
  BY <1>1, <1>2 DEF NamesOf
<1>5. ShownLines = {}
  BY <1>3 DEF ShownLines
<1>6. \A k : Slot(k) = [name |-> argv[k].name, letter |-> argv[k].letter, ver |-> argv[k].ver,
                        magic |-> ProperBl(argv[k])]
  BY <1>3, FirstSlot
<1> QED BY <1>1, <1>2, <1>3, <1>4, <1>5, <1>6 DEF Slots

(* One file more. *)
LEMMA OneMoreFile ==
  ASSUME IniInv, Reading, arg' = arg + 1, argv' = argv, iniPc' = iniPc
  PROVE  /\ \A kind : Of(kind)' = IF File.kind = kind THEN Of(kind) \cup {arg} ELSE Of(kind)
         /\ \A kind : NamesOf(kind)' = IF File.kind = kind THEN NamesOf(kind) \cup {File.name}
                                       ELSE NamesOf(kind)
         /\ Slots' = IF File.kind = "bl"
                     THEN Slots \cup {[name |-> File.name, letter |-> File.letter,
                                       ver |-> File.ver, magic |-> ProperBl(File)]}
                     ELSE Slots
         /\ ShownLines' = {} /\ CfFiles' = CfFiles
         /\ arg' \in 1..(Len(argv') + 1)
<1>1. /\ arg \in 1..Len(argv) /\ Len(argv) \in Nat /\ File = argv[arg]
      /\ \A s \in 1..6 : ~Past(s)
  BY ReadingFacts, ArgvFacts DEF IniInv
<1>2. 1..(arg' - 1) = 1..(arg - 1) \cup {arg}
  BY <1>1
<1>3. \A kind : Of(kind)' = IF File.kind = kind THEN Of(kind) \cup {arg} ELSE Of(kind)
  BY <1>1, <1>2 DEF Of
<1>4. \A kind : NamesOf(kind)' = IF File.kind = kind THEN NamesOf(kind) \cup {File.name}
                                 ELSE NamesOf(kind)
  BY <1>1, <1>3 DEF NamesOf
<1>5. \A s \in 1..6 : ~Past(s)'
  BY <1>1 DEF Past
<1>6. \A f : WasShown(f)' = WasShown(f)
  BY <1>1, <1>5 DEF WasShown
<1>7. \A k : Slot(k)' = Slot(k)
  BY <1>6 DEF Slot, ProperBl
<1>8. \A k : Slot(k) = [name |-> argv[k].name, letter |-> argv[k].letter, ver |-> argv[k].ver,
                        magic |-> ProperBl(argv[k])]
  BY <1>1, FirstSlot
<1>9. Slots' = {Slot(k) : k \in Of("bl")'}
  BY <1>7 DEF Slots
<1>10. Slots' = IF File.kind = "bl" THEN Slots \cup {Slot(arg)} ELSE Slots
  BY <1>3, <1>9 DEF Slots
<1>11. ShownLines' = {}
  BY <1>5 DEF ShownLines
<1>12. CfFiles' = CfFiles
  BY DEF CfFiles, ProperBl
<1>13. arg' \in 1..(Len(argv') + 1)
  BY <1>1
<1>14. Slots' = IF File.kind = "bl"
                THEN Slots \cup {[name |-> File.name, letter |-> File.letter,
                                  ver |-> File.ver, magic |-> ProperBl(File)]}
                ELSE Slots
  BY <1>1, <1>8, <1>10
<1> QED BY <1>3, <1>4, <1>11, <1>12, <1>13, <1>14

(* A flash file. *)
LEMMA FlashInv == IniInv /\ ProcessFlash => IniInv'
<1> SUFFICES ASSUME IniInv, ProcessFlash PROVE IniInv'
  OBVIOUS
<1>1. /\ Reading /\ File.kind = "flash" /\ flashFiles' = Append(flashFiles, File.name)
      /\ arg' = arg + 1 /\ argv' = argv /\ iniPc' = iniPc /\ iniPc = "read"
      /\ otherFiles' = otherFiles /\ flashBls' = flashBls /\ flashVer' = flashVer /\ ini' = ini
  BY DEF ProcessFlash, Reading
<1>2. /\ NamesOf("flash")' = NamesOf("flash") \cup {File.name} /\ NamesOf("other")' = NamesOf("other")
      /\ Slots' = Slots /\ ShownLines' = {} /\ CfFiles' = CfFiles /\ arg' \in 1..(Len(argv') + 1)
  BY <1>1, OneMoreFile
<1>3. File.name \notin NamesOf("flash") /\ ShownLines = {}
  BY <1>1, ReadingFacts
<1>4. ListsOnce(flashFiles', NamesOf("flash")')
  BY <1>1, <1>2, <1>3, OneMoreListed DEF IniInv
<1>5. HighestSoFar'
  <2>1. \A k \in CfFiles : k < arg' => k < arg \/ k = arg
    BY <1>1, ArgvFacts DEF IniInv, CfFiles
  <2>2. arg \notin CfFiles
    BY <1>1 DEF CfFiles, File
  <2> QED BY <1>1, <1>2, <2>1, <2>2 DEF IniInv, HighestSoFar
<1>6. IniTypeOK'
  <2>1. flashFiles \in Seq(NamesOf("flash")) /\ Len(flashFiles) \in Nat
        /\ Len(otherFiles) \in Nat /\ Len(flashBls) \in Nat
    BY ListsFacts DEF IniInv
  <2>2. Len(flashFiles') = Len(flashFiles) + 1
    BY <1>1, <2>1
  <2> QED BY <1>1, <1>2, <2>1, <2>2 DEF IniInv, IniTypeOK, SectionNames
<1> QED BY <1>1, <1>2, <1>3, <1>4, <1>5, <1>6 DEF IniInv

(* A file of no known kind. *)
LEMMA OtherInv == IniInv /\ ProcessOther => IniInv'
<1> SUFFICES ASSUME IniInv, ProcessOther PROVE IniInv'
  OBVIOUS
<1>1. /\ Reading /\ File.kind = "other" /\ otherFiles' = Append(otherFiles, File.name)
      /\ arg' = arg + 1 /\ argv' = argv /\ iniPc' = iniPc /\ iniPc = "read"
      /\ flashFiles' = flashFiles /\ flashBls' = flashBls /\ flashVer' = flashVer /\ ini' = ini
  BY DEF ProcessOther, Reading
<1>2. /\ NamesOf("other")' = NamesOf("other") \cup {File.name} /\ NamesOf("flash")' = NamesOf("flash")
      /\ Slots' = Slots /\ ShownLines' = {} /\ CfFiles' = CfFiles /\ arg' \in 1..(Len(argv') + 1)
  BY <1>1, OneMoreFile
<1>3. File.name \notin NamesOf("other") /\ ShownLines = {}
  BY <1>1, ReadingFacts
<1>4. ListsOnce(otherFiles', NamesOf("other")')
  BY <1>1, <1>2, <1>3, OneMoreListed DEF IniInv
<1>5. HighestSoFar'
  <2>1. \A k \in CfFiles : k < arg' => k < arg \/ k = arg
    BY <1>1, ArgvFacts DEF IniInv, CfFiles
  <2>2. arg \notin CfFiles
    BY <1>1 DEF CfFiles, File
  <2> QED BY <1>1, <1>2, <2>1, <2>2 DEF IniInv, HighestSoFar
<1>6. IniTypeOK'
  <2>1. otherFiles \in Seq(NamesOf("other")) /\ Len(flashFiles) \in Nat
        /\ Len(otherFiles) \in Nat /\ Len(flashBls) \in Nat
    BY ListsFacts DEF IniInv
  <2>2. Len(otherFiles') = Len(otherFiles) + 1
    BY <1>1, <2>1
  <2> QED BY <1>1, <1>2, <2>1, <2>2 DEF IniInv, IniTypeOK, SectionNames
<1> QED BY <1>1, <1>2, <1>3, <1>4, <1>5, <1>6 DEF IniInv

(* A boot loader, proper or not. *)
LEMMA BlInv == IniInv /\ ProcessBl => IniInv'
<1> SUFFICES ASSUME IniInv, ProcessBl PROVE IniInv'
  OBVIOUS
<1> DEFINE new == [name |-> File.name, letter |-> File.letter,
                   ver |-> File.ver, magic |-> ProperBl(File)]
<1>1. /\ Reading /\ File.kind = "bl" /\ flashBls' = Append(flashBls, new)
      /\ arg' = arg + 1 /\ argv' = argv /\ iniPc' = iniPc /\ iniPc = "read"
      /\ flashFiles' = flashFiles /\ otherFiles' = otherFiles /\ ini' = ini
  BY DEF ProcessBl, Reading
<1>2. /\ NamesOf("other")' = NamesOf("other") /\ NamesOf("flash")' = NamesOf("flash")
      /\ Slots' = Slots \cup {new} /\ ShownLines' = {} /\ CfFiles' = CfFiles
      /\ arg' \in 1..(Len(argv') + 1)
  BY <1>1, OneMoreFile
<1>3. new \notin Slots /\ ShownLines = {}
  <2>1. /\ File.name \notin NamesOf("bl") /\ ShownLines = {}
        /\ Slots = {[name |-> argv[k].name, letter |-> argv[k].letter, ver |-> argv[k].ver,
                     magic |-> ProperBl(argv[k])] : k \in Of("bl")}
    BY <1>1, ReadingFacts
  <2>2. \A b \in Slots : b.name \in NamesOf("bl")
    BY <2>1 DEF NamesOf
  <2>3. new.name = File.name
    OBVIOUS
  <2> HIDE DEF new
  <2> QED BY <2>1, <2>2, <2>3
<1>4. ListsOnce(flashBls', Slots')
  <2> HIDE DEF new
  <2> QED BY <1>1, <1>2, <1>3, OneMoreListed DEF IniInv
<1>5. HighestSoFar'
  <2>1. \A k \in CfFiles : k < arg' => k < arg \/ k = arg
    BY <1>1, ArgvFacts DEF IniInv, CfFiles
  <2>2. arg \in 1..Len(argv) /\ File = argv[arg] /\ File.ver \in Nat
    BY <1>1, ReadingFacts DEF IsImageFile
  <2>3. arg \in CfFiles <=> ProperBl(File) /\ BlTyp(File.letter) = CF
    BY <1>1, <2>2 DEF CfFiles
  <2>4. flashVer' = IF arg \in CfFiles /\ File.ver > flashVer THEN File.ver ELSE flashVer
    BY <2>3 DEF ProcessBl
  <2>5. /\ flashVer \in Nat /\ \A k \in CfFiles : k < arg => argv[k].ver <= flashVer
        /\ flashVer = 0 \/ \E k \in CfFiles : flashVer = argv[k].ver
    BY DEF IniInv, HighestSoFar
  <2>6. \A k \in CfFiles : argv[k].ver \in Nat
    BY ArgvFacts DEF IniInv, CfFiles, IsImageFile
  <2>7. \A k \in CfFiles : k < arg' => argv[k].ver <= flashVer'
    BY <2>1, <2>2, <2>4, <2>5, <2>6
  <2>8. flashVer' \in Nat /\ (flashVer' = 0 \/ \E k \in CfFiles : flashVer' = argv[k].ver)
    BY <2>2, <2>4, <2>5
  <2> QED BY <1>1, <1>2, <2>7, <2>8 DEF HighestSoFar
<1>6. IniTypeOK'
  <2>1. flashBls \in Seq(Slots) /\ Len(flashFiles) \in Nat
        /\ Len(otherFiles) \in Nat /\ Len(flashBls) \in Nat
    BY ListsFacts DEF IniInv
  <2>2. Len(flashBls') = Len(flashBls) + 1
    BY <1>1, <2>1
  <2> QED BY <1>1, <1>2, <2>1, <2>2 DEF IniInv, IniTypeOK, SectionNames
<1> QED BY <1>1, <1>2, <1>3, <1>4, <1>5, <1>6 DEF IniInv

(* A file that cannot be read is left out. *)
LEMMA UnreadableInv == IniInv /\ Unreadable => IniInv'
<1> SUFFICES ASSUME IniInv, Unreadable PROVE IniInv'
  OBVIOUS
<1>1. /\ Reading /\ File.kind = "none" /\ flashBls' = flashBls
      /\ arg' = arg + 1 /\ argv' = argv /\ iniPc' = iniPc /\ iniPc = "read"
      /\ flashFiles' = flashFiles /\ otherFiles' = otherFiles /\ flashVer' = flashVer /\ ini' = ini
  BY DEF Unreadable, Reading
<1>2. /\ NamesOf("other")' = NamesOf("other") /\ NamesOf("flash")' = NamesOf("flash")
      /\ Slots' = Slots /\ ShownLines' = {} /\ CfFiles' = CfFiles /\ arg' \in 1..(Len(argv') + 1)
  BY <1>1, OneMoreFile
<1>3. ShownLines = {}
  BY <1>1, ReadingFacts
<1>4. HighestSoFar'
  <2>1. \A k \in CfFiles : k < arg' => k < arg \/ k = arg
    BY <1>1, ArgvFacts DEF IniInv, CfFiles
  <2>2. arg \notin CfFiles
    BY <1>1 DEF CfFiles, File
  <2> QED BY <1>1, <1>2, <2>1, <2>2 DEF IniInv, HighestSoFar
<1>5. IniTypeOK'
  <2>1. Len(flashFiles) \in Nat /\ Len(otherFiles) \in Nat /\ Len(flashBls) \in Nat
    BY ListsFacts DEF IniInv
  <2> QED BY <1>1, <1>2, <2>1 DEF IniInv, IniTypeOK, SectionNames
<1> QED BY <1>1, <1>2, <1>3, <1>4, <1>5 DEF IniInv

(* Only the place in the program changes, and no section gets behind it. *)
LEMMA SamePlaceInv ==
  ASSUME IniInv, iniPc = "read",
         iniPc' = "crashed" \/ (iniPc' = Sections[1] /\ arg = Len(argv) + 1),
         UNCHANGED <<argv, arg, flashFiles, otherFiles, flashBls, flashVer, ini>>
  PROVE  IniInv'
<1>1. \A s \in 1..6 : ~Past(s) /\ ~Past(s)'
  BY SectionFacts DEF Past
<1>2. \A kind : Of(kind)' = Of(kind) /\ NamesOf(kind)' = NamesOf(kind)
  BY DEF Of, NamesOf
<1>3. Slots' = Slots
  <2>1. \A f : WasShown(f)' = WasShown(f)
    BY <1>1 DEF WasShown
  <2> QED BY <1>2, <2>1 DEF Slots, Slot, ProperBl
<1>4. ShownLines' = {} /\ ShownLines = {}
  BY <1>1 DEF ShownLines
<1>5. IniTypeOK' /\ iniPc' # "done"
  <2>1. SectionNames' = SectionNames /\ Sections[1] \in SectionNames /\ Sections[1] # "done"
    BY SectionFacts DEF SectionNames
  <2> QED BY <2>1 DEF IniInv, IniTypeOK
<1>6. HighestSoFar'
  BY DEF IniInv, HighestSoFar, CfFiles, ProperBl
<1>7. iniPc' \notin {"read", "crashed"} => arg' = Len(argv') + 1
  OBVIOUS
<1> QED BY <1>2, <1>3, <1>4, <1>5, <1>6, <1>7 DEF IniInv

(* A name without a path. *)
LEMMA NoPathInv == IniInv /\ NoPath => IniInv'
<1> SUFFICES ASSUME IniInv, NoPath PROVE IniInv'
  OBVIOUS
<1>1. /\ iniPc = "read" /\ iniPc' = "crashed"
      /\ UNCHANGED <<argv, arg, flashFiles, otherFiles, flashBls, flashVer, ini>>
  BY DEF NoPath, Reading
<1> QED BY <1>1, SamePlaceInv

(* All files are read. *)
LEMMA StartOutputInv == IniInv /\ StartOutput => IniInv'
<1> SUFFICES ASSUME IniInv, StartOutput PROVE IniInv'
  OBVIOUS
<1>1. arg = Len(argv) + 1
  BY ArgvFacts DEF IniInv, StartOutput
<1> QED BY <1>1, SamePlaceInv DEF StartOutput

(* What shows one section changes. *)
LEMMA SectionPassed ==
  ASSUME IniInv, NEW s \in 1..6, iniPc = Sections[s],
         iniPc' = IF s = 6 THEN "rest" ELSE Sections[s + 1]
  PROVE  /\ \A t \in 1..6 : (Past(t) <=> t < s) /\ (Past(t)' <=> t < s \/ t = s)
         /\ \A f : WasShown(f)' <=> WasShown(f) \/ Fits(f, s)
         /\ \A k \in 1..Len(argv) : Fits(argv[k], s) => ~WasShown(argv[k])
<1>1. \A t \in 1..6 : Past(t) <=> t < s
  BY SectionFacts DEF Past
<1>2. \A t \in 1..6 : Past(t)' <=> t < s \/ t = s
  <2>1. CASE s = 6
    BY SectionFacts, <2>1 DEF Past
  <2>2. CASE s # 6
    <3>1. s + 1 \in 1..6 /\ iniPc' = Sections[s + 1]
      BY <2>2
    <3>2. iniPc' \notin {"rest", "done"}
      BY <3>1, SectionFacts
    <3>3. \A u \in 1..6 : iniPc' = Sections[u] <=> u = s + 1
      BY <3>1, SectionFacts
    <3>4. \A t \in 1..6 : Past(t)' <=> t < s + 1
      BY <3>1, <3>2, <3>3 DEF Past
    <3> QED BY <3>4
  <2> QED BY <2>1, <2>2
<1>3. \A f : WasShown(f)' <=> WasShown(f) \/ Fits(f, s)
  BY <1>1, <1>2 DEF WasShown, Fits
<1>4. ASSUME NEW k \in 1..Len(argv), Fits(argv[k], s), WasShown(argv[k]) PROVE FALSE
  <2>1. PICK t \in 1..6 : Past(t) /\ Fits(argv[k], t)
    BY <1>4 DEF WasShown
  <2>2. argv[k].ver \in Nat
    BY ArgvFacts DEF IniInv, IsImageFile
  <2>3. s = t
    BY <1>4, <2>1, <2>2, WithinOne DEF Fits
  <2> QED BY <1>1, <2>1, <2>3
<1> QED BY <1>1, <1>2, <1>3, <1>4

(* A slot loses its magic when it is shown. *)
LEMMA SlotMarked ==
  ASSUME IniInv, NEW s \in 1..6, iniPc = Sections[s],
         iniPc' = IF s = 6 THEN "rest" ELSE Sections[s + 1], argv' = argv,
         NEW k \in 1..Len(argv)
  PROVE  /\ Slot(k)' = Marked(Slot(k), Sections[s])
         /\ InSection(Slot(k), Sections[s]) <=> ProperBl(argv[k]) /\ Fits(argv[k], s)
<1> DEFINE f == argv[k]
<1>1. (WasShown(f)' <=> WasShown(f) \/ Fits(f, s)) /\ (Fits(f, s) => ~WasShown(f))
  BY SectionPassed
<1>2. /\ Slot(k).name = f.name /\ Slot(k).letter = f.letter /\ Slot(k).ver = f.ver
      /\ Slot(k).magic = (ProperBl(f) /\ ~WasShown(f))
  BY DEF Slot
<1>3. InSection(Slot(k), Sections[s]) <=> ProperBl(f) /\ Fits(f, s)
  BY <1>1, <1>2 DEF InSection, Fits
<1>4. ProperBl(f)' <=> ProperBl(f)
  BY DEF ProperBl
<1>5. (ProperBl(f) /\ ~WasShown(f))'
        = (Slot(k).magic /\ ~InSection(Slot(k), Sections[s]))
  BY <1>1, <1>2, <1>3, <1>4
<1>6. Slot(k)' = [name |-> f.name, letter |-> f.letter, ver |-> f.ver,
                 magic |-> (ProperBl(f) /\ ~WasShown(f))']
  BY DEF Slot
<1>7. Slot(k)' = Marked(Slot(k), Sections[s])
  BY <1>2, <1>5, <1>6 DEF Marked
<1> QED BY <1>3, <1>7

(* No two slots have the same name. *)
LEMMA SlotNames ==
  ASSUME IniInv
  PROVE  /\ \A b \in Slots : \E k \in Of("bl") : b = Slot(k) /\ b.name = argv[k].name
         /\ \A b, c \in Slots : b.name = c.name => b = c
         /\ \A j, k \in 1..Len(flashBls) : flashBls[j].name = flashBls[k].name => j = k
<1>1. \A j, k \in Of("bl") : argv[j].name = argv[k].name => j = k
  BY ArgvFacts DEF IniInv
<1>2. \A b \in Slots : \E k \in Of("bl") : b = Slot(k) /\ b.name = argv[k].name
  BY DEF Slots, Slot
<1>3. \A b, c \in Slots : b.name = c.name => b = c
  BY <1>1, <1>2
<1>4. \A j \in 1..Len(flashBls) : flashBls[j] \in Slots
  BY ListsFacts DEF IniInv
<1>5. \A j, k \in 1..Len(flashBls) : flashBls[j].name = flashBls[k].name => j = k
  BY <1>3, <1>4 DEF IniInv, ListsOnce
<1> QED BY <1>2, <1>3, <1>5

(* One section is written. *)
LEMMA DisplayInv == IniInv /\ DisplayBls => IniInv'
<1> SUFFICES ASSUME IniInv, DisplayBls PROVE IniInv'
  OBVIOUS
<1>1. PICK s \in 1..6 :
        /\ iniPc = Sections[s]
        /\ ini' = ini \o Shown(iniPc, {k \in 1..Len(flashBls) : InSection(flashBls[k], iniPc)})
        /\ flashBls' = [k \in 1..Len(flashBls) |-> Marked(flashBls[k], iniPc)]
        /\ iniPc' = IF s = 6 THEN "rest" ELSE Sections[s + 1]
        /\ UNCHANGED <<argv, arg, flashFiles, otherFiles, flashVer>>
  BY SectionFacts DEF DisplayBls
<1> DEFINE sec == Sections[s]
           chosen == {k \in 1..Len(flashBls) : InSection(flashBls[k], sec)}
<1>2. \A kind : Of(kind)' = Of(kind) /\ NamesOf(kind)' = NamesOf(kind)
  BY <1>1 DEF Of, NamesOf
<1>3. /\ \A b \in Slots : \E k \in Of("bl") : b = Slot(k) /\ b.name = argv[k].name
      /\ \A b, c \in Slots : b.name = c.name => b = c
      /\ \A j, k \in 1..Len(flashBls) : flashBls[j].name = flashBls[k].name => j = k
  BY SlotNames
<1>4. /\ Len(flashBls) \in Nat /\ \A j \in 1..Len(flashBls) : flashBls[j] \in Slots
      /\ \A b \in Slots : \E j \in 1..Len(flashBls) : flashBls[j] = b
  BY ListsFacts DEF IniInv, ListsOnce
<1>5. \A k \in Of("bl") : /\ Slot(k)' = Marked(Slot(k), sec) /\ Slot(k) \in Slots
                          /\ InSection(Slot(k), sec) <=> ProperBl(argv[k]) /\ Fits(argv[k], s)
  <2>1. \A k \in Of("bl") : k \in 1..Len(argv)
    BY ArgvFacts DEF IniInv
  <2> QED BY <1>1, <2>1, SlotMarked DEF Slots
<1>6. ListsOnce(flashBls', Slots')
  <2> DEFINE F == [b \in Slots |-> Marked(b, sec)]
  <2>1. Slots' = {Slot(k)' : k \in Of("bl")}
    BY <1>2 DEF Slots
  <2> DEFINE T == Slots'
  <2>2. \A b \in Slots : F[b] = Marked(b, sec) /\ F[b] \in T /\ F[b].name = b.name
    BY <1>3, <1>5, <2>1 DEF Marked
  <2>3. F \in [Slots -> T]
    BY <2>2
  <2>4. \A y \in T : \E b \in Slots : F[b] = y
    BY <1>5, <2>1, <2>2
  <2>5. \A b, c \in Slots : F[b] = F[c] => b = c
    BY <1>3, <2>2
  <2>6. flashBls' = [j \in 1..Len(flashBls) |-> F[flashBls[j]]]
    BY <1>1, <1>4, <2>2
  <2> HIDE DEF F, T
  <2>7. ListsOnce([j \in 1..Len(flashBls) |-> F[flashBls[j]]], T)
    BY <2>3, <2>4, <2>5, MapListed DEF IniInv
  <2> QED BY <2>6, <2>7 DEF T
<1>7. {Line(sec, flashBls[j].name) : j \in chosen} = SectionLines(s)
  <2> DEFINE M == {Line(sec, flashBls[j].name) : j \in chosen}
  <2>1. ASSUME NEW j \in chosen PROVE Line(sec, flashBls[j].name) \in SectionLines(s)
    <3>1. PICK k \in Of("bl") : flashBls[j] = Slot(k) /\ flashBls[j].name = argv[k].name
      BY <1>3, <1>4
    <3>2. k \in Fitting(s)
      BY <1>5, <2>1, <3>1 DEF Fitting
    <3> QED BY <3>1, <3>2 DEF SectionLines
  <2>2. ASSUME NEW k \in Fitting(s) PROVE Line(sec, argv[k].name) \in M
    <3>1. k \in Of("bl") /\ InSection(Slot(k), sec) /\ Slot(k) \in Slots
      BY <1>5 DEF Fitting
    <3>2. PICK j \in 1..Len(flashBls) : flashBls[j] = Slot(k)
      BY <1>4, <3>1
    <3>3. flashBls[j].name = argv[k].name
      BY <3>2 DEF Slot
    <3> QED BY <3>1, <3>2, <3>3
  <2> QED BY <2>1, <2>2 DEF SectionLines
<1>8. ListsOnce(Shown(sec, chosen), SectionLines(s))
  <2>1. chosen \subseteq 1..Len(flashBls)
    OBVIOUS
  <2> HIDE DEF sec, chosen
  <2> QED BY <1>3, <1>4, <1>7, <2>1, ShownListed
<1>9. /\ \A t \in 1..6 : (Past(t) <=> t < s) /\ (Past(t)' <=> t < s \/ t = s)
  BY <1>1, SectionPassed
<1>10. ShownLines' = ShownLines \cup SectionLines(s)
  <2>1. \A t : SectionLines(t)' = SectionLines(t)
    BY <1>1, <1>2 DEF SectionLines, Fitting, ProperBl, Fits
  <2>2. ShownLines' = UNION {SectionLines(t) : t \in {u \in 1..6 : u < s \/ u = s}}
    BY <1>9, <2>1 DEF ShownLines
  <2>3. ShownLines = UNION {SectionLines(t) : t \in {u \in 1..6 : u < s}}
    BY <1>9 DEF ShownLines
  <2> QED BY <2>2, <2>3
<1>11. ShownLines \cap SectionLines(s) = {}
  <2>1. \A l \in ShownLines : \E t \in 1..6 : t < s /\ l.section = Sections[t]
    BY <1>9 DEF ShownLines, SectionLines, Line
  <2>2. \A l \in SectionLines(s) : l.section = Sections[s]
    BY DEF SectionLines, Line
  <2> QED BY <2>1, <2>2, SectionFacts
<1>12. iniPc # "done" /\ iniPc' # "done"
  BY <1>1, SectionFacts
<1>13. ListsOnce(ini', ShownLines')
  <2>1. ListsOnce(ini, ShownLines) /\ ini' = ini \o Shown(sec, chosen)
    BY <1>1, <1>12 DEF IniInv
  <2> HIDE DEF sec, chosen
  <2> QED BY <1>8, <1>10, <1>11, <2>1, ListedBehind
<1>14. IniTypeOK'
  <2>1. Len(flashBls') = Len(flashBls)
    <3>1. DOMAIN flashBls' = 1..Len(flashBls)
      BY <1>1
    <3>2. Len(flashBls') \in Nat /\ DOMAIN flashBls' = 1..Len(flashBls')
      BY <1>6, ListsFacts
    <3> QED BY <1>4, <3>1, <3>2
  <2>2. iniPc' \in SectionNames' \cup {"read", "rest", "done", "crashed"}
    <3>1. SectionNames' = {Sections[t] : t \in 1..6}
      BY SectionFacts DEF SectionNames
    <3>2. s # 6 => s + 1 \in 1..6
      OBVIOUS
    <3> QED BY <1>1, <3>1, <3>2
  <2> QED BY <1>1, <2>1, <2>2 DEF IniInv, IniTypeOK
<1>15. HighestSoFar'
  BY <1>1 DEF IniInv, HighestSoFar, CfFiles, ProperBl
<1>16. arg' = Len(argv') + 1
  <2>1. iniPc \notin {"read", "crashed"}
    BY <1>1, SectionFacts
  <2> QED BY <1>1, <2>1 DEF IniInv
<1>17. ListsOnce(flashFiles', NamesOf("flash")') /\ ListsOnce(otherFiles', NamesOf("other")')
  BY <1>1, <1>2 DEF IniInv
<1> QED BY <1>6, <1>12, <1>13, <1>14, <1>15, <1>16, <1>17 DEF IniInv

(* The leftovers and the other files are written. *)
LEMMA RestInv == IniInv /\ ShowRest => IniInv'
<1> SUFFICES ASSUME IniInv, ShowRest PROVE IniInv'
  OBVIOUS
<1> DEFINE chosen == {k \in 1..Len(flashBls) : flashBls[k].magic}
           rest == Shown("commonbl", chosen)
           flash == Lines("flash", flashFiles)
           unknown == Lines("unknown", otherFiles)
<1>1. /\ iniPc = "rest" /\ iniPc' = "done"
      /\ ini' = ((ini \o rest) \o flash) \o unknown
      /\ UNCHANGED <<argv, arg, flashFiles, otherFiles, flashBls, flashVer>>
  BY DEF ShowRest
<1>2. \A kind : Of(kind)' = Of(kind) /\ NamesOf(kind)' = NamesOf(kind)
  BY <1>1 DEF Of, NamesOf
<1>3. \A s \in 1..6 : Past(s) /\ Past(s)'
  BY <1>1 DEF Past
<1>4. \A f : WasShown(f)' = WasShown(f)
  BY <1>3 DEF WasShown
<1>5. Slots' = Slots
  BY <1>1, <1>2, <1>4 DEF Slots, Slot, ProperBl
<1>6. ShownLines' = ShownLines
  <2>1. \A t : SectionLines(t)' = SectionLines(t)
    BY <1>1, <1>2 DEF SectionLines, Fitting, ProperBl, Fits
  <2> QED BY <1>3, <2>1 DEF ShownLines
<1>7. AllLines' = AllLines
  <2>1. Leftovers' = Leftovers
    BY <1>1, <1>2, <1>4 DEF Leftovers, ProperBl
  <2>2. RestLines' = RestLines
    BY <1>1, <2>1 DEF RestLines
  <2>3. \A section, kind : KindLines(section, kind)' = KindLines(section, kind)
    BY <1>2 DEF KindLines
  <2> QED BY <1>6, <2>2, <2>3 DEF AllLines
<1>8. /\ Len(flashBls) \in Nat /\ \A j \in 1..Len(flashBls) : flashBls[j] \in Slots
      /\ \A b \in Slots : \E j \in 1..Len(flashBls) : flashBls[j] = b
  BY ListsFacts DEF IniInv, ListsOnce
<1>9. {Line("commonbl", flashBls[j].name) : j \in chosen} = RestLines
  <2> DEFINE M == {Line("commonbl", flashBls[j].name) : j \in chosen}
  <2>1. \A k : Slot(k).name = argv[k].name /\ (Slot(k).magic <=> ProperBl(argv[k]) /\ ~WasShown(argv[k]))
    BY DEF Slot
  <2>2. ASSUME NEW j \in chosen PROVE Line("commonbl", flashBls[j].name) \in RestLines
    <3>1. PICK k \in Of("bl") : flashBls[j] = Slot(k)
      BY <1>8, SlotNames
    <3>2. k \in Leftovers /\ flashBls[j].name = argv[k].name
      BY <2>1, <2>2, <3>1 DEF Leftovers
    <3> QED BY <3>2 DEF RestLines
  <2>3. ASSUME NEW k \in Leftovers PROVE Line("commonbl", argv[k].name) \in M
    <3>1. Slot(k) \in Slots /\ Slot(k).magic
      BY <2>1 DEF Leftovers, Slots
    <3>2. PICK j \in 1..Len(flashBls) : flashBls[j] = Slot(k)
      BY <1>8, <3>1
    <3> QED BY <2>1, <3>1, <3>2
  <2> QED BY <2>2, <2>3 DEF RestLines
<1>10. ListsOnce(rest, RestLines)
  <2> DEFINE section == "commonbl"
  <2>1. chosen \subseteq 1..Len(flashBls)
    OBVIOUS
  <2>2. \A j, k \in 1..Len(flashBls) : flashBls[j].name = flashBls[k].name => j = k
    BY SlotNames
  <2>3. {Line(section, flashBls[j].name) : j \in chosen} = RestLines
    BY <1>9
  <2>4. Len(flashBls) \in Nat
    BY <1>8
  <2> HIDE DEF chosen, section, rest, flash, unknown
  <2>5. ListsOnce(Shown(section, chosen), RestLines)
    BY <2>1, <2>2, <2>3, <2>4, ShownListed
  <2> QED BY <2>5 DEF section, rest
<1>11. ListsOnce(flash, KindLines("flash", "flash")) /\ ListsOnce(unknown, KindLines("unknown", "other"))
  BY LinesListed DEF IniInv, KindLines
<1>12. ListsOnce(ini, ShownLines)
  BY <1>1 DEF IniInv
<1>13. /\ \A l \in ShownLines : \E s \in 1..6 : l.section = Sections[s]
       /\ \A l \in RestLines : l.section = "commonbl"
       /\ \A l \in KindLines("flash", "flash") : l.section = "flash"
       /\ \A l \in KindLines("unknown", "other") : l.section = "unknown"
  BY DEF ShownLines, SectionLines, RestLines, KindLines, Line
<1>14. /\ ShownLines \cap RestLines = {}
       /\ (ShownLines \cup RestLines) \cap KindLines("flash", "flash") = {}
       /\ ((ShownLines \cup RestLines) \cup KindLines("flash", "flash"))
             \cap KindLines("unknown", "other") = {}
  BY <1>13, SectionFacts
<1>15. ListsOnce(ini', AllLines)
  <2> DEFINE F == KindLines("flash", "flash")
             U == KindLines("unknown", "other")
  <2> HIDE DEF rest, flash, unknown, F, U
  <2>1. ListsOnce(ini \o rest, ShownLines \cup RestLines)
    BY <1>10, <1>12, <1>14, ListedBehind
  <2>2. ListsOnce((ini \o rest) \o flash, (ShownLines \cup RestLines) \cup F)
    BY <1>11, <1>14, <2>1, ListedBehind DEF F
  <2>3. ListsOnce(((ini \o rest) \o flash) \o unknown, ((ShownLines \cup RestLines) \cup F) \cup U)
    BY <1>11, <1>14, <2>2, ListedBehind DEF F, U
  <2> QED BY <1>1, <2>3 DEF AllLines, F, U
<1>16. IniTypeOK' /\ HighestSoFar'
  BY <1>1 DEF IniInv, IniTypeOK, SectionNames, HighestSoFar, CfFiles, ProperBl
<1>17. arg' = Len(argv') + 1
  BY <1>1 DEF IniInv
<1> HIDE DEF rest, flash, unknown, chosen
<1> QED BY <1>1, <1>2, <1>5, <1>7, <1>15, <1>16, <1>17 DEF IniInv

(* A step changes what the invariant says together. *)
LEMMA IniStepInv == IniInv /\ [IniNext]_iniVars => IniInv'
<1> SUFFICES ASSUME IniInv, [IniNext]_iniVars PROVE IniInv'
  OBVIOUS
<1>1. CASE NoPath
  BY <1>1, NoPathInv
<1>2. CASE ProcessFlash
  BY <1>2, FlashInv
<1>3. CASE ProcessBl
  BY <1>3, BlInv
<1>4. CASE ProcessOther
  BY <1>4, OtherInv
<1>5. CASE Unreadable
  BY <1>5, UnreadableInv
<1>6. CASE StartOutput
  BY <1>6, StartOutputInv
<1>7. CASE DisplayBls
  BY <1>7, DisplayInv
<1>8. CASE ShowRest
  BY <1>8, RestInv
<1>9. CASE UNCHANGED iniVars
  <2>1. /\ argv' = argv /\ arg' = arg /\ flashFiles' = flashFiles /\ otherFiles' = otherFiles
        /\ flashBls' = flashBls /\ flashVer' = flashVer /\ ini' = ini /\ iniPc' = iniPc
    BY <1>9 DEF iniVars
  <2>2. \A kind : Of(kind)' = Of(kind) /\ NamesOf(kind)' = NamesOf(kind)
    BY <2>1 DEF Of, NamesOf
  <2>3. \A s : Past(s)' = Past(s)
    BY <2>1 DEF Past
  <2>4. \A f : WasShown(f)' = WasShown(f)
    BY <2>3 DEF WasShown
  <2>5. Slots' = Slots
    BY <2>1, <2>2, <2>4 DEF Slots, Slot, ProperBl
  <2>6. ShownLines' = ShownLines
    <3>1. \A t : SectionLines(t)' = SectionLines(t)
      BY <2>1, <2>2 DEF SectionLines, Fitting, ProperBl, Fits
    <3> QED BY <2>3, <3>1 DEF ShownLines
  <2>7. AllLines' = AllLines
    <3>1. Leftovers' = Leftovers
      BY <2>1, <2>2, <2>4 DEF Leftovers, ProperBl
    <3>2. RestLines' = RestLines
      BY <2>1, <3>1 DEF RestLines
    <3>3. \A section, kind : KindLines(section, kind)' = KindLines(section, kind)
      BY <2>2 DEF KindLines
    <3> QED BY <2>6, <3>2, <3>3 DEF AllLines
  <2>8. IniTypeOK' /\ HighestSoFar'
    BY <2>1 DEF IniInv, IniTypeOK, SectionNames, HighestSoFar, CfFiles, ProperBl
  <2> QED BY <2>1, <2>2, <2>5, <2>6, <2>7, <2>8 DEF IniInv
<1> QED BY <1>1, <1>2, <1>3, <1>4, <1>5, <1>6, <1>7, <1>8, <1>9 DEF IniNext

(* The section that a file is written to. *)
Placed(k, section) ==
  \/ argv[k].kind = "flash" /\ section = "flash"
  \/ argv[k].kind = "other" /\ section = "unknown"
  \/ /\ argv[k].kind = "bl" /\ ProperBl(argv[k])
     /\ \/ \E s \in 1..6 : Fits(argv[k], s) /\ section = Sections[s]
        \/ (\A s \in 1..6 : ~Fits(argv[k], s)) /\ section = "commonbl"

(* Where IniExact lets a file stand. *)
Allowed(f, section) ==
  DocumentedSection(f, section) \/ (FirstOfThousand(f) /\ section = "commonbl")

(* There is one for each file, and it is allowed. *)
LEMMA PlacedRight ==
  ASSUME IniTypeOK, NEW k \in 1..Len(argv)
  PROVE  /\ \A a, b : Placed(k, a) /\ Placed(k, b) => a = b
         /\ \A a : Placed(k, a) => Allowed(argv[k], a)
         /\ Listable(argv[k]) => \E a : Placed(k, a)
<1> DEFINE f == argv[k]
<1>1. f.ver \in Nat
  BY ArgvFacts DEF IsImageFile
<1>2. \A s, t \in 1..6 : Fits(f, s) /\ Fits(f, t) => s = t
  BY <1>1, WithinOne DEF Fits
<1>3. \A a, b : Placed(k, a) /\ Placed(k, b) => a = b
  BY <1>2 DEF Placed
<1>4. ASSUME NEW a, Placed(k, a) PROVE Allowed(f, a)
  <2>1. CASE f.kind = "flash" /\ a = "flash"
    BY <2>1 DEF Allowed, DocumentedSection
  <2>2. CASE f.kind = "other" /\ a = "unknown"
    BY <2>2 DEF Allowed, DocumentedSection
  <2>3. CASE f.kind = "bl" /\ ProperBl(f) /\ \E s \in 1..6 : Fits(f, s) /\ a = Sections[s]
    <3>1. PICK s \in 1..6 : Fits(f, s) /\ a = Sections[s]
      BY <2>3
    <3>2. a \in SectionNames /\ f.letter \in {B, D}
      BY <3>1, SectionFacts DEF SectionNames, Fits
    <3>3. a \in Consoles(f.ver) \/ Consoles(f.ver) = {}
      BY <1>1, <3>1, ConsoleFacts DEF Fits
    <3> QED BY <2>3, <3>2, <3>3 DEF Allowed, DocumentedSection
  <2>4. CASE f.kind = "bl" /\ ProperBl(f) /\ (\A s \in 1..6 : ~Fits(f, s)) /\ a = "commonbl"
    <3>1. CASE f.letter \in {B, D}
      <4>1. f.ver % 1000 = 0 \/ Consoles(f.ver) = {}
        BY <1>1, <2>4, <3>1, ConsoleFacts DEF Fits
      <4> QED BY <2>4, <3>1, <4>1 DEF Allowed, DocumentedSection, FirstOfThousand
    <3>2. CASE f.letter \notin {B, D}
      BY <2>4, <3>2 DEF Allowed, DocumentedSection
    <3> QED BY <3>1, <3>2
  <2> QED BY <1>4, <2>1, <2>2, <2>3, <2>4 DEF Placed
<1>5. Listable(f) => \E a : Placed(k, a)
  BY DEF Listable, Placed
<1> QED BY <1>3, <1>4, <1>5

(* At the end the lines are those of the sections. *)
LEMMA LinesPlaced ==
  ASSUME IniInv, iniPc = "done"
  PROVE  /\ \A l \in AllLines : \E k \in 1..Len(argv) :
              Placed(k, l.section) /\ l = Line(l.section, argv[k].name)
         /\ \A k \in 1..Len(argv) : \A a : Placed(k, a) => Line(a, argv[k].name) \in AllLines
<1>1. /\ arg = Len(argv) + 1 /\ Len(argv) \in Nat
      /\ \A kind : \A k \in Of(kind) : k \in 1..Len(argv)
  BY ArgvFacts DEF IniInv
<1>2. \A kind : Of(kind) = {k \in 1..Len(argv) : argv[k].kind = kind}
  <2>1. 1..(arg - 1) = 1..Len(argv)
    BY <1>1
  <2> QED BY <2>1 DEF Of
<1>3. \A f : WasShown(f) <=> \E s \in 1..6 : Fits(f, s)
  BY DEF WasShown, Past
<1>4. \A s \in 1..6 : SectionLines(s) \subseteq AllLines
  BY DEF AllLines, ShownLines, Past
<1>5. ASSUME NEW l \in AllLines
      PROVE  \E k \in 1..Len(argv) : Placed(k, l.section) /\ l = Line(l.section, argv[k].name)
  <2>1. CASE l \in ShownLines
    <3>1. PICK s \in 1..6 : l \in SectionLines(s)
      BY <2>1 DEF ShownLines
    <3>2. PICK k \in Of("bl") :
            ProperBl(argv[k]) /\ Fits(argv[k], s) /\ l = Line(Sections[s], argv[k].name)
      BY <3>1 DEF SectionLines, Fitting
    <3>3. l.section = Sections[s]
      BY <3>2 DEF Line
    <3> QED BY <1>2, <3>2, <3>3 DEF Placed
  <2>2. CASE l \in RestLines
    <3>1. PICK k \in Of("bl") :
            ProperBl(argv[k]) /\ ~WasShown(argv[k]) /\ l = Line("commonbl", argv[k].name)
      BY <2>2 DEF RestLines, Leftovers
    <3>2. l.section = "commonbl"
      BY <3>1 DEF Line
    <3> QED BY <1>2, <1>3, <3>1, <3>2 DEF Placed
  <2>3. CASE l \in KindLines("flash", "flash")
    <3>1. PICK k \in Of("flash") : l = Line("flash", argv[k].name)
      BY <2>3 DEF KindLines, NamesOf
    <3>2. l.section = "flash"
      BY <3>1 DEF Line
    <3> QED BY <1>2, <3>1, <3>2 DEF Placed
  <2>4. CASE l \in KindLines("unknown", "other")
    <3>1. PICK k \in Of("other") : l = Line("unknown", argv[k].name)
      BY <2>4 DEF KindLines, NamesOf
    <3>2. l.section = "unknown"
      BY <3>1 DEF Line
    <3> QED BY <1>2, <3>1, <3>2 DEF Placed
  <2> QED BY <2>1, <2>2, <2>3, <2>4 DEF AllLines
<1>6. ASSUME NEW k \in 1..Len(argv), NEW a, Placed(k, a)
      PROVE  Line(a, argv[k].name) \in AllLines
  <2>1. CASE argv[k].kind = "flash" /\ a = "flash"
    BY <1>2, <2>1 DEF AllLines, KindLines, NamesOf
  <2>2. CASE argv[k].kind = "other" /\ a = "unknown"
    BY <1>2, <2>2 DEF AllLines, KindLines, NamesOf
  <2>3. CASE /\ argv[k].kind = "bl" /\ ProperBl(argv[k])
             /\ \E s \in 1..6 : Fits(argv[k], s) /\ a = Sections[s]
    BY <1>2, <1>4, <2>3 DEF SectionLines, Fitting
  <2>4. CASE /\ argv[k].kind = "bl" /\ ProperBl(argv[k])
             /\ (\A s \in 1..6 : ~Fits(argv[k], s)) /\ a = "commonbl"
    BY <1>2, <1>3, <2>4 DEF AllLines, RestLines, Leftovers
  <2> QED BY <1>6, <2>1, <2>2, <2>3, <2>4 DEF Placed
<1> QED BY <1>5, <1>6

(* The file written is the one meant. *)
LEMMA IniInvExact == IniInv => IniExact
<1> SUFFICES ASSUME IniInv, iniPc = "done" PROVE IniExact
  BY DEF IniExact
<1>1. /\ Len(argv) \in Nat /\ arg = Len(argv) + 1
      /\ \A j, k \in 1..Len(argv) : argv[j].name = argv[k].name => j = k
  BY ArgvFacts DEF IniInv
<1>2. ListsOnce(ini, AllLines)
  BY DEF IniInv
<1>3. ASSUME NEW k \in 1..Len(argv), Listable(argv[k])
      PROVE  \E n \in 1..Len(ini) :
               OnlyLine(n, argv[k].name) /\ Allowed(argv[k], ini[n].section)
  <2>1. PICK a : Placed(k, a)
    BY <1>3, PlacedRight DEF IniInv
  <2>2. Line(a, argv[k].name) \in AllLines
    BY <2>1, LinesPlaced
  <2>3. PICK n \in 1..Len(ini) : ini[n] = Line(a, argv[k].name)
    BY <1>2, <2>2 DEF ListsOnce
  <2>4. ini[n].section = a /\ ini[n].name = argv[k].name
    BY <2>3 DEF Line
  <2>5. ASSUME NEW m \in 1..Len(ini), ini[m].name = argv[k].name PROVE m = n
    <3>1. ini[m] \in AllLines
      BY <1>2, ListsFacts
    <3>2. PICK j \in 1..Len(argv) :
            Placed(j, ini[m].section) /\ ini[m] = Line(ini[m].section, argv[j].name)
      BY <3>1, LinesPlaced
    <3>3. ini[m].name = argv[j].name
      BY <3>2 DEF Line
    <3>4. j = k
      BY <1>1, <2>5, <3>3
    <3>5. ini[m].section = a
      BY <2>1, <3>2, <3>4, PlacedRight DEF IniInv
    <3>6. ini[m] = ini[n]
      BY <2>3, <3>2, <3>4, <3>5
    <3> QED BY <1>2, <3>6 DEF ListsOnce
  <2>6. Allowed(argv[k], a)
    BY <2>1, PlacedRight DEF IniInv
  <2> QED BY <2>4, <2>5, <2>6 DEF OnlyLine
<1>4. /\ \A k \in CfFiles : argv[k].ver <= flashVer
      /\ flashVer = 0 \/ \E k \in CfFiles : flashVer = argv[k].ver
  <2>1. \A k \in CfFiles : k < arg
    BY <1>1 DEF CfFiles
  <2> QED BY <2>1 DEF IniInv, HighestSoFar
<1> QED BY <1>3, <1>4 DEF IniExact, Allowed

(* main of ini_creator: for every command line of files with different     *)
(* names, every flash file, proper boot loader and unknown file stands in  *)
(* the ini once and in the section the comments give it, a CB or CD of the *)
(* first version of a thousand there or in commonbl; and the version is    *)
(* the highest.  Nothing is said of boot loaders that were refused.        *)
THEOREM IniIsExact == IniSpec => []IniExact
<1>1. IniInit => IniInv
  BY IniInitInv
<1>2. IniInv /\ [IniNext]_iniVars => IniInv'
  BY IniStepInv
<1>3. IniInv => IniExact
  BY IniInvExact
<1> QED BY <1>1, <1>2, <1>3, PTL DEF IniSpec

-------------------------------------------------------------------------------
(* scriptsetc. *)

(* The kind, layout and shift are small numbers. *)
LEMMA RegisterFields ==
  ASSUME NEW reg \in Nat
  PROVE  Kind(reg) \in 0..3 /\ Layout(reg) \in 0..3 /\ Shift(reg) \in Nat /\ Shift(reg) >= 23
<1>1. reg \div 2^17 \in Int /\ reg \div 2^4 \in Int
  OBVIOUS
<1>2. Kind(reg) \in 0..3
  BY DEF Kind
<1>3. Layout(reg) \in 0..3
  BY DEF Layout
<1>4. (reg \div 2^19) % 4 \in 0..3 /\ (reg \div 2^21) % 16 \in 0..15
  OBVIOUS
<1> QED BY <1>2, <1>3, <1>4 DEF Shift

(* Kind, layout and shift of the registers the source lists. *)
LEMMA RegisterList ==
  /\ Kind(\h00043000) = 2 /\ Layout(\h00043000) = 0
  /\ Kind(\h00023010) = 1 /\ Layout(\h00023010) = 1
  /\ Kind(\h008A3020) = 1 /\ Layout(\h008A3020) = 2 /\ Shift(\h008A3020) = 28
  /\ Kind(\h00AA3020) = 1 /\ Layout(\h00AA3020) = 2 /\ Shift(\h00AA3020) = 29
  /\ Kind(\h01198030) = 0 /\ Layout(\h01198030) = 3
  /\ Kind(\h01198010) = 0 /\ Layout(\h01198010) = 1
BY DEF Kind, Layout, Shift

(* The settings end inside the flash. *)
Inside == AddrConfig + LenConfig <= sfc.size_bytes

(* The blocks tile the flash. *)
Tiled ==
  /\ SizeBlocks * sfc.block_sz = sfc.size_bytes
  /\ BlockSizePhys * SizeBlocks = sfc.size_bytes + (sfc.size_bytes \div page_sz) * meta_sz

TilesAs(bytes, block, usable) ==
  sfc.size_bytes = bytes /\ sfc.block_sz = block /\ sfc.size_usable_fs = usable

(* Three sizes of small blocks, of 16, 32 and 64 megabytes, are tiled. *)
LEMMA SmallTiled ==
  ASSUME NEW mb,
         \/ TilesAs(16777216, 16384, 992) /\ mb = 16
         \/ TilesAs(33554432, 16384, 1984) /\ mb = 32
         \/ TilesAs(67108864, 16384, 3968) /\ mb = 64
  PROVE  Tiled /\ Inside /\ SizeMb = mb
BY SMT DEF TilesAs, Tiled, Inside, SizeBlocks, AddrConfig, LenConfig, BlockSizePhys, SizeMb, page_sz, meta_sz

(* The sizes a shift makes. *)
TwoTo(n) == 2^n

(* Their values. *)
LEMMA PowersOfTwo ==
  /\ TwoTo(6) = 64 /\ TwoTo(7) = 128 /\ TwoTo(8) = 256 /\ TwoTo(9) = 512 /\ TwoTo(10) = 1024
  /\ TwoTo(23) = 8388608 /\ TwoTo(24) = 16777216 /\ TwoTo(25) = 33554432
  /\ TwoTo(26) = 67108864 /\ TwoTo(27) = 134217728 /\ TwoTo(28) = 268435456
  /\ TwoTo(29) = 536870912 /\ TwoTo(30) = 1073741824
BY SMT DEF TwoTo

(* Large blocks of either size in 64 megabytes or more. *)
LEMMA LargeTiled ==
  ASSUME NEW n \in 26..30, NEW block, NEW usable,
         \/ block = 131072 /\ usable = 480
         \/ block = 262144 /\ usable = 240,
         TilesAs(TwoTo(n), block, usable)
  PROVE  Tiled /\ Inside /\ SizeMb = TwoTo(n - 20)
<1>1. CASE n = 26
  <2>1. TilesAs(67108864, block, usable) /\ TwoTo(n - 20) = 64
    BY <1>1, PowersOfTwo, SMT
  <2> QED BY <2>1, SMT DEF TilesAs, Tiled, Inside, SizeBlocks, AddrConfig, LenConfig,
                           BlockSizePhys, SizeMb, page_sz, meta_sz
<1>2. CASE n = 27
  <2>1. TilesAs(134217728, block, usable) /\ TwoTo(n - 20) = 128
    BY <1>2, PowersOfTwo, SMT
  <2> QED BY <2>1, SMT DEF TilesAs, Tiled, Inside, SizeBlocks, AddrConfig, LenConfig,
                           BlockSizePhys, SizeMb, page_sz, meta_sz
<1>3. CASE n = 28
  <2>1. TilesAs(268435456, block, usable) /\ TwoTo(n - 20) = 256
    BY <1>3, PowersOfTwo, SMT
  <2> QED BY <2>1, SMT DEF TilesAs, Tiled, Inside, SizeBlocks, AddrConfig, LenConfig,
                           BlockSizePhys, SizeMb, page_sz, meta_sz
<1>4. CASE n = 29
  <2>1. TilesAs(536870912, block, usable) /\ TwoTo(n - 20) = 512
    BY <1>4, PowersOfTwo, SMT
  <2> QED BY <2>1, SMT DEF TilesAs, Tiled, Inside, SizeBlocks, AddrConfig, LenConfig,
                           BlockSizePhys, SizeMb, page_sz, meta_sz
<1>5. CASE n = 30
  <2>1. TilesAs(1073741824, block, usable) /\ TwoTo(n - 20) = 1024
    BY <1>5, PowersOfTwo, SMT
  <2> QED BY <2>1, SMT DEF TilesAs, Tiled, Inside, SizeBlocks, AddrConfig, LenConfig,
                           BlockSizePhys, SizeMb, page_sz, meta_sz
<1> QED BY <1>1, <1>2, <1>3, <1>4, <1>5, SMT

(* Large blocks of either size in less. *)
LEMMA LargeTiledToo ==
  ASSUME NEW n \in 23..25, NEW block \in {131072, 262144}, NEW usable,
         TilesAs(TwoTo(n), block, usable)
  PROVE  Tiled /\ ~ (SizeMb >= 64)
<1>1. n = 23 \/ n = 24 \/ n = 25
  BY SMT
<1>2. CASE n = 23
  <2>1. TilesAs(8388608, block, usable)
    BY <1>2, PowersOfTwo, SMT
  <2> QED BY <2>1, SMT DEF TilesAs, Tiled, SizeBlocks, BlockSizePhys, SizeMb, page_sz, meta_sz
<1>3. CASE n = 24
  <2>1. TilesAs(16777216, block, usable)
    BY <1>3, PowersOfTwo, SMT
  <2> QED BY <2>1, SMT DEF TilesAs, Tiled, SizeBlocks, BlockSizePhys, SizeMb, page_sz, meta_sz
<1>4. CASE n = 25
  <2>1. TilesAs(33554432, block, usable)
    BY <1>4, PowersOfTwo, SMT
  <2> QED BY <2>1, SMT DEF TilesAs, Tiled, SizeBlocks, BlockSizePhys, SizeMb, page_sz, meta_sz
<1> QED BY <1>1, <1>2, <1>3, <1>4

(* Which registers are refused, and what the others' fields are. *)
LEMMA RefusalOf ==
  /\ Kind(config) = 3 => Refusal = 3
  /\ Kind(config) = 0 /\ Layout(config) = 0 => Refusal = 1
  /\ Kind(config) = 1 /\ Layout(config) = 0 => Refusal = 2
  /\ Kind(config) # 3 /\ Kind(config) # 0 /\ Kind(config) # 1 => Refusal = 0
  /\ Kind(config) # 3 /\ Layout(config) # 0 => Refusal = 0
<1>1. 3 # 0 /\ 3 # 1 /\ 0 # 1
  BY SMT
<1> QED BY <1>1, Zenon DEF Refusal

(* A controller of the first kind has small blocks, by its layout. *)
LEMMA OriginalOf ==
  ASSUME Kind(config) = 0, sfc = Geometry
  PROVE  /\ Layout(config) = 1 => sfc = SmallBlocks(0, 1024, 992)
         /\ Layout(config) = 2 => sfc = SmallBlocks(0, 2048, 1984)
         /\ Layout(config) = 3 => sfc = SmallBlocks(0, 4096, 3968)
<1>1. Geometry = OriginalSfc
  BY SMT DEF Geometry
<1> QED BY <1>1, SMT DEF OriginalSfc

(* Any other has small blocks or large ones, by its layout. *)
LEMMA NewOf ==
  ASSUME Kind(config) # 0, sfc = Geometry
  PROVE  /\ Layout(config) < 2 => sfc = NewSfcSmall
         /\ ~ (Layout(config) < 2) => sfc = NewSfcLarge
BY SMT DEF Geometry

(* The fields of a record of small blocks. *)
LEMMA SmallFields ==
  ASSUME NEW m, NEW b \in {1024, 2048, 4096}, NEW u, sfc = SmallBlocks(m, b, u)
  PROVE  TilesAs(b * 16384, 16384, u) /\ sfc.meta_type = m
<1>1. 2^14 = 16384
  BY SMT
<1> QED BY <1>1, SMT DEF SmallBlocks, TilesAs

(* Both depend on the register alone. *)
LEMMA StillSo == ASSUME config' = config PROVE Refusal' = Refusal /\ Geometry' = Geometry
<1>1. Kind(config') = Kind(config) /\ Layout(config') = Layout(config)
  BY Zenon
<1>2. NewSfcLarge' = NewSfcLarge
  BY SMT DEF NewSfcLarge, LargeBlocks
<1>3. NewSfcSmall' = NewSfcSmall
  BY SMT DEF NewSfcSmall
<1>4. OriginalSfc' = OriginalSfc
  BY SMT DEF OriginalSfc
<1>5. Geometry' = Geometry
  BY <1>2, <1>3, <1>4, SMT DEF Geometry
<1> QED BY <1>1, <1>5, Zenon DEF Refusal

SfcInv ==
  /\ config \in Registers
  /\ sfcRet = -1 \/ (sfcRet = Refusal /\ (Refusal = 0 => sfc = Geometry))

(* What SFC_init leaves of a register it understands. *)
LEMMA Understood ==
  ASSUME config \in Registers, Refusal = 0, sfc = Geometry
  PROVE  /\ \A line \in Documented : line[1] = config => SizeMb = line[2]
         /\ Tiled
         /\ sfc.meta_type < 2 \/ SizeMb >= 64 => Inside
<1>1. config \in Nat
  BY SfcAssumption, SMT
<1>2. Kind(config) \in 0..3 /\ Layout(config) \in 0..3 /\ Shift(config) \in Nat /\ Shift(config) >= 23
  BY <1>1, RegisterFields, SMT
<1>3. Kind(config) # 3 /\ ~ (Kind(config) = 0 /\ Layout(config) = 0)
      /\ ~ (Kind(config) = 1 /\ Layout(config) = 0)
  BY RefusalOf, SMT
<1>4. CASE Kind(config) = 0
  <2>1. \/ Layout(config) = 1 /\ TilesAs(16777216, 16384, 992)
        \/ Layout(config) = 2 /\ TilesAs(33554432, 16384, 1984)
        \/ Layout(config) = 3 /\ TilesAs(67108864, 16384, 3968)
    <3>1. CASE Layout(config) = 1
      <4>1. TilesAs(1024 * 16384, 16384, 992)
        BY <1>4, <3>1, OriginalOf, SmallFields, SMT
      <4> QED BY <3>1, <4>1, SMT
    <3>2. CASE Layout(config) = 2
      <4>1. TilesAs(2048 * 16384, 16384, 1984)
        <5>1. sfc = SmallBlocks(0, 2048, 1984)
          BY <1>4, <3>2, OriginalOf, SMT
        <5> QED BY <5>1, SmallFields, SMT
      <4> QED BY <3>2, <4>1, SMT
    <3>3. CASE Layout(config) = 3
      <4>1. TilesAs(4096 * 16384, 16384, 3968)
        BY <1>4, <3>3, OriginalOf, SmallFields, SMT
      <4> QED BY <3>3, <4>1, SMT
    <3> QED BY <1>2, <1>3, <1>4, <3>1, <3>2, <3>3, SMT
  <2>2. Tiled /\ Inside /\ (Layout(config) = 1 => SizeMb = 16) /\ (Layout(config) = 3 => SizeMb = 64)
    BY <2>1, SmallTiled, SMT
  <2>3. \A line \in Documented : line[1] = config => SizeMb = line[2]
    <3>1. config \notin {\h00043000, \h00023010, \h008A3020, \h00AA3020}
      BY <1>4, RegisterList, SMT
    <3>2. (config = \h01198030 => SizeMb = 64) /\ (config = \h01198010 => SizeMb = 16)
      BY <2>2, RegisterList, SMT
    <3> QED BY <3>1, <3>2, SMT DEF Documented
  <2> QED BY <2>2, <2>3, SMT
<1>5. CASE Kind(config) # 0 /\ Layout(config) < 2
  <2>1. sfc = NewSfcSmall
    BY <1>5, NewOf, SMT
  <2>2. \/ (Layout(config) = 0 \/ Kind(config) = 1) /\ TilesAs(16777216, 16384, 992)
        \/ ~ (Layout(config) = 0 \/ Kind(config) = 1) /\ TilesAs(67108864, 16384, 3968)
    <3>1. CASE Layout(config) = 0 \/ Kind(config) = 1
      <4>1. TilesAs(1024 * 16384, 16384, 992)
        BY <2>1, <3>1, SmallFields, SMT DEF NewSfcSmall
      <4> QED BY <3>1, <4>1, SMT
    <3>2. CASE ~ (Layout(config) = 0 \/ Kind(config) = 1)
      <4>1. TilesAs(4096 * 16384, 16384, 3968)
        <5>1. sfc = SmallBlocks(1, 4096, 3968)
          BY <2>1, <3>2, SMT DEF NewSfcSmall
        <5> QED BY <5>1, SmallFields, SMT
      <4> QED BY <3>2, <4>1, SMT
    <3> QED BY <3>1, <3>2, SMT
  <2>3. Tiled /\ Inside /\ (Layout(config) = 0 \/ Kind(config) = 1 => SizeMb = 16)
    BY <2>2, SmallTiled, SMT
  <2>4. \A line \in Documented : line[1] = config => SizeMb = line[2]
    <3>1. config \notin {\h008A3020, \h00AA3020, \h01198030, \h01198010}
      BY <1>5, RegisterList, SMT
    <3>2. (config = \h00043000 => SizeMb = 16) /\ (config = \h00023010 => SizeMb = 16)
      BY <2>3, RegisterList, SMT
    <3> QED BY <3>1, <3>2, SMT DEF Documented
  <2> QED BY <2>3, <2>4, SMT
<1>6. CASE Kind(config) # 0 /\ ~ (Layout(config) < 2)
  <2> DEFINE n == Shift(config)
  <2>1. n \in 23..30
    <3>1. Layout(config) \in {2, 3}
      BY <1>2, <1>6, SMT
    <3>2. n < 31
      BY <1>6, <3>1, SfcAssumption, SMT
    <3> QED BY <1>2, <3>2, SMT
  <2>2. sfc = NewSfcLarge
    BY <1>6, NewOf, SMT
  <2> HIDE DEF n
  <2>3. \/ TilesAs(TwoTo(n), 131072, 480)
        \/ TilesAs(TwoTo(n), 262144, 240)
    BY <2>2, SMT DEF NewSfcLarge, LargeBlocks, TilesAs, TwoTo, n
  <2>4. sfc.meta_type = 2
    BY <2>2, SMT DEF NewSfcLarge, LargeBlocks
  <2>5. CASE n \in 26..30
    <3>1. Tiled /\ Inside /\ SizeMb = TwoTo(n - 20)
      <4>1. CASE TilesAs(TwoTo(n), 131072, 480)
        BY <2>5, <4>1, LargeTiled, SMT
      <4>2. CASE TilesAs(TwoTo(n), 262144, 240)
        BY <2>5, <4>2, LargeTiled, SMT
      <4> QED BY <2>3, <4>1, <4>2, SMT
    <3>2. \A line \in Documented : line[1] = config => SizeMb = line[2]
      <4>1. config \notin {\h00043000, \h00023010, \h01198030, \h01198010}
        BY <1>6, RegisterList, SMT
      <4>2. TwoTo(8) = 256 /\ TwoTo(9) = 512
        BY PowersOfTwo, SMT
      <4>3. config = \h008A3020 => n = 28 /\ n - 20 = 8
        BY RegisterList, SMT DEF n
      <4>4. config = \h00AA3020 => n = 29 /\ n - 20 = 9
        BY RegisterList, SMT DEF n
      <4>5. (config = \h008A3020 => SizeMb = 256) /\ (config = \h00AA3020 => SizeMb = 512)
        BY <3>1, <4>2, <4>3, <4>4, SMT
      <4> QED BY <4>1, <4>5, SMT DEF Documented
    <3> QED BY <3>1, <3>2, SMT
  <2>6. CASE n \in 23..25
    <3>1. Tiled /\ ~ (SizeMb >= 64)
      <4>1. CASE TilesAs(TwoTo(n), 131072, 480)
        BY <2>6, <4>1, LargeTiledToo, SMT
      <4>2. CASE TilesAs(TwoTo(n), 262144, 240)
        BY <2>6, <4>2, LargeTiledToo, SMT
      <4> QED BY <2>3, <4>1, <4>2, SMT
    <3>2. \A line \in Documented : line[1] # config
      <4>1. config \notin {\h00043000, \h00023010, \h01198030, \h01198010}
        BY <1>6, RegisterList, SMT
      <4>2. config # \h008A3020 /\ config # \h00AA3020
        BY <2>6, RegisterList, SMT DEF n
      <4> QED BY <4>1, <4>2, SMT DEF Documented
    <3>3. ~ (2 < 2)
      BY SMT
    <3> QED BY <2>4, <3>1, <3>2, <3>3, SMT
  <2> QED BY <2>1, <2>5, <2>6, SMT
<1> QED BY <1>4, <1>5, <1>6, SMT

(* A register of the list is not refused. *)
LEMMA ListedAccepted ==
  ASSUME Refusal # 0 PROVE \A line \in Documented : line[1] # config
<1>1. Kind(config) = 3 \/ (Layout(config) = 0 /\ (Kind(config) = 0 \/ Kind(config) = 1))
  <2>1. Kind(config) # 3 => Layout(config) = 0
    BY RefusalOf, Zenon
  <2>2. Kind(config) # 3 => Kind(config) = 0 \/ Kind(config) = 1
    BY RefusalOf, Zenon
  <2> QED BY <2>1, <2>2, Zenon
<1>2. CASE Kind(config) = 3
  <2>1. config \notin {\h00043000, \h00023010, \h008A3020, \h00AA3020, \h01198030, \h01198010}
    BY <1>2, RegisterList, SMT
  <2> QED BY <2>1, SMT DEF Documented
<1>3. CASE Layout(config) = 0 /\ (Kind(config) = 0 \/ Kind(config) = 1)
  <2>1. config # \h00043000
    BY <1>3, RegisterList, SMT
  <2>2. config \notin {\h00023010, \h008A3020, \h00AA3020, \h01198030, \h01198010}
    BY <1>3, RegisterList, SMT
  <2> QED BY <2>1, <2>2, SMT DEF Documented
<1> QED BY <1>1, <1>2, <1>3

(* For any registers whose shift is less than 31: six of the eight sizes   *)
(* listed in the source come out, the blocks tile the flash, and but for   *)
(* large blocks in less than 64 megabytes the settings end inside it.      *)
THEOREM GeometryIsExact == SfcSpec => []GeometryExact
<1>1. SfcInit => SfcInv
  BY SMT DEF SfcInit, SfcInv
<1>2. SfcInv /\ [SfcNext]_sfcVars => SfcInv'
  <2> SUFFICES ASSUME SfcInv, [SfcNext]_sfcVars PROVE SfcInv'
    BY SMT
  <2>1. CASE SFC_init
    <3>1. /\ sfcRet' = Refusal /\ config' = config
          /\ sfc' = (IF Refusal = 0 THEN Geometry ELSE NoGeometry)
      BY <2>1, SMT DEF SFC_init
    <3>2. Refusal' = Refusal /\ Geometry' = Geometry
      BY <3>1, StillSo
    <3> QED BY <3>1, <3>2, SMT DEF SfcInv
  <2>2. CASE UNCHANGED sfcVars
    <3>1. config' = config /\ sfc' = sfc /\ sfcRet' = sfcRet
      BY <2>2, SMT DEF sfcVars
    <3>2. Refusal' = Refusal /\ Geometry' = Geometry
      BY <3>1, StillSo
    <3> QED BY <3>1, <3>2, SMT DEF SfcInv
  <2> QED BY <2>1, <2>2, SMT DEF SfcNext
<1>3. SfcInv => GeometryExact
  <2> SUFFICES ASSUME SfcInv PROVE GeometryExact
    BY SMT
  <2>1. sfcRet \in 1..3 => \A line \in Documented : line[1] # config
    <3>1. sfcRet \in 1..3 => Refusal # 0
      BY SMT DEF SfcInv
    <3> QED BY <3>1, ListedAccepted, SMT
  <2>2. sfcRet = 0 => Refusal = 0 /\ sfc = Geometry
    BY SMT DEF SfcInv
  <2>3. sfcRet = 0 => /\ \A line \in Documented : line[1] = config => SizeMb = line[2]
                      /\ Tiled
                      /\ sfc.meta_type < 2 \/ SizeMb >= 64 => Inside
    BY <2>2, Understood, SMT DEF SfcInv
  <2> QED BY <2>1, <2>3, SMT DEF GeometryExact, Tiled, Inside
<1> QED BY <1>1, <1>2, <1>3, PTL DEF SfcSpec
===============================================================================
