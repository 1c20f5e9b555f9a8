------------------------------ MODULE ScanProofs ------------------------------
(***************************************************************************)
(* Proof that the range of sectors iso2svod copies holds everything that   *)
(* can be reached from the root directory, and that it takes a default.xex *)
(* for the title's executable if there is one, on any disc image whose     *)
(* tables can all be read; and that an image with one volume is opened at *)
(* it, wherever the three places of a volume lie.                          *)
(***************************************************************************)
EXTENDS IsoScan, IsoOpen, SequenceTheorems, TLAPS

Dirs == DOMAIN image.dirs
Xexes == {e \in ReachableEntries : e.kind = "file" /\ e.xex}

(* What the walk has made of an entry it has passed. *)
Covered(e) == minSector <= e.sector /\ LastByteSector(e) <= maxSector
Seen(e) == Covered(e) /\ (e.kind = "file" /\ e.xex => defaultXex \in Xexes)

Leads(e) == e.kind = "dir" /\ e.size # 0

Frames == [dir : ReachableDirs, off : Nat, entered : BOOLEAN]

(* V holds directories that have been walked to their end: their entries   *)
(* are seen, and their subdirectories are in V too.  Of a directory being  *)
(* walked that is so up to the offset, but for the one that is being       *)
(* walked inside it.                                                       *)
Passed(V, k, e) ==
  /\ Seen(e)
  /\ Leads(e) => e.dir \in V \/ (k < Len(stack) /\ e.dir = stack[k + 1].dir)

WalkedSoFar(V, k) ==
  LET t == image.dirs[stack[k].dir]
  IN  /\ stack[k].off <= Len(t)
      /\ \A m \in 1..stack[k].off : t[m] # Pad => Passed(V, k, t[m])

Walked(V) ==
  /\ V \subseteq Dirs
  /\ \A d \in V : \A e \in EntriesOf(d) : Seen(e) /\ (Leads(e) => e.dir \in V)
  /\ \A k \in 1..Len(stack) : WalkedSoFar(V, k)

WalkState ==
  /\ image \in Images /\ ret \in BOOLEAN
  /\ pc \in {"scan", "end", "done"} /\ (pc = "scan" <=> Len(stack) > 0)
  /\ stack \in Seq(Frames)
  /\ pc = "scan" => stack[1].dir = Root.dir

RangeInv ==
  /\ minSector \in Nat /\ maxSector \in Nat
  /\ minSector < maxSector /\ Covered(Root)
  /\ pc = "done" /\ ret => minSector % 2 = 0 /\ maxSector % 2 = 0

ScanInv ==
  /\ WalkState /\ RangeInv
  /\ defaultXex = NoEntry \/ defaultXex \in Xexes
  /\ \E V \in SUBSET Dirs : Walked(V) /\ (pc # "scan" => Root.dir \in V)

-------------------------------------------------------------------------------
(* Arithmetic of sectors. *)

(* Division with a remainder. *)
LEMMA Division ==
  ASSUME NEW x \in Int, NEW n \in Nat \ {0}
  PROVE  /\ x = n * (x \div n) + (x % n) /\ x % n \in 0..(n - 1) /\ x \div n \in Int
         /\ x \in Nat => x \div n \in Nat
OBVIOUS

(* Quotient and remainder are the only ones. *)
LEMMA DivisionUnique ==
  ASSUME NEW n \in Nat \ {0}, NEW q \in Int, NEW r \in 0..(n - 1)
  PROVE  (q * n + r) \div n = q /\ (q * n + r) % n = r
OBVIOUS

(* A size that does not wrap around counts its last, part-used sector.     *)
LEMMA Rounding ==
  ASSUME NEW size \in 0..(Width - SectorBytes)
  PROVE  /\ SizeInSectors(size) = (size + SectorBytes - 1) \div SectorBytes
         /\ SizeInSectors(size) \in Nat /\ RoundUp(size) \in Nat
         /\ SizeInSectors(size) <= RoundUp(size)
         /\ size # 0 => SizeInSectors(size) > 0
<1> DEFINE x == size + SectorBytes - 1
           q == x \div SectorBytes
<1>1. SectorBytes \in Nat \ {0} /\ Width \in Nat
  BY ScanAssumption
<1>2. x \in Nat /\ x < Width /\ x \in 0..(Width - 1)
  BY <1>1
<1>3. (x % Width) = x
  BY <1>1, <1>2
<1>4. x = SectorBytes * q + (x % SectorBytes) /\ x % SectorBytes \in 0..(SectorBytes - 1) /\ q \in Nat
  <2>1. x \in Int
    BY <1>2
  <2> HIDE DEF x
  <2>2. x = SectorBytes * (x \div SectorBytes) + (x % SectorBytes)
    BY <1>1, <2>1, Division
  <2>3. x % SectorBytes \in 0..(SectorBytes - 1)
    BY <1>1, <2>1, Division
  <2>4. x \div SectorBytes \in Nat
    BY <1>1, <1>2, <2>1, Division
  <2> QED BY <2>2, <2>3, <2>4
<1>5. RoundUp(size) = q * SectorBytes
  BY <1>3 DEF RoundUp
<1>6. (q * SectorBytes + 0) \div SectorBytes = q
  <2>1. 0 \in 0..(SectorBytes - 1) /\ q \in Int
    BY <1>1, <1>4
  <2> HIDE DEF q
  <2> QED BY <1>1, <2>1, DivisionUnique
<1>7. q * SectorBytes \in Nat /\ q * SectorBytes + 0 = q * SectorBytes /\ q <= q * SectorBytes
  <2> HIDE DEF q
  <2> QED BY <1>1, <1>4
<1>8. SizeInSectors(size) = q
  BY <1>5, <1>6, <1>7 DEF SizeInSectors
<1>9. size # 0 => q > 0
  <2>1. SUFFICES ASSUME size # 0, q = 0 PROVE FALSE
    BY <1>4
  <2>2. x >= SectorBytes
    BY <1>1, <2>1
  <2>3. x = x % SectorBytes
    <3>1. SectorBytes * q = 0
      BY <1>1, <2>1
    <3> QED BY <1>2, <1>4, <3>1
  <2> QED BY <1>1, <1>4, <2>2, <2>3
<1> QED BY <1>4, <1>5, <1>7, <1>8, <1>9

(* From an offset in a sector to the next sector. *)
LEMMA NextSector ==
  ASSUME NEW len \in Nat, (len % SlotsPerSector) = 0, NEW off \in Nat, off < len
  PROVE  /\ AlignSlot(off) \in off..len
         /\ \A m \in (off + 1)..AlignSlot(off) : SectorOf(m) = SectorOf(off + 1)
<1> DEFINE n == SlotsPerSector
           x == off + n - 1
           q == x \div n
           r == x % n
           p == len \div n
<1>1. n \in Nat \ {0} /\ x \in Nat
  BY ScanAssumption
<1>2. x = n * q + r /\ r \in 0..(n - 1) /\ q \in Nat
  BY <1>1, Division
<1>3. len = n * p /\ p \in Nat
  BY <1>1, Division
<1>4. AlignSlot(off) = q * n
  BY DEF AlignSlot
<1> HIDE DEF q, r, p, n
<1>5. x = off + n - 1
  BY DEF n
<1> HIDE DEF x
<1>6. q * n = n * q /\ n * q \in Nat /\ n * p \in Nat /\ (q - 1) * n = n * q - n /\ (p + 1) * n = n * p + n
  BY <1>1, <1>2, <1>3
<1>7. off <= n * q /\ n * q < n * p + n
  BY <1>1, <1>2, <1>3, <1>5, <1>6
<1>8. q <= p
  <2>1. SUFFICES ASSUME q >= p + 1 PROVE FALSE
    BY <1>2, <1>3
  <2>2. (q - (p + 1)) * n \in Nat
    BY <1>1, <1>2, <1>3, <2>1
  <2>3. (q - (p + 1)) * n = n * q - (n * p + n)
    BY <1>1, <1>2, <1>3
  <2>4. n * q - (n * p + n) \in Nat
    BY <2>2, <2>3
  <2> DEFINE a == n * q
             b == n * p
  <2>5. a - (b + n) \in Nat /\ a < b + n /\ a \in Nat /\ b \in Nat
    BY <1>6, <1>7, <2>4
  <2> HIDE DEF a, b
  <2> QED BY <1>1, <2>5
<1>9. n * q <= n * p
  <2>1. (p - q) * n >= 0 /\ (p - q) * n = n * p - n * q
    BY <1>1, <1>2, <1>3, <1>8
  <2> QED BY <1>6, <2>1
<1>10. AlignSlot(off) \in off..len
  BY <1>3, <1>4, <1>6, <1>7, <1>9
<1>11. ASSUME NEW m \in (off + 1)..AlignSlot(off) PROVE SectorOf(m) = q - 1
  <2>1. m - 1 >= off /\ m <= n * q /\ m \in Int
    BY <1>4, <1>6, <1>10
  <2> DEFINE rest == m - 1 - (n * q - n)
  <2>2. rest \in 0..(n - 1)
    BY <1>1, <1>2, <1>5, <1>6, <2>1
  <2>3. (q - 1) * n + rest = m - 1
    BY <1>1, <1>6, <2>1
  <2> HIDE DEF rest
  <2>4. ((q - 1) * n + rest) \div n = q - 1
    <3>1. q - 1 \in Int
      BY <1>2
    <3> QED BY <1>1, <2>2, <3>1, DivisionUnique
  <2> QED BY <2>3, <2>4 DEF SectorOf, n
<1>12. ASSUME NEW m \in (off + 1)..AlignSlot(off) PROVE SectorOf(m) = SectorOf(off + 1)
  <2>1. off + 1 \in (off + 1)..AlignSlot(off)
    BY <1>4, <1>6, <1>10
  <2> QED BY <1>11, <2>1
<1> QED BY <1>10, <1>12

-------------------------------------------------------------------------------
(* The disc. *)

(* A walk leaves the disc, and what there is on it, as it is. *)
LEMMA SameDisc ==
  ASSUME image' = image
  PROVE  /\ Root' = Root /\ Dirs' = Dirs /\ ReachableDirs' = ReachableDirs
         /\ Frames' = Frames /\ Xexes' = Xexes /\ ReachableEntries' = ReachableEntries
         /\ \A d : EntriesOf(d)' = EntriesOf(d)
<1>1. Root' = Root /\ Dirs' = Dirs
  BY DEF Root, Dirs
<1>2. ReachableDirs' = ReachableDirs
  BY DEF ReachableDirs, SubDirs, EntriesOf, Root
<1>3. \A d : EntriesOf(d)' = EntriesOf(d)
  BY DEF EntriesOf
<1>4. ReachableEntries' = ReachableEntries
  BY <1>2 DEF ReachableEntries, EntriesOf
<1>5. Frames' = Frames /\ Xexes' = Xexes
  BY <1>2, <1>4 DEF Frames, Xexes
<1> QED BY <1>1, <1>2, <1>3, <1>4, <1>5

(* A directory table. *)
LEMMA TableOf ==
  ASSUME image \in Images, NEW d \in Dirs
  PROVE  LET t == image.dirs[d]
         IN  /\ Len(t) \in Nat /\ DOMAIN t = 1..Len(t) /\ Len(t) % SlotsPerSector = 0
             /\ \A k \in 1..Len(t) : t[k] # Pad => IsEntry(image, t[k]) /\ t[k] \in EntriesOf(d)
             /\ \A k \in 1..Len(t) : t[k] = Pad =>
                  \A m \in k..Len(t) : SectorOf(m) = SectorOf(k) => t[m] = Pad
             /\ \A e \in EntriesOf(d) : IsEntry(image, e) /\ \E k \in 1..Len(t) : e = t[k] /\ e # Pad
<1>1. WellFormed(image)
  BY ImagesAssumption
<1> DEFINE t == image.dirs[d]
<1>2. /\ Len(t) \in Nat /\ DOMAIN t = 1..Len(t) /\ Len(t) % SlotsPerSector = 0
      /\ \A k \in DOMAIN t :
           IF t[k] = Pad
           THEN \A m \in k..Len(t) : SectorOf(m) = SectorOf(k) => t[m] = Pad
           ELSE IsEntry(image, t[k])
  BY <1>1 DEF WellFormed, Dirs
<1>3. EntriesOf(d) = {t[k] : k \in 1..Len(t)} \ {Pad}
  BY <1>2 DEF EntriesOf
<1> HIDE DEF t
<1>4. \A k \in 1..Len(t) : t[k] # Pad => IsEntry(image, t[k]) /\ t[k] \in EntriesOf(d)
  BY <1>2, <1>3
<1>5. \A e \in EntriesOf(d) : IsEntry(image, e) /\ \E k \in 1..Len(t) : e = t[k] /\ e # Pad
  BY <1>2, <1>3
<1>6. \A k \in 1..Len(t) : t[k] = Pad =>
        \A m \in k..Len(t) : SectorOf(m) = SectorOf(k) => t[m] = Pad
  BY <1>2
<1> QED BY <1>2, <1>4, <1>5, <1>6 DEF t

(* Where the entries of some directories lead. *)
LEMMA LeadTo ==
  ASSUME NEW ds, NEW x
  PROVE  x \in SubDirs(ds) <=> \E d \in ds : \E e \in EntriesOf(d) : Leads(e) /\ x = e.dir
BY DEF SubDirs, Leads

(* There is a least set of directories that the root and all subdirectories *)
(* of its members belong to.                                                *)
LEMMA Reachable ==
  ASSUME image \in Images
  PROVE  /\ ReachableDirs \subseteq Dirs /\ Root.dir \in ReachableDirs
         /\ \A d \in ReachableDirs : \A e \in EntriesOf(d) :
              e \in ReachableEntries /\ (Leads(e) => e.dir \in ReachableDirs)
         /\ \A V \in SUBSET Dirs :
              Root.dir \in V /\ (\A d \in V : \A e \in EntriesOf(d) : Leads(e) => e.dir \in V)
                => ReachableDirs \subseteq V
<1> DEFINE Closed(ds) == Root.dir \in ds /\ SubDirs(ds) \subseteq ds
           I == {d \in Dirs : \A es \in SUBSET Dirs : Closed(es) => d \in es}
<1>1. Root.dir \in Dirs /\ \A d \in Dirs : \A e \in EntriesOf(d) : Leads(e) => e.dir \in Dirs
  <2>1. Root.dir \in Dirs
    BY ImagesAssumption DEF WellFormed, Dirs, Root
  <2>2. \A d \in Dirs : \A e \in EntriesOf(d) : IsEntry(image, e)
    BY TableOf
  <2> QED BY <2>1, <2>2 DEF IsEntry, Leads, Dirs
<1>2. Closed(I)
  <2>1. Root.dir \in I
    BY <1>1
  <2>2. ASSUME NEW x \in SubDirs(I) PROVE x \in I
    <3>1. PICK d \in I : \E e \in EntriesOf(d) : Leads(e) /\ x = e.dir
      BY <2>2, LeadTo
    <3>2. x \in Dirs
      BY <1>1, <3>1
    <3>3. ASSUME NEW es \in SUBSET Dirs, Closed(es) PROVE x \in es
      <4>1. d \in es
        BY <3>1, <3>3
      <4>2. x \in SubDirs(es)
        BY <3>1, <4>1, LeadTo
      <4> QED BY <3>3, <4>2
    <3> QED BY <3>2, <3>3
  <2> QED BY <2>1, <2>2
<1>3. \A es \in SUBSET I : Closed(es) => es = I
  OBVIOUS
<1>4. I \in SUBSET Dirs
  OBVIOUS
<1> HIDE DEF I
<1>5. ReachableDirs \in SUBSET Dirs /\ Closed(ReachableDirs)
      /\ \A es \in SUBSET ReachableDirs : Closed(es) => es = ReachableDirs
  BY <1>2, <1>3, <1>4 DEF ReachableDirs, Dirs
<1>6. ASSUME NEW d \in ReachableDirs, NEW e \in EntriesOf(d)
      PROVE  e \in ReachableEntries /\ (Leads(e) => e.dir \in ReachableDirs)
  <2>1. Leads(e) => e.dir \in SubDirs(ReachableDirs)
    BY LeadTo
  <2>2. e \in ReachableEntries
    BY DEF ReachableEntries
  <2> QED BY <1>5, <2>1, <2>2
<1>7. ASSUME NEW V \in SUBSET Dirs, Root.dir \in V,
             \A d \in V : \A e \in EntriesOf(d) : Leads(e) => e.dir \in V
      PROVE  ReachableDirs \subseteq V
  <2> DEFINE W == ReachableDirs \cap V
  <2>1. ASSUME NEW x \in SubDirs(W) PROVE x \in W
    <3>1. PICK d \in W : \E e \in EntriesOf(d) : Leads(e) /\ x = e.dir
      BY <2>1, LeadTo
    <3> QED BY <1>6, <1>7, <3>1
  <2>2. Closed(W) /\ W \in SUBSET ReachableDirs
    BY <1>5, <1>7, <2>1
  <2>3. W = ReachableDirs
    BY <1>5, <2>2
  <2> QED BY <2>3
<1> QED BY <1>5, <1>6, <1>7

-------------------------------------------------------------------------------
(* The walk. *)

(* The innermost call. *)
LEMMA Innermost ==
  ASSUME WalkState, pc = "scan"
  PROVE  /\ Len(stack) \in Nat \ {0} /\ Top = stack[Len(stack)] /\ Table = image.dirs[Top.dir]
         /\ Top \in Frames /\ Top.dir \in Dirs /\ Top.dir \in ReachableDirs
         /\ \A k \in 1..Len(stack) : stack[k] \in Frames /\ stack[k].dir \in Dirs
         /\ Len(Table) \in Nat
<1>1. Len(stack) \in Nat \ {0} /\ \A k \in 1..Len(stack) : stack[k] \in Frames
  BY DEF WalkState
<1>2. \A f \in Frames : f.dir \in ReachableDirs /\ f.dir \in Dirs
  BY Reachable DEF Frames, WalkState
<1>3. Len(stack) \in 1..Len(stack)
  BY <1>1
<1>4. Len(Table) \in Nat
  BY <1>1, <1>2, <1>3, TableOf DEF WalkState, Table, Top
<1> QED BY <1>1, <1>2, <1>3, <1>4 DEF Top, Table

(* It gets further in its table. *)
LEMMA OffsetMoved ==
  ASSUME WalkState, pc = "scan", NEW off \in Nat
  PROVE  LET t == [stack EXCEPT ![Len(stack)].off = off]
         IN  /\ t \in Seq(Frames) /\ Len(t) = Len(stack)
             /\ \A k \in 1..Len(stack) : t[k].dir = stack[k].dir /\ (k # Len(stack) => t[k] = stack[k])
             /\ t[Len(stack)].off = off
<1> DEFINE n == Len(stack)
           f == [stack[n] EXCEPT !.off = off]
           t == [stack EXCEPT ![n] = f]
<1>1. n \in 1..Len(stack) /\ stack \in Seq(Frames) /\ stack[n] \in Frames
  BY Innermost DEF WalkState
<1>2. f \in Frames /\ f.dir = stack[n].dir /\ f.off = off
  BY <1>1 DEF Frames
<1> HIDE DEF f
<1>3. /\ t \in Seq(Frames) /\ Len(t) = Len(stack) /\ t[n] = f
      /\ \A k \in 1..Len(stack) : k # n => t[k] = stack[k]
  BY <1>1, <1>2
<1>4. t = [stack EXCEPT ![Len(stack)].off = off]
  BY DEF f
<1> QED BY <1>1, <1>2, <1>3, <1>4

(* A wider range, and an executable that is found, take nothing back. *)
LEMMA SeenStays ==
  ASSUME ScanInv, image' = image, minSector' \in Nat, maxSector' \in Nat,
         minSector' <= minSector, maxSector' >= maxSector,
         defaultXex \in Xexes => defaultXex' \in Xexes,
         NEW e, IsEntry(image, e), Seen(e)
  PROVE  Seen(e)'
<1>1. e.sector \in Nat /\ e.size \in Nat /\ SectorBytes \in Nat \ {0}
  BY ScanAssumption DEF IsEntry
<1>2. (e.size + SectorBytes - 1) \div SectorBytes \in Int
  BY <1>1
<1>3. LastByteSector(e) \in Int /\ LastByteSector(e)' = LastByteSector(e)
  BY <1>1, <1>2 DEF LastByteSector
<1>4. minSector \in Nat /\ maxSector \in Nat
  BY DEF ScanInv, RangeInv
<1>5. Covered(e)'
  BY <1>1, <1>3, <1>4 DEF Seen, Covered
<1>6. Xexes' = Xexes
  BY SameDisc
<1> QED BY <1>5, <1>6 DEF Seen

(* A call returns: its directory has been walked. *)
LEMMA CallReturns ==
  ASSUME ScanInv, pc = "scan", Return(TRUE), UNCHANGED <<image, minSector, maxSector, defaultXex>>,
         Top.off >= Len(Table)
  PROVE  ScanInv'
<1> DEFINE n == Len(stack)
<1>1. WalkState /\ RangeInv /\ (defaultXex = NoEntry \/ defaultXex \in Xexes)
  BY DEF ScanInv
<1>2. PICK V \in SUBSET Dirs : Walked(V)
  BY DEF ScanInv
<1>3. /\ n \in Nat \ {0} /\ Top = stack[n] /\ Top.dir \in Dirs /\ Table = image.dirs[Top.dir]
      /\ \A k \in 1..n : stack[k] \in Frames
      /\ Len(Table) \in Nat /\ image \in Images /\ stack \in Seq(Frames)
  BY <1>1, Innermost DEF WalkState
<1>4. /\ stack' \in Seq(Frames) /\ Len(stack') = n - 1
      /\ \A k \in 1..(n - 1) : stack'[k] = stack[k]
  <2>1. stack' = SubSeq(stack, 1, n - 1)
    BY DEF Return
  <2>2. n \in Nat \ {0} /\ n = Len(stack) /\ stack \in Seq(Frames)
    BY <1>3
  <2> HIDE DEF n
  <2> QED BY <2>1, <2>2
<1>5. /\ ret' = TRUE /\ image' = image /\ defaultXex' = defaultXex
      /\ minSector' = minSector /\ maxSector' = maxSector
      /\ n = 1 => pc' = "end"
      /\ n # 1 => pc' = "scan"
  BY DEF Return
<1>6. /\ Root' = Root /\ Dirs' = Dirs /\ Frames' = Frames /\ Xexes' = Xexes
      /\ \A d : EntriesOf(d)' = EntriesOf(d)
  BY <1>5, SameDisc
<1>7. \A e : Seen(e)' <=> Seen(e)
  BY <1>5, <1>6 DEF Seen, Covered, LastByteSector
<1>8. WalkState'
  <2>1. ASSUME pc' = "scan" PROVE stack'[1].dir = Root.dir
    <3>1. n # 1
      BY <1>5, <2>1
    <3>2. n \in Nat /\ n >= 2
      <4>1. n \in Nat \ {0}
        BY <1>3
      <4> HIDE DEF n
      <4> QED BY <3>1, <4>1
    <3>3. 1 \in 1..(n - 1)
      BY <3>2
    <3> QED BY <1>1, <1>4, <3>3 DEF WalkState
  <2>2. (pc' = "scan" <=> Len(stack') > 0) /\ pc' \in {"scan", "end", "done"}
    BY <1>3, <1>4, <1>5
  <2>3. stack' \in Seq(Frames)' /\ image' \in Images
    BY <1>3, <1>4, <1>5, <1>6
  <2> QED BY <1>5, <1>6, <2>1, <2>2, <2>3 DEF WalkState
<1>9. RangeInv'
  BY <1>1, <1>5, <1>6 DEF RangeInv, Covered, LastByteSector
<1>0. PICK W : W = V \cup {Top.dir}
  OBVIOUS
<1>10. \A e \in EntriesOf(Top.dir) : Seen(e) /\ (Leads(e) => e.dir \in V)
  <2>1. SUFFICES ASSUME NEW e \in EntriesOf(Top.dir) PROVE Seen(e) /\ (Leads(e) => e.dir \in V)
    OBVIOUS
  <2>2. PICK m \in 1..Len(Table) : e = Table[m] /\ e # Pad
    BY <1>3, TableOf
  <2>3. n \in 1..n /\ stack[n].off \in Nat /\ stack[n].off >= Len(Table)
    BY <1>3 DEF Frames
  <2>4. m \in 1..stack[n].off
    BY <1>3, <2>3
  <2>5. Passed(V, n, e)
    BY <1>2, <1>3, <2>2, <2>3, <2>4 DEF Walked, WalkedSoFar
  <2> QED BY <1>3, <2>5 DEF Passed
<1>11. Walked(W)'
  <2>1. W \subseteq Dirs'
    BY <1>0, <1>3, <1>6
  <2>2. \A d \in W : \A e \in EntriesOf(d) : Seen(e) /\ (Leads(e) => e.dir \in W)
    BY <1>0, <1>2, <1>10 DEF Walked
  <2>3. ASSUME NEW k \in 1..Len(stack') PROVE WalkedSoFar(W, k)'
    <3>1. k \in 1..(n - 1) /\ k \in 1..n /\ k \in Int /\ stack'[k] = stack[k]
      BY <1>3, <1>4
    <3>2. k + 1 = n \/ (k < n - 1 /\ stack'[k + 1] = stack[k + 1])
      BY <1>3, <1>4, <3>1
    <3>3. WalkedSoFar(V, k)
      BY <1>2, <3>1 DEF Walked
    <3>4. ASSUME NEW e, Passed(V, k, e) PROVE Passed(W, k, e)'
      <4>1. Seen(e)'
        BY <1>7, <3>4 DEF Passed
      <4>2. Leads(e) => e.dir \in W \/ (k < Len(stack') /\ e.dir = stack'[k + 1].dir)
        BY <1>0, <1>3, <1>4, <3>1, <3>2, <3>4 DEF Passed
      <4> QED BY <4>1, <4>2 DEF Passed, Leads
    <3> QED BY <1>5, <3>1, <3>3, <3>4 DEF WalkedSoFar
  <2>6. \A d \in W : \A e \in EntriesOf(d)' : Seen(e)' /\ (Leads(e)' => e.dir \in W)
    BY <1>6, <1>7, <2>2 DEF Leads
  <2> QED BY <2>1, <2>3, <2>6 DEF Walked, Leads
<1>12. pc' # "scan" => Root.dir \in W
  BY <1>0, <1>1, <1>3, <1>5 DEF WalkState
<1> QED BY <1>0, <1>1, <1>3, <1>5, <1>6, <1>8, <1>9, <1>11, <1>12 DEF ScanInv

(* The innermost call goes on: entries are passed, and the last of them    *)
(* may lead into a call of its own.                                        *)
LEMMA CallGoesOn ==
  ASSUME ScanInv, pc = "scan", image' = image, pc' = pc, ret' = ret,
         minSector' \in Nat, maxSector' \in Nat,
         minSector' <= minSector, maxSector' >= maxSector,
         defaultXex \in Xexes => defaultXex' \in Xexes,
         defaultXex' = NoEntry \/ defaultXex' \in Xexes,
         stack' \in Seq(Frames), Len(stack') \in {Len(stack), Len(stack) + 1},
         \A k \in 1..Len(stack) :
           stack'[k].dir = stack[k].dir /\ (k # Len(stack) => stack'[k].off = stack[k].off),
         stack'[Len(stack)].off \in Top.off..Len(Table),
         Len(stack') > Len(stack) => stack'[Len(stack) + 1].off = 0,
         \A m \in (Top.off + 1)..stack'[Len(stack)].off : \A e :
           e = Table[m] /\ e # Pad =>
             /\ Seen(e)'
             /\ Leads(e) => Len(stack') > Len(stack) /\ e.dir = stack'[Len(stack) + 1].dir
  PROVE  ScanInv'
<1>0. PICK n : n = Len(stack)
  OBVIOUS
<1>1. WalkState /\ RangeInv
  BY DEF ScanInv
<1>2. PICK V \in SUBSET Dirs : Walked(V)
  BY DEF ScanInv
<1>3. /\ n \in Nat \ {0} /\ Top = stack[n] /\ Top.dir \in Dirs /\ Table = image.dirs[Top.dir]
      /\ \A k \in 1..n : stack[k] \in Frames /\ stack[k].dir \in Dirs
      /\ Len(Table) \in Nat /\ image \in Images /\ Top.off \in Nat
      /\ Len(stack') \in {n, n + 1}
      /\ \A k \in 1..n :
           stack'[k].dir = stack[k].dir /\ (k # n => stack'[k].off = stack[k].off)
      /\ stack'[n].off \in Top.off..Len(Table) /\ (Len(stack') > n => stack'[n + 1].off = 0)
      /\ \A m \in (Top.off + 1)..stack'[n].off : \A e :
           e = Table[m] /\ e # Pad =>
             Seen(e)' /\ (Leads(e) => Len(stack') > n /\ e.dir = stack'[n + 1].dir)
  BY <1>0, <1>1, Innermost DEF WalkState, Frames
<1>4. /\ Root' = Root /\ Dirs' = Dirs /\ Frames' = Frames /\ Xexes' = Xexes
      /\ \A d : EntriesOf(d)' = EntriesOf(d)
  BY SameDisc
<1>5. \A e : IsEntry(image, e) /\ Seen(e) => Seen(e)'
  BY SeenStays
<1>6. WalkState'
  <2>1. Len(stack') > 0
    BY <1>3
  <2>2. 1 \in 1..n
    BY <1>3
  <2>3. stack'[1].dir = Root.dir
    BY <1>1, <2>2 DEF WalkState
  <2> QED BY <1>1, <1>4, <2>1, <2>3 DEF WalkState
<1>7. RangeInv'
  <2>1. Root.sector \in Nat /\ Root.size \in Nat
    <3>1. WellFormed(image) /\ SectorBytes \in Nat \ {0} /\ Width \in Nat
      BY <1>3, ImagesAssumption, ScanAssumption
    <3>2. Root.sector \in Nat /\ Root.size \in 1..(Width - SectorBytes)
      BY <3>1 DEF WellFormed, Root
    <3> QED BY <3>1, <3>2
  <2>2. (Root.size + SectorBytes - 1) \div SectorBytes \in Int
    BY <2>1, ScanAssumption
  <2>3. LastByteSector(Root) \in Int /\ LastByteSector(Root)' = LastByteSector(Root)
    BY <1>4, <2>1, <2>2 DEF LastByteSector
  <2>4. Covered(Root)'
    BY <1>1, <1>4, <2>1, <2>3 DEF RangeInv, Covered
  <2> QED BY <1>1, <2>4 DEF RangeInv
<1>8. \A d \in V : \A e \in EntriesOf(d) : Seen(e)' /\ (Leads(e) => e.dir \in V)
  <2>1. \A d \in V : \A e \in EntriesOf(d) : IsEntry(image, e)
    BY <1>2, <1>3, TableOf
  <2> QED BY <1>2, <1>5, <2>1 DEF Walked
<1>9. ASSUME NEW k \in 1..Len(stack') PROVE WalkedSoFar(V, k)'
  <2>1. CASE k \in 1..(n - 1)
    <3>1. k \in 1..n /\ k + 1 \in 1..n /\ k # n /\ k < Len(stack') /\ k < n
      BY <1>3, <2>1
    <3>2. /\ stack'[k].dir = stack[k].dir /\ stack'[k].off = stack[k].off
          /\ stack'[k + 1].dir = stack[k + 1].dir
      BY <1>3, <3>1
    <3>3. WalkedSoFar(V, k) /\ stack[k].dir \in Dirs /\ stack[k].off \in Nat
      BY <1>0, <1>2, <1>3, <3>1 DEF Walked, Frames
    <3> DEFINE t == image.dirs[stack[k].dir]
    <3>4. ASSUME NEW m \in 1..stack[k].off, t[m] # Pad PROVE Passed(V, k, t[m])'
      <4>1. Passed(V, k, t[m]) /\ m \in 1..Len(t) /\ stack[k].off <= Len(t)
        <5>1. Len(t) \in Nat /\ stack[k].off \in Nat
          BY <1>3, <3>3, TableOf
        <5>2. stack[k].off <= Len(t) /\ Passed(V, k, t[m])
          BY <3>3, <3>4 DEF WalkedSoFar
        <5> QED BY <5>1, <5>2
      <4>2. IsEntry(image, t[m])
        BY <1>3, <3>3, <3>4, <4>1, TableOf
      <4>3. \A e : IsEntry(image, e) /\ Passed(V, k, e) => Passed(V, k, e)'
        BY <1>0, <1>5, <3>1, <3>2 DEF Passed, Leads
      <4>4. PICK e : e = t[m]
        OBVIOUS
      <4>5. Passed(V, k, e)'
        BY <4>1, <4>2, <4>3, <4>4
      <4>6. t[m]' = e
        BY <3>2, <4>4
      <4> QED BY <4>5, <4>6 DEF Passed
    <3> QED BY <3>2, <3>3, <3>4 DEF WalkedSoFar
  <2>2. CASE k = n
    <3>1. n \in 1..n /\ stack'[n].dir = Top.dir /\ stack'[n].off \in Top.off..Len(Table)
      BY <1>3
    <3>2. WalkedSoFar(V, n)
      BY <1>0, <1>2, <3>1 DEF Walked
    <3>3. ASSUME NEW m \in 1..stack'[n].off, NEW e, e = Table[m], e # Pad
          PROVE  Passed(V, n, e)'
      <4>1. m \in 1..Len(Table) /\ (m \in 1..Top.off \/ m \in (Top.off + 1)..stack'[n].off)
        <5> DEFINE x == Top.off
                   y == Len(Table)
                   z == stack'[n].off
        <5>1. x \in Nat /\ y \in Nat /\ z \in x..y /\ m \in 1..z
          BY <1>3, <3>1, <3>3
        <5> HIDE DEF x, y, z
        <5>2. m \in 1..y /\ (m \in 1..x \/ m \in (x + 1)..z)
          BY <5>1
        <5> QED BY <5>2 DEF x, y, z
      <4>2. CASE m \in 1..Top.off
        <5>1. Passed(V, n, e)
          BY <1>3, <3>2, <3>3, <4>2 DEF WalkedSoFar
        <5>2. IsEntry(image, e)
          BY <1>3, <3>3, <4>1, TableOf
        <5> QED BY <1>0, <1>3, <1>5, <5>1, <5>2 DEF Passed, Leads
      <4>3. CASE m \in (Top.off + 1)..stack'[n].off
        BY <1>3, <3>3, <4>3 DEF Passed, Leads
      <4> QED BY <4>1, <4>2, <4>3
    <3>4. image'.dirs[stack'[n].dir] = Table
      BY <1>3, <3>1
    <3> QED BY <1>3, <2>2, <3>1, <3>3, <3>4 DEF WalkedSoFar
  <2>3. CASE k = n + 1
    <3>1. stack'[k].off = 0 /\ stack'[k] \in Frames
      BY <1>3, <2>3
    <3>2. stack'[k].dir \in Dirs
      BY <1>3, <3>1, Reachable DEF Frames
    <3>3. Len(image.dirs[stack'[k].dir]) \in Nat
      BY <1>3, <3>2, TableOf
    <3> QED BY <3>1, <3>3 DEF WalkedSoFar
  <2>4. k \in 1..(n - 1) \/ k = n \/ k = n + 1
    BY <1>3
  <2> QED BY <2>1, <2>2, <2>3, <2>4
<1>10. Walked(V)'
  BY <1>4, <1>8, <1>9 DEF Walked, Leads
<1> QED BY <1>4, <1>6, <1>7, <1>10 DEF ScanInv

(* The root's call begins. *)
LEMMA ScanBegins == ASSUME Init PROVE ScanInv
<1>1. /\ image \in Images /\ pc = "scan" /\ ret = FALSE /\ defaultXex = NoEntry
      /\ stack = <<[dir |-> Root.dir, off |-> 0, entered |-> FALSE]>>
      /\ minSector = Root.sector /\ maxSector = Higher(Root.sector + RoundUp(Root.size), FirstEnd)
  BY DEF Init
<1>2. WellFormed(image) /\ SectorBytes \in Nat \ {0} /\ Width \in Nat /\ FirstEnd \in Nat
  BY <1>1, ImagesAssumption, ScanAssumption
<1>3. Root.sector \in Nat /\ Root.size \in 1..(Width - SectorBytes)
  BY <1>2 DEF WellFormed, Root
<1>4. /\ SizeInSectors(Root.size) = (Root.size + SectorBytes - 1) \div SectorBytes
      /\ SizeInSectors(Root.size) \in Nat \ {0} /\ RoundUp(Root.size) \in Nat
      /\ SizeInSectors(Root.size) <= RoundUp(Root.size)
  <2>1. Root.size \in 0..(Width - SectorBytes) /\ Root.size # 0
    BY <1>2, <1>3
  <2>2. SizeInSectors(Root.size) \in Nat /\ SizeInSectors(Root.size) > 0
    BY <2>1, Rounding
  <2> QED BY <2>1, <2>2, Rounding
<1>5. maxSector \in Nat /\ maxSector >= Root.sector + RoundUp(Root.size)
  BY <1>1, <1>2, <1>3, <1>4 DEF Higher
<1>6. RangeInv
  <2>1. LastByteSector(Root) = Root.sector + SizeInSectors(Root.size)
    BY <1>4 DEF LastByteSector
  <2>2. Covered(Root)
    BY <1>1, <1>3, <1>4, <1>5, <2>1 DEF Covered
  <2> QED BY <1>1, <1>3, <1>4, <1>5, <2>2 DEF RangeInv
<1>7. Root.dir \in ReachableDirs /\ Root.dir \in Dirs
  BY <1>1, Reachable
<1>8. stack \in Seq(Frames) /\ Len(stack) = 1 /\ stack[1].dir = Root.dir /\ stack[1].off = 0
  <2>1. [dir |-> Root.dir, off |-> 0, entered |-> FALSE] \in Frames
    BY <1>7 DEF Frames
  <2> QED BY <1>1, <2>1
<1>9. WalkState
  <2>1. image \in Images /\ ret \in BOOLEAN /\ pc = "scan"
    BY <1>1
  <2>2. Len(stack) > 0
    BY <1>8
  <2> QED BY <1>8, <2>1, <2>2 DEF WalkState
<1>10. Walked({})
  <2>1. ASSUME NEW k \in 1..Len(stack) PROVE WalkedSoFar({}, k)
    <3>1. k = 1
      BY <1>8
    <3>2. Len(image.dirs[Root.dir]) \in Nat
      BY <1>1, <1>7, TableOf
    <3> QED BY <1>8, <3>1, <3>2 DEF WalkedSoFar
  <2> QED BY <2>1 DEF Walked
<1> QED BY <1>1, <1>6, <1>9, <1>10 DEF ScanInv

(* A call begins. *)
LEMMA EnterStep == ASSUME ScanInv, ~ReadFails, EnterDirectory PROVE ScanInv'
<1>1. pc = "scan" /\ WalkState /\ UNCHANGED <<image, minSector, maxSector, defaultXex>>
  BY DEF EnterDirectory, ScanInv
<1>2. Len(stack) \in Nat \ {0} /\ Len(Table) \in Nat /\ Top \in Frames /\ Top = stack[Len(stack)]
  BY <1>1, Innermost
<1>3. CASE Table = << >>
  <2>1. Return(TRUE)
    BY <1>3 DEF EnterDirectory
  <2>2. Top.off >= Len(Table)
    BY <1>2, <1>3 DEF Frames
  <2> QED BY <1>1, <2>1, <2>2, CallReturns
<1>4. CASE Table # << >>
  <2>1. stack' = [stack EXCEPT ![Len(stack)].entered = TRUE] /\ pc' = pc /\ ret' = ret
    BY <1>4 DEF EnterDirectory
  <2> DEFINE f == [stack[Len(stack)] EXCEPT !.entered = TRUE]
  <2>2. f \in Frames /\ f.dir = stack[Len(stack)].dir /\ f.off = stack[Len(stack)].off
    BY <1>2 DEF Frames
  <2>3. stack' = [stack EXCEPT ![Len(stack)] = f]
    BY <2>1
  <2> HIDE DEF f
  <2>4. stack \in Seq(Frames) /\ Len(stack) \in 1..Len(stack)
    BY <1>1, <1>2 DEF WalkState
  <2>5. /\ stack' \in Seq(Frames) /\ Len(stack') = Len(stack) /\ stack'[Len(stack)] = f
        /\ \A k \in 1..Len(stack) : k # Len(stack) => stack'[k] = stack[k]
    BY <2>2, <2>3, <2>4
  <2>6. Top.off \in Nat /\ Top.off <= Len(Table) /\ stack'[Len(stack)].off = Top.off
    <3>1. PICK V : Walked(V)
      BY DEF ScanInv
    <3>2. WalkedSoFar(V, Len(stack))
      BY <2>4, <3>1 DEF Walked
    <3> QED BY <1>2, <2>2, <2>5, <3>2 DEF WalkedSoFar, Table, Frames
  <2>7. stack'[Len(stack)].off \in Top.off..Len(Table) /\ Len(stack') = Len(stack)
        /\ (Top.off + 1)..stack'[Len(stack)].off = {}
    BY <1>2, <2>5, <2>6
  <2>8. \A k \in 1..Len(stack) :
          stack'[k].dir = stack[k].dir /\ (k # Len(stack) => stack'[k].off = stack[k].off)
    BY <2>2, <2>5
  <2>9. ~(Len(stack') > Len(stack))
    BY <1>2, <2>5
  <2>10. minSector \in Nat /\ maxSector \in Nat /\ (defaultXex = NoEntry \/ defaultXex \in Xexes)
    BY DEF ScanInv, RangeInv
  <2>11. minSector' <= minSector /\ maxSector' >= maxSector
    BY <1>1, <2>10
  <2> QED BY <1>1, <2>1, <2>5, <2>7, <2>8, <2>9, <2>10, <2>11, CallGoesOn
<1> QED BY <1>3, <1>4

(* A call ends at the end of its table. *)
LEMMA LeaveStep == ASSUME ScanInv, LeaveDirectory PROVE ScanInv'
BY CallReturns DEF LeaveDirectory

(* Filler is skipped, and nothing but filler. *)
LEMMA PaddingStep == ASSUME ScanInv, SkipPadding PROVE ScanInv'
<1>1. /\ pc = "scan" /\ WalkState /\ UNCHANGED <<image, pc, ret, minSector, maxSector, defaultXex>>
      /\ Top.off < Len(Table) /\ Slot = Pad /\ Slot = Table[Top.off + 1]
  BY DEF SkipPadding, AtSlot, ScanInv, Slot
<1>2. /\ Len(stack) \in Nat \ {0} /\ Len(Table) \in Nat /\ Top \in Frames /\ Top = stack[Len(stack)]
      /\ Top.dir \in Dirs /\ Table = image.dirs[Top.dir] /\ image \in Images
  BY <1>1, Innermost DEF WalkState
<1>3. Top.off \in Nat /\ Top.off + 1 \in 1..Len(Table) /\ (Len(Table) % SlotsPerSector) = 0
  BY <1>1, <1>2, TableOf DEF Frames
<1>4. /\ AlignSlot(Top.off) \in Top.off..Len(Table) /\ AlignSlot(Top.off) \in Nat
      /\ \A m \in (Top.off + 1)..AlignSlot(Top.off) : SectorOf(m) = SectorOf(Top.off + 1)
  <2>1. AlignSlot(Top.off) \in Top.off..Len(Table)
    BY <1>1, <1>2, <1>3, NextSector
  <2> QED BY <1>1, <1>2, <1>3, <2>1, NextSector
<1>5. \A m \in (Top.off + 1)..AlignSlot(Top.off) : Table[m] = Pad
  <2>1. \A m \in (Top.off + 1)..Len(Table) : SectorOf(m) = SectorOf(Top.off + 1) => Table[m] = Pad
    BY <1>1, <1>2, <1>3, TableOf
  <2>2. \A m \in (Top.off + 1)..AlignSlot(Top.off) : m \in (Top.off + 1)..Len(Table)
    BY <1>2, <1>3, <1>4
  <2> QED BY <1>4, <2>1, <2>2
<1>6. stack' = [stack EXCEPT ![Len(stack)].off = AlignSlot(Top.off)]
  BY <1>2 DEF SkipPadding
<1>7. /\ stack' \in Seq(Frames) /\ Len(stack') = Len(stack)
      /\ \A k \in 1..Len(stack) :
           stack'[k].dir = stack[k].dir /\ (k # Len(stack) => stack'[k].off = stack[k].off)
      /\ stack'[Len(stack)].off = AlignSlot(Top.off)
  BY <1>1, <1>4, <1>6, OffsetMoved
<1>8. ~(Len(stack') > Len(stack)) /\ stack'[Len(stack)].off \in Top.off..Len(Table)
  BY <1>2, <1>4, <1>7
<1>9. minSector \in Nat /\ maxSector \in Nat /\ (defaultXex = NoEntry \/ defaultXex \in Xexes)
  BY DEF ScanInv, RangeInv
<1>10. minSector' <= minSector /\ maxSector' >= maxSector
  BY <1>1, <1>9
<1> QED BY <1>1, <1>5, <1>7, <1>8, <1>9, <1>10, CallGoesOn

(* A file or a directory is taken. *)
LEMMA TakeStep == ASSUME ScanInv, TakeFile \/ TakeDirectory PROVE ScanInv'
<1>1. /\ pc = "scan" /\ WalkState /\ image' = image /\ pc' = pc /\ ret' = ret
      /\ Top.off < Len(Table) /\ Slot # Pad /\ Slot = Table[Top.off + 1]
      /\ WidenExtent(Slot)
  BY DEF TakeFile, TakeDirectory, AtSlot, ScanInv, Slot
<1>2. /\ Len(stack) \in Nat \ {0} /\ Len(Table) \in Nat /\ Top \in Frames /\ Top = stack[Len(stack)]
      /\ Top.dir \in Dirs /\ Top.dir \in ReachableDirs /\ Table = image.dirs[Top.dir] /\ image \in Images
  BY <1>1, Innermost DEF WalkState
<1>3. Top.off \in Nat /\ Top.off + 1 \in 1..Len(Table)
  BY <1>1, <1>2 DEF Frames
<1>4. IsEntry(image, Slot) /\ Slot \in EntriesOf(Top.dir)
  BY <1>1, <1>2, <1>3, TableOf
<1>5. Slot \in ReachableEntries /\ (Leads(Slot) => Slot.dir \in ReachableDirs)
  BY <1>2, <1>4, Reachable
<1>6. /\ Slot.sector \in Nat /\ SizeInSectors(Slot.size) \in Nat
      /\ LastByteSector(Slot) = Slot.sector + SizeInSectors(Slot.size)
  BY <1>4, Rounding DEF IsEntry, LastByteSector
<1>7. minSector \in Nat /\ maxSector \in Nat /\ (defaultXex = NoEntry \/ defaultXex \in Xexes)
  BY DEF ScanInv, RangeInv
<1>8. /\ minSector' \in Nat /\ maxSector' \in Nat /\ minSector' <= minSector /\ maxSector' >= maxSector
      /\ minSector' <= Slot.sector /\ Slot.sector + SizeInSectors(Slot.size) <= maxSector'
  BY <1>1, <1>6, <1>7 DEF WidenExtent, Higher, Lower
<1>9. PICK e : e = Slot
  OBVIOUS
<1>10. Covered(e)'
  BY <1>6, <1>8, <1>9 DEF Covered, LastByteSector
<1>11. Xexes' = Xexes
  BY <1>1, SameDisc
<1>12. /\ defaultXex \in Xexes => defaultXex' \in Xexes
       /\ defaultXex' = NoEntry \/ defaultXex' \in Xexes
       /\ e.kind = "file" /\ e.xex => defaultXex' \in Xexes
  <2>1. CASE TakeFile
    <3>1. e.kind = "file" /\ defaultXex' = (IF e.xex THEN e ELSE defaultXex)
      BY <1>9, <2>1 DEF TakeFile, ExecutableAfter
    <3>2. CASE e.xex
      <4>1. e \in Xexes /\ defaultXex' = e
        BY <1>5, <1>9, <3>1, <3>2 DEF Xexes
      <4> QED BY <4>1
    <3>3. CASE ~e.xex
      BY <1>7, <3>1, <3>3
    <3> QED BY <3>2, <3>3
  <2>2. CASE TakeDirectory
    <3>1. e.kind # "file" /\ defaultXex' = defaultXex
      BY <1>9, <2>2 DEF TakeDirectory
    <3> QED BY <1>7, <3>1
  <2> QED BY <2>1, <2>2
<1>13. Seen(e)'
  BY <1>10, <1>11, <1>12 DEF Seen
<1> DEFINE t == [stack EXCEPT ![Len(stack)].off = Top.off + 1]
<1>14. /\ t \in Seq(Frames) /\ Len(t) = Len(stack)
       /\ \A k \in 1..Len(stack) : t[k].dir = stack[k].dir /\ (k # Len(stack) => t[k] = stack[k])
       /\ t[Len(stack)].off = Top.off + 1
  BY <1>1, <1>3, OffsetMoved
<1>15. Advanced = t
  BY <1>2 DEF Advanced
<1> HIDE DEF t
<1>16. \A m \in (Top.off + 1)..(Top.off + 1) : \A x : x = Table[m] => x = e
  BY <1>1, <1>3, <1>9
<1>17. CASE stack' = t /\ ~Leads(e)
  <2>1. ~(Len(stack') > Len(stack)) /\ stack'[Len(stack)].off \in Top.off..Len(Table)
    BY <1>2, <1>3, <1>14, <1>17
  <2>0. stack'[Len(stack)].off = Top.off + 1
    BY <1>14, <1>17
  <2>2. \A m \in (Top.off + 1)..stack'[Len(stack)].off : \A x :
           x = Table[m] /\ x # Pad =>
             /\ Seen(x)'
             /\ Leads(x) => Len(stack') > Len(stack) /\ x.dir = stack'[Len(stack) + 1].dir
    BY <1>13, <1>16, <1>17, <2>0, <2>1
  <2>3. \A k \in 1..Len(stack) :
          stack'[k].dir = stack[k].dir /\ (k # Len(stack) => stack'[k].off = stack[k].off)
    BY <1>14, <1>17
  <2>4. stack' \in Seq(Frames) /\ Len(stack') \in {Len(stack), Len(stack) + 1}
    BY <1>14, <1>17
  <2> QED BY <1>1, <1>8, <1>12, <2>1, <2>2, <2>3, <2>4, CallGoesOn
<1>18. CASE /\ Leads(e)
            /\ stack' = Append(t, [dir |-> e.dir, off |-> 0, entered |-> FALSE])
  <2> DEFINE f == [dir |-> e.dir, off |-> 0, entered |-> FALSE]
  <2>1. f \in Frames /\ f.dir = e.dir /\ f.off = 0
    BY <1>5, <1>9, <1>18 DEF Frames
  <2> HIDE DEF f
  <2>2. stack' = Append(t, f)
    BY <1>18 DEF f
  <2>3. /\ stack' \in Seq(Frames) /\ Len(stack') = Len(stack) + 1 /\ stack'[Len(stack) + 1] = f
        /\ \A k \in 1..Len(stack) : stack'[k] = t[k]
    BY <1>2, <1>14, <2>1, <2>2
  <2>4. Len(stack) \in 1..Len(stack) /\ Len(stack') > Len(stack)
    BY <1>2, <2>3
  <2>5. stack'[Len(stack)].off = Top.off + 1 /\ Top.off + 1 \in Top.off..Len(Table)
    BY <1>2, <1>3, <1>14, <2>3, <2>4
  <2>6. \A m \in (Top.off + 1)..stack'[Len(stack)].off : \A x :
           x = Table[m] /\ x # Pad =>
             /\ Seen(x)'
             /\ Leads(x) => Len(stack') > Len(stack) /\ x.dir = stack'[Len(stack) + 1].dir
    BY <1>13, <1>16, <2>1, <2>3, <2>4, <2>5
  <2>7. \A k \in 1..Len(stack) :
          stack'[k].dir = stack[k].dir /\ (k # Len(stack) => stack'[k].off = stack[k].off)
    BY <1>14, <2>3
  <2> QED BY <1>1, <1>8, <1>12, <2>1, <2>3, <2>5, <2>6, <2>7, CallGoesOn
<1>19. \/ stack' = t /\ ~Leads(e)
       \/ Leads(e) /\ stack' = Append(t, [dir |-> e.dir, off |-> 0, entered |-> FALSE])
  <2>1. CASE TakeFile
    BY <1>9, <1>15, <2>1 DEF TakeFile, Leads
  <2>2. CASE TakeDirectory
    BY <1>9, <1>15, <2>2 DEF TakeDirectory, Leads
  <2> QED BY <2>1, <2>2
<1> QED BY <1>17, <1>18, <1>19

(* The range is rounded to units. *)
LEMMA RoundStep == ASSUME ScanInv, RoundToUnits PROVE ScanInv'
<1>1. /\ pc = "end" /\ pc' = "done" /\ UNCHANGED <<image, stack, ret, defaultXex>>
      /\ minSector' = IF ret THEN (minSector \div 2) * 2 ELSE minSector
      /\ maxSector' = IF ret THEN ((maxSector + 1) \div 2) * 2 ELSE maxSector
  BY DEF RoundToUnits, UnitEnd
<1>2. WalkState /\ RangeInv /\ (defaultXex = NoEntry \/ defaultXex \in Xexes)
  BY DEF ScanInv
<1>3. minSector \in Nat /\ maxSector \in Nat /\ minSector < maxSector
  BY <1>2 DEF RangeInv
<1>4. /\ minSector' \in Nat /\ maxSector' \in Nat /\ minSector' <= minSector /\ maxSector' >= maxSector
      /\ ret => minSector' % 2 = 0 /\ maxSector' % 2 = 0
  <2>1. CASE ret
    BY <1>1, <1>3, <2>1
  <2>2. CASE ~ret
    BY <1>1, <1>3, <2>2
  <2> QED BY <2>1, <2>2
<1>5. PICK V \in SUBSET Dirs : Walked(V) /\ Root.dir \in V
  BY <1>1 DEF ScanInv
<1>6. /\ Root' = Root /\ Dirs' = Dirs /\ Frames' = Frames /\ Xexes' = Xexes
      /\ \A d : EntriesOf(d)' = EntriesOf(d)
  BY <1>1, SameDisc
<1>7. image \in Images /\ Len(stack) = 0
  <2>1. Len(stack) \in Nat /\ ~(Len(stack) > 0) /\ image \in Images
    BY <1>1, <1>2 DEF WalkState
  <2> QED BY <2>1
<1>8. \A d \in V : \A e \in EntriesOf(d) : Seen(e)'
  <2>1. \A d \in V : \A e \in EntriesOf(d) : IsEntry(image, e) /\ Seen(e)
    BY <1>5, <1>7, TableOf DEF Walked
  <2>2. \A e : IsEntry(image, e) /\ Seen(e) => Seen(e)'
    BY <1>1, <1>4, SeenStays
  <2> QED BY <2>1, <2>2
<1>9. Walked(V)'
  <2>1. 1..Len(stack') = {}
    BY <1>1, <1>7
  <2> QED BY <1>5, <1>6, <1>8, <2>1 DEF Walked, Leads
<1>10. WalkState'
  BY <1>1, <1>2, <1>6, <1>7 DEF WalkState
<1>11. RangeInv'
  <2>1. WellFormed(image) /\ SectorBytes \in Nat \ {0} /\ Width \in Nat
    BY <1>7, ImagesAssumption, ScanAssumption
  <2>2. Root.sector \in Nat /\ Root.size \in 1..(Width - SectorBytes)
    BY <2>1 DEF WellFormed, Root
  <2>3. (Root.size + SectorBytes - 1) \div SectorBytes \in Int
    BY <2>1, <2>2
  <2>4. LastByteSector(Root) \in Int /\ LastByteSector(Root)' = LastByteSector(Root)
    BY <1>6, <2>2, <2>3 DEF LastByteSector
  <2>5. Covered(Root)'
    BY <1>2, <1>3, <1>4, <1>6, <2>2, <2>4 DEF RangeInv, Covered
  <2>6. minSector' < maxSector'
    BY <1>3, <1>4
  <2> QED BY <1>1, <1>4, <2>5, <2>6 DEF RangeInv
<1> QED BY <1>1, <1>2, <1>5, <1>6, <1>9, <1>10, <1>11 DEF ScanInv

(* Nothing happens. *)
LEMMA ScanRests == ASSUME ScanInv, UNCHANGED vars PROVE ScanInv'
<1>1. UNCHANGED <<image, pc, stack, ret, minSector, maxSector, defaultXex>>
  BY DEF vars
<1>2. /\ Root' = Root /\ Dirs' = Dirs /\ Frames' = Frames /\ Xexes' = Xexes
      /\ \A d : EntriesOf(d)' = EntriesOf(d)
  BY <1>1, SameDisc
<1>3. \A e : Seen(e)' <=> Seen(e)
  BY <1>1, <1>2 DEF Seen, Covered, LastByteSector
<1>4. \A V, k : WalkedSoFar(V, k)' <=> WalkedSoFar(V, k)
  BY <1>1, <1>3 DEF WalkedSoFar, Passed, Leads
<1>5. \A V : Walked(V)' <=> Walked(V)
  BY <1>1, <1>2, <1>3, <1>4 DEF Walked, Leads
<1>6. WalkState' /\ RangeInv'
  BY <1>1, <1>2 DEF ScanInv, WalkState, RangeInv, Covered, LastByteSector
<1> QED BY <1>1, <1>2, <1>5, <1>6 DEF ScanInv

(* The walk as a whole. *)
LEMMA ScanInvariant ==
  ASSUME ~ReadFails
  PROVE  Spec => []ScanInv
<1>1. Init => ScanInv
  BY ScanBegins
<1>2. ScanInv /\ [Next]_vars => ScanInv'
  BY EnterStep, PaddingStep, TakeStep, LeaveStep, RoundStep, ScanRests DEF Next
<1> QED BY <1>1, <1>2, PTL DEF Spec

(* At the end of a walk that succeeds all that can be reached is seen. *)
LEMMA AllSeen ==
  ASSUME ScanInv, Succeeded
  PROVE  \A e \in ReachableEntries : Seen(e)
<1>1. PICK V \in SUBSET Dirs : Walked(V) /\ Root.dir \in V
  BY DEF ScanInv, Succeeded
<1>2. \A d \in V : \A e \in EntriesOf(d) : Seen(e) /\ (Leads(e) => e.dir \in V)
  BY <1>1 DEF Walked
<1>3. ReachableDirs \subseteq V
  BY <1>1, <1>2, Reachable DEF ScanInv, WalkState
<1> QED BY <1>2, <1>3 DEF ReachableEntries

-------------------------------------------------------------------------------
(* getDiskEnd gives writeIsoBody a range of whole units in which every     *)
(* sector lies of every file and directory the root leads to, in whatever  *)
(* order the tables have them, with filler and empty directories between,  *)
(* if each table can be read.                                              *)
THEOREM NothingIsMissed ==
  ASSUME ~ReadFails
  PROVE  Spec => []DataCovered
<1>1. ScanInv => DataCovered
  <2>1. SUFFICES ASSUME ScanInv, Succeeded PROVE DataCovered
    BY DEF DataCovered, AllDataCovered, RangeIsWholeUnits
  <2>2. \A e \in ReachableEntries \cup {Root} : Covered(e)
    BY <2>1, AllSeen DEF Seen, ScanInv, RangeInv
  <2>3. minSector \in Nat /\ maxSector \in Nat /\ minSector < maxSector
        /\ minSector % 2 = 0 /\ maxSector % 2 = 0
    BY <2>1 DEF ScanInv, RangeInv, Succeeded
  <2>4. (maxSector - minSector) % 2 = 0 /\ maxSector > minSector
    BY <2>3
  <2> QED BY <2>2, <2>4 DEF DataCovered, AllDataCovered, RangeIsWholeUnits, Covered
<1> QED BY <1>1, ScanInvariant, PTL

(* The title's data come from a default.xex of the disc whenever the root  *)
(* leads to one.                                                           *)
THEOREM ExecutableIsFound ==
  ASSUME ~ReadFails
  PROVE  Spec => []ExecutableFound
<1>1. ScanInv => ExecutableFound
  <2>1. SUFFICES ASSUME ScanInv, Succeeded
                 PROVE  IF Xexes = {} THEN defaultXex = NoEntry ELSE defaultXex \in Xexes
    BY DEF ExecutableFound, Xexes
  <2>2. defaultXex = NoEntry \/ defaultXex \in Xexes
    BY <2>1 DEF ScanInv
  <2>3. Xexes # {} => defaultXex \in Xexes
    <3>1. SUFFICES ASSUME NEW e \in Xexes PROVE defaultXex \in Xexes
      OBVIOUS
    <3>2. e \in ReachableEntries /\ e.kind = "file" /\ e.xex
      BY DEF Xexes
    <3> QED BY <2>1, <3>2, AllSeen DEF Seen
  <2> QED BY <2>2, <2>3
<1> QED BY <1>1, ScanInvariant, PTL

-------------------------------------------------------------------------------
(***************************************************************************)
(* Opening the image in front of the walk.                                 *)
(***************************************************************************)

(* Where the descriptor that was taken may lie. *)
Taken(o) == (o = Xdki /\ HasBoth(DescriptorAt(o))) \/ o \in Heads

(* A place that has been tried has nothing getXgdBaseOffset would take.    *)
OpenInv ==
  /\ file \in Files
  /\ openPc \in {"open", "xdki", "xgd3", "xgd2", "opened", "failed"}
  /\ baseOffset \in {0, Xgd3 - IsoBase, Xgd2 - IsoBase}
  /\ openPc \in {"xdki", "xgd3", "xgd2", "opened"} => file # NoFile
  /\ openPc \in {"xgd3", "xgd2", "failed"} /\ file # NoFile => Xdki \notin Volumes
  /\ openPc \in {"xgd2", "failed"} /\ file # NoFile => Xgd3 \notin Heads
  /\ openPc = "failed" /\ file # NoFile => Xgd2 \notin Heads
  /\ openPc = "opened" =>
       \E o \in {Xdki, Xgd3, Xgd2} :
         Taken(o) /\ baseOffset = Base(o) /\ root = DescriptorAt(o).root

(* What lies in the file is read. *)
LEMMA InsideIsRead ==
  ASSUME file \in Files, file # NoFile, NEW o \in {Xdki, Xgd3, Xgd2},
         HasHead(DescriptorAt(o))
  PROVE  file.size > o
BY OpenAssumption DEF IsFile, HasHead, DescriptorAt

(* One try. *)
LEMMA TryKeepsOpenInv ==
  ASSUME OpenInv, TryXdki \/ TryXgd3 \/ TryXgd2
  PROVE  OpenInv'
<1>1. file' = file /\ file \in Files /\ file # NoFile
  BY DEF OpenInv, TryXdki, TryXgd3, TryXgd2, Try
<1>2. Volumes' = Volumes /\ Heads' = Heads
      /\ \A o : DescriptorAt(o)' = DescriptorAt(o) /\ Taken(o)' = Taken(o)
  BY <1>1 DEF Volumes, Heads, DescriptorAt, Taken, HasBoth, HasHead
<1>3. CASE TryXdki
  <2>1. HasBoth(DescriptorAt(Xdki)) => file.size > Xdki
    BY <1>1, InsideIsRead DEF HasBoth
  <2>2. Base(Xdki) = 0 BY OpenAssumption DEF Base, IsoBase
  <2> QED BY <1>1, <1>2, <1>3, <2>1, <2>2
          DEF OpenInv, TryXdki, Try, Volumes, Taken
<1>4. CASE TryXgd3
  <2>1. HasHead(DescriptorAt(Xgd3)) => file.size > Xgd3
    BY <1>1, InsideIsRead
  <2> QED BY <1>1, <1>2, <1>4, <2>1
          DEF OpenInv, TryXgd3, Try, Taken, Heads, Base
<1>5. CASE TryXgd2
  <2>1. HasHead(DescriptorAt(Xgd2)) => file.size > Xgd2
    BY <1>1, InsideIsRead
  <2> QED BY <1>1, <1>2, <1>5, <2>1
          DEF OpenInv, TryXgd2, Try, Taken, Heads, Base
<1> QED BY <1>3, <1>4, <1>5

(* Opening keeps it. *)
LEMMA OpenInvariant == OpenSpec => []OpenInv
<1>1. OpenInit => OpenInv
  BY DEF OpenInit, OpenInv
<1>2. OpenInv /\ [OpenNext]_openVars => OpenInv'
  <2>1. ASSUME OpenInv, OpenFile PROVE OpenInv'
    BY <2>1 DEF OpenInv, OpenFile, Volumes, Heads, DescriptorAt
  <2>2. ASSUME OpenInv, UNCHANGED openVars PROVE OpenInv'
    BY <2>2 DEF OpenInv, openVars, Volumes, Heads, Taken, HasBoth, HasHead, DescriptorAt
  <2> QED BY <2>1, <2>2, TryKeepsOpenInv DEF OpenNext
<1> QED BY <1>1, <1>2, PTL DEF OpenSpec

(* Wherever the three places lie and whatever else is in the file, an      *)
(* image with one descriptor is opened at it, and what is read later is    *)
(* counted from it.                                                        *)
THEOREM ImageIsOpened == OpenSpec => []OpensAtVolume
<1>1. OpenInv => OpensAtVolume
  <2>1. SUFFICES ASSUME OpenInv, openPc \in {"opened", "failed"}, file # NoFile,
                        NEW v \in {Xdki, Xgd3, Xgd2},
                        Volumes = {v}, Heads \subseteq {v}
                 PROVE  openPc = "opened" /\ Sought(IsoBase) = v /\ root = DescriptorAt(v).root
    BY DEF OpensAtVolume
  <2>2. v \in Volumes /\ (v # Xdki => v \in Heads)
    BY <2>1 DEF Volumes, Heads, HasBoth
  <2>3. openPc = "opened"
    BY <2>1, <2>2 DEF OpenInv
  <2>4. PICK o \in {Xdki, Xgd3, Xgd2} :
               Taken(o) /\ baseOffset = Base(o) /\ root = DescriptorAt(o).root
    BY <2>1, <2>3 DEF OpenInv
  <2>5. o = v
    BY <2>1, <2>4 DEF Taken, Volumes
  <2>6. Sought(IsoBase) = o
    BY <2>4, OpenAssumption DEF Sought, Base, IsoBase
  <2> QED BY <2>3, <2>4, <2>5, <2>6
<1> QED BY <1>1, OpenInvariant, PTL
===============================================================================
