------------------------------ MODULE LzxProofs ------------------------------
(***************************************************************************)
(* Proofs about LzxStream: whatever stream is decompressed and in whatever *)
(* amounts it is asked for, frames, runs and matches stay in the window,   *)
(* and what is put out has the length of the frames that are complete.     *)
(***************************************************************************)
EXTENDS LzxStream, SequenceTheorems, WellFoundedInduction, TLAPS

(* A set of numbers that is not empty has a least one. *)
NatLess == {p \in Nat \X Nat : p[1] < p[2]}

(* The order of the natural numbers is well founded. *)
LEMMA NatLessWellFounded == IsWellFoundedOn(NatLess, Nat)
BY NatLessThanWellFounded DEF OpToRel, NatLess

(* The least element. *)
LEMMA LeastElement ==
  ASSUME NEW T, T \subseteq Nat, T # {}
  PROVE  \E x \in T : \A y \in T : x <= y
<1>1. PICK x \in T : \A y \in T : ~ (<<y, x>> \in NatLess)
  BY NatLessWellFounded, WFMin
<1>2. ASSUME NEW y \in T PROVE x <= y
  <2>1. x \in Nat /\ y \in Nat
    OBVIOUS
  <2>2. y < x => <<y, x>> \in NatLess
    BY <2>1 DEF NatLess
  <2> QED BY <1>1, <2>1, <2>2
<1> QED BY <1>2

(* What holds for 0 and for each number with the one in front of it holds  *)
(* up to n.                                                                *)
LEMMA CountedUp ==
  ASSUME NEW n \in Nat, NEW S, 0 \in S, \A i \in 1..n : i - 1 \in S => i \in S
  PROVE  0..n \subseteq S
<1> DEFINE T == (0..n) \ S
<1>1. SUFFICES ASSUME T # {} PROVE FALSE
  OBVIOUS
<1>2. PICK i \in T : \A j \in T : i <= j
  <2>1. T \subseteq Nat
    OBVIOUS
  <2> HIDE DEF T
  <2> QED BY <1>1, <2>1, LeastElement
<1>3. i \in 1..n /\ i - 1 \in 0..n
  BY <1>2
<1>4. i - 1 \notin S
  BY <1>3
<1> QED BY <1>2, <1>3, <1>4

(* A function defined by its value before exists. *)
StepsOn(n, X) == [1..n -> [X -> X]]
Follows(f, n, X, a, G) ==
  f \in [0..n -> X] /\ f[0] = a /\ \A i \in 1..n : f[i] = G[i][f[i - 1]]

(* Such a function exists for any start and any steps. *)
LEMMA Recursion ==
  ASSUME NEW n \in Nat, NEW X, NEW a \in X, NEW G \in StepsOn(n, X)
  PROVE  \E f : Follows(f, n, X, a, G)
<1>0. \A i \in 1..n : \A y \in X : G[i][y] \in X
  BY DEF StepsOn
<1> DEFINE Good(f, k) == f[0] = a /\ \A i \in 1..k : f[i] = G[i][f[i - 1]]
           S == {k \in 0..n : \E f \in [0..k -> X] : Good(f, k)}
<1>1. 0 \in S
  <2>1. [i \in 0..0 |-> a] \in [0..0 -> X] /\ Good([i \in 0..0 |-> a], 0)
    OBVIOUS
  <2> HIDE DEF Good
  <2> QED BY <2>1
<1>2. ASSUME NEW k \in 1..n, k - 1 \in S PROVE k \in S
  <2>1. PICK f \in [0..(k - 1) -> X] : Good(f, k - 1)
    BY <1>2
  <2> DEFINE g == [i \in 0..k |-> IF i < k THEN f[i] ELSE G[k][f[k - 1]]]
  <2>2. k - 1 \in 0..(k - 1) /\ f[k - 1] \in X /\ k \in 1..n
    BY <2>1
  <2>3. G[k][f[k - 1]] \in X
    BY <1>0, <2>2
  <2>4. g \in [0..k -> X]
    BY <2>1, <2>3
  <2>5. g[0] = a
    BY <2>1
  <2>6. ASSUME NEW i \in 1..k PROVE g[i] = G[i][g[i - 1]]
    <3>1. i - 1 \in 0..(k - 1) /\ g[i - 1] = f[i - 1]
      OBVIOUS
    <3>2. CASE i < k
      <4>1. i \in 1..(k - 1) /\ g[i] = f[i]
        BY <3>2
      <4> QED BY <2>1, <3>1, <4>1
    <3>3. CASE i = k
      <4>1. g[i] = G[i][f[i - 1]]
        BY <3>3
      <4> QED BY <3>1, <4>1
    <3> QED BY <3>2, <3>3
  <2>7. Good(g, k)
    BY <2>5, <2>6
  <2> HIDE DEF Good, g
  <2> QED BY <2>4, <2>7
<1>3. 0..n \subseteq S
  <2> HIDE DEF S
  <2> QED BY <1>1, <1>2, CountedUp
<1>4. n \in S
  BY <1>3
<1> QED BY <1>4 DEF Follows

(* What the window may hold, and the copy of one cell of a match. *)
Windows == [0..(WindowSize - 1) -> Int]
CopyStep(w, k, off) ==
  LET to == windowPosn + k - 1 IN [w EXCEPT ![to] = w[(to - off) % WindowSize]]
IsCopied(f, len, off) ==
  f = [k \in 0..len |-> IF k = 0 THEN window ELSE CopyStep(f[k - 1], k, off)]

(* A match's copy is such a function. *)
LEMMA CopyDefined ==
  ASSUME NEW len, NEW off
  PROVE  CopyMatch(len, off) = (CHOOSE f : IsCopied(f, len, off))[len]
BY DEF CopyMatch, IsCopied, CopyStep

(* A match that fits leaves a window. *)
LEMMA CopyTyped ==
  ASSUME LzxAssumption, window \in Windows, windowPosn \in Nat,
         NEW len \in Nat, NEW off \in Int, windowPosn + len <= WindowSize
  PROVE  CopyMatch(len, off) \in Windows
<1> DEFINE X == Windows
           G == [k \in 1..len |-> [w \in X |-> CopyStep(w, k, off)]]
           copied == CHOOSE f : IsCopied(f, len, off)
<1>1. ASSUME NEW k \in 1..len, NEW w \in X PROVE CopyStep(w, k, off) \in X
  <2> DEFINE to == windowPosn + k - 1
             from == (to - off) % WindowSize
  <2>1. WindowSize \in Nat \ {0}
    BY DEF LzxAssumption
  <2>2. to \in 0..(WindowSize - 1)
    BY <2>1
  <2>3. from \in 0..(WindowSize - 1)
    <3> HIDE DEF to
    <3> QED BY <2>1, <2>2
  <2> HIDE DEF to, from
  <2>4. [w EXCEPT ![to] = w[from]] \in [0..(WindowSize - 1) -> Int]
    BY <2>2, <2>3 DEF Windows
  <2> QED BY <2>4 DEF CopyStep, Windows, to, from
<1>2. G \in StepsOn(len, X) /\ \A k \in 1..len : \A w \in X : G[k][w] = CopyStep(w, k, off)
  <2> HIDE DEF X
  <2> QED BY <1>1 DEF StepsOn
<1>3. PICK f : f \in [0..len -> X] /\ f[0] = window /\ \A k \in 1..len : f[k] = G[k][f[k - 1]]
  <2> HIDE DEF G
  <2>1. PICK f : Follows(f, len, X, window, G)
    <3>1. window \in X
      OBVIOUS
    <3> HIDE DEF X
    <3> QED BY <1>2, <3>1, Recursion
  <2> QED BY <2>1 DEF Follows
<1> HIDE DEF G, X
<1>4. IsCopied(f, len, off)
  <2>1. ASSUME NEW k \in 0..len
        PROVE  f[k] = IF k = 0 THEN window ELSE CopyStep(f[k - 1], k, off)
    <3>1. k # 0 => k \in 1..len /\ k - 1 \in 0..len
      OBVIOUS
    <3> QED BY <1>2, <1>3, <3>1
  <2> QED BY <1>3, <2>1 DEF IsCopied
<1>5. IsCopied(copied, len, off)
  BY <1>4
<1> HIDE DEF copied
<1> DEFINE S == {k \in 0..len : copied[k] \in X}
<1>6. copied = [k \in 0..len |-> IF k = 0 THEN window ELSE CopyStep(copied[k - 1], k, off)]
  BY <1>5 DEF IsCopied
<1>7. 0 \in S
  BY <1>6 DEF X
<1>8. ASSUME NEW k \in 1..len, k - 1 \in S PROVE k \in S
  <2>1. copied[k] = CopyStep(copied[k - 1], k, off)
    BY <1>6
  <2> QED BY <1>1, <1>8, <2>1
<1>9. len \in S
  <2>1. 0..len \subseteq S
    <3> HIDE DEF S
    <3> QED BY <1>7, <1>8, CountedUp
  <2> QED BY <2>1
<1> QED BY <1>9, CopyDefined DEF X, copied

(* One instruction or cell, in front of what is behind it. *)
Operand(v, at, size) ==
  IF v >= -at /\ v < size THEN (IF v >= 0 THEN v - at ELSE v + size) ELSE v
TranslateStep(data, pos, size, p, next, second) ==
  IF p > Len(data) - Margin THEN SubSeq(data, p, Len(data))
  ELSE IF data[p] # E8 THEN <<data[p]>> \o next
  ELSE <<E8, Operand(data[p + 1], pos + p - 1, size)>> \o second
IsTranslated(f, data, pos, size) ==
  f = [p \in 1..(Len(data) + 2) |-> TranslateStep(data, pos, size, p, f[p + 1], f[p + 2])]

(* The walk over a frame is such a function, from its end. *)
LEMMA TranslatedDefined ==
  ASSUME NEW data, NEW pos, NEW size
  PROVE  Translated(data, pos, size) = (CHOOSE f : IsTranslated(f, data, pos, size))[1]
BY DEF Translated, IsTranslated, TranslateStep, Operand

(* A step of it takes one cell or two. *)
LEMMA TranslateStepTyped ==
  ASSUME LzxAssumption, NEW data \in Seq(Int), NEW pos \in Int, NEW size \in Int,
         NEW p \in 1..(Len(data) + 2), NEW next, NEW second,
         p <= Len(data) - Margin => next \in Seq(Int) /\ second \in Seq(Int)
  PROVE  LET s == TranslateStep(data, pos, size, p, next, second) IN
         /\ s \in Seq(Int)
         /\ p > Len(data) - Margin => Len(s) = IF p <= Len(data) THEN Len(data) - p + 1 ELSE 0
         /\ p <= Len(data) - Margin => Len(s) \in {1 + Len(next), 2 + Len(second)}
<1> DEFINE n == Len(data)
           s == TranslateStep(data, pos, size, p, next, second)
<1>1. n \in Nat /\ Margin \in Nat \ {0} /\ E8 \in Int /\ (\A k \in 1..n : data[k] \in Int)
  BY LenProperties, ElementOfSeq DEF LzxAssumption
<1>2. CASE p > n - Margin
  <2>1. s = SubSeq(data, p, n)
    BY <1>2 DEF TranslateStep
  <2>2. \A k \in p..n : data[k] \in Int
    BY <1>1
  <2>3. SubSeq(data, p, n) \in Seq(Int) /\ Len(SubSeq(data, p, n)) = IF p <= n THEN n - p + 1 ELSE 0
    <3> HIDE DEF n
    <3>1. p \in Int /\ n \in Int
      BY <1>1
    <3> QED BY <2>2, <3>1, SubSeqProperties
  <2> QED BY <1>1, <1>2, <2>1, <2>3
<1>3. CASE ~ (p > n - Margin)
  <2>1. p <= n - Margin /\ p \in 1..n /\ p + 1 \in 1..n
    BY <1>1, <1>3
  <2>2. next \in Seq(Int) /\ second \in Seq(Int) /\ data[p] \in Int /\ data[p + 1] \in Int
    BY <1>1, <2>1
  <2>3. CASE data[p] # E8
    <3>1. s = <<data[p]>> \o next
      BY <1>3, <2>3 DEF TranslateStep
    <3>2. <<data[p]>> \in Seq(Int) /\ Len(<<data[p]>>) = 1
      BY <2>2
    <3>3. s \in Seq(Int) /\ Len(s) = 1 + Len(next)
      BY <2>2, <3>1, <3>2, ConcatProperties
    <3> QED BY <1>3, <3>3
  <2>4. CASE data[p] = E8
    <3> DEFINE v == Operand(data[p + 1], pos + p - 1, size)
    <3>1. s = <<E8, v>> \o second
      BY <1>3, <2>4 DEF TranslateStep
    <3>2. v \in Int
      BY <2>2 DEF Operand
    <3>3. <<E8, v>> \in Seq(Int) /\ Len(<<E8, v>>) = 2
      BY <1>1, <3>2
    <3> HIDE DEF v
    <3>4. s \in Seq(Int) /\ Len(s) = 2 + Len(second)
      BY <2>2, <3>1, <3>3, ConcatProperties
    <3> QED BY <1>3, <3>4
  <2> QED BY <2>3, <2>4
<1> QED BY <1>2, <1>3

(* A frame is as long after the translation as before. *)
LEMMA TranslatedTyped ==
  ASSUME LzxAssumption, NEW data \in Seq(Int), NEW pos \in Int, NEW size \in Int
  PROVE  Translated(data, pos, size) \in Seq(Int) /\ Len(Translated(data, pos, size)) = Len(data)
<1> DEFINE n == Len(data)
           Step(p, a, b) == TranslateStep(data, pos, size, p, a, b)
           X == Seq(Int) \X Seq(Int)
           e == <<(<< >>), (<< >>)>>
           G == [i \in 1..(n + 1) |-> [y \in X |-> <<Step(n + 2 - i, y[1], y[2]), y[1]>>]]
           walk == CHOOSE f : IsTranslated(f, data, pos, size)
<1>1. n \in Nat /\ n + 1 \in Nat /\ Margin \in Nat \ {0}
  BY LenProperties DEF LzxAssumption
<1>2. \A p \in 1..(n + 2) : \A a \in Seq(Int), b \in Seq(Int) : Step(p, a, b) \in Seq(Int)
  BY TranslateStepTyped
<1>3. \A p \in 1..(n + 2) : \A a, b :
        p > n - Margin => /\ Step(p, a, b) \in Seq(Int)
                          /\ Len(Step(p, a, b)) = IF p <= n THEN n - p + 1 ELSE 0
  <2> SUFFICES ASSUME NEW p \in 1..(n + 2), NEW a, NEW b, p > n - Margin
               PROVE  /\ Step(p, a, b) \in Seq(Int)
                      /\ Len(Step(p, a, b)) = IF p <= n THEN n - p + 1 ELSE 0
    OBVIOUS
  <2>1. p <= n - Margin => a \in Seq(Int) /\ b \in Seq(Int)
    BY <1>1
  <2> QED BY <2>1, TranslateStepTyped
<1>4. \A p \in 1..(n + 2) : \A a \in Seq(Int), b \in Seq(Int) :
        p <= n - Margin => Len(Step(p, a, b)) \in {1 + Len(a), 2 + Len(b)}
  BY TranslateStepTyped
<1>5. \A p \in 1..(n + 2) : \A a, b, c :
        p > n - Margin => Step(p, a, b) = Step(p, a, c)
  BY DEF TranslateStep
<1>6. \A a, b : Step(n + 2, a, b) = << >>
  <2>1. n + 2 > n - Margin
    BY <1>1
  <2>2. SubSeq(data, n + 2, n) = << >>
    <3> HIDE DEF n
    <3>1. n + 2 \in Int /\ n \in Int /\ n < n + 2
      BY <1>1
    <3> QED BY <3>1, SubSeqEmpty
  <2> QED BY <2>1, <2>2 DEF TranslateStep
<1> HIDE DEF Step
<1>7. \A i \in 1..(n + 1) : n + 2 - i \in 1..(n + 2)
  BY <1>1
<1>8. \A i \in 1..(n + 1) : \A y \in X : <<Step(n + 2 - i, y[1], y[2]), y[1]>> \in X
  <2> SUFFICES ASSUME NEW i \in 1..(n + 1), NEW y \in X
               PROVE  <<Step(n + 2 - i, y[1], y[2]), y[1]>> \in X
    OBVIOUS
  <2>1. y[1] \in Seq(Int) /\ y[2] \in Seq(Int)
    OBVIOUS
  <2>2. Step(n + 2 - i, y[1], y[2]) \in Seq(Int)
    <3> DEFINE p == n + 2 - i
    <3>1. p \in 1..(n + 2)
      BY <1>7
    <3> HIDE DEF p
    <3>2. Step(p, y[1], y[2]) \in Seq(Int)
      BY <1>2, <2>1, <3>1
    <3> QED BY <3>2 DEF p
  <2> QED BY <2>1, <2>2
<1>9. G \in StepsOn(n + 1, X)
      /\ \A i \in 1..(n + 1) : \A y \in X : G[i][y] = <<Step(n + 2 - i, y[1], y[2]), y[1]>>
  <2> HIDE DEF X, n
  <2> QED BY <1>8 DEF StepsOn
<1>10. PICK g : /\ g \in [0..(n + 1) -> X] /\ g[0] = e
                /\ \A i \in 1..(n + 1) : g[i] = G[i][g[i - 1]]
  <2> HIDE DEF G
  <2>1. e \in X
    BY EmptySeq
  <2> HIDE DEF X, e
  <2>2. PICK g : Follows(g, n + 1, X, e, G)
    <3> DEFINE m == n + 1
    <3>1. m \in Nat /\ G \in StepsOn(m, X)
      BY <1>1, <1>9
    <3> HIDE DEF m
    <3>2. \E g : Follows(g, m, X, e, G)
      BY <2>1, <3>1, Recursion
    <3> QED BY <3>2 DEF m
  <2> QED BY <2>2 DEF Follows
<1> DEFINE f == [p \in 1..(n + 2) |-> g[n + 2 - p][1]]
<1>11. \A i \in 1..(n + 1) : g[i] = <<Step(n + 2 - i, g[i - 1][1], g[i - 1][2]), g[i - 1][1]>>
  <2> SUFFICES ASSUME NEW i \in 1..(n + 1)
               PROVE  g[i] = <<Step(n + 2 - i, g[i - 1][1], g[i - 1][2]), g[i - 1][1]>>
    OBVIOUS
  <2>1. i - 1 \in 0..(n + 1)
    BY <1>1
  <2>2. g[i - 1] \in X /\ g[i] = G[i][g[i - 1]]
    BY <1>10, <2>1
  <2> HIDE DEF G, X, n
  <2> QED BY <1>9, <2>2
<1> HIDE DEF G
<1>12. IsTranslated(f, data, pos, size)
  <2>1. ASSUME NEW p \in 1..(n + 2) PROVE f[p] = Step(p, f[p + 1], f[p + 2])
    <3>1. CASE p = n + 2
      <4>1. f[p] = << >>
        BY <1>1, <1>10, <3>1
      <4> QED BY <1>6, <3>1, <4>1
    <3>2. CASE p = n + 1
      <4>1. f[p] = g[1][1] /\ f[p + 1] = g[0][1]
        BY <1>1, <3>2
      <4>2. g[1][1] = Step(n + 1, g[0][1], g[0][2])
        BY <1>1, <1>11
      <4>3. p > n - Margin
        BY <1>1, <3>2
      <4>4. Step(p, g[0][1], g[0][2]) = Step(p, g[0][1], f[p + 2])
        <5> HIDE DEF f
        <5> QED BY <1>5, <4>3
      <4> QED BY <3>2, <4>1, <4>2, <4>4
    <3>3. CASE p \in 1..n
      <4> DEFINE i == n + 2 - p
      <4>1. i \in 1..(n + 1) /\ i - 1 \in 1..(n + 1) /\ n + 2 - i = p
            /\ n + 2 - (p + 1) = i - 1 /\ n + 2 - (p + 2) = (i - 1) - 1
            /\ p + 1 \in 1..(n + 2) /\ p + 2 \in 1..(n + 2)
        BY <1>1, <3>3
      <4>2. f[p] = g[i][1] /\ f[p + 1] = g[i - 1][1] /\ f[p + 2] = g[(i - 1) - 1][1]
        BY <4>1
      <4> HIDE DEF i, f
      <4>3. g[i][1] = Step(p, g[i - 1][1], g[i - 1][2])
        <5>1. g[i] = <<Step(n + 2 - i, g[i - 1][1], g[i - 1][2]), g[i - 1][1]>>
          BY <1>11, <4>1
        <5>2. g[i][1] = Step(n + 2 - i, g[i - 1][1], g[i - 1][2])
          BY <5>1
        <5>3. n + 2 - i = p
          BY <4>1
        <5> HIDE DEF n
        <5> QED BY <5>2, <5>3
      <4>4. g[i - 1][2] = g[(i - 1) - 1][1]
        <5> DEFINE h == i - 1
        <5>1. h \in 1..(n + 1)
          BY <4>1
        <5> HIDE DEF h
        <5>2. g[h] = <<Step(n + 2 - h, g[h - 1][1], g[h - 1][2]), g[h - 1][1]>>
          BY <1>11, <5>1
        <5>3. g[h][2] = g[h - 1][1]
          BY <5>2
        <5> QED BY <5>3 DEF h
      <4> QED BY <4>2, <4>3, <4>4
    <3> QED BY <1>1, <3>1, <3>2, <3>3
  <2> DEFINE Body(p) == Step(p, f[p + 1], f[p + 2])
  <2>2. f = [p \in 1..(n + 2) |-> f[p]]
    OBVIOUS
  <2> HIDE DEF f
  <2>3. f = [p \in 1..(n + 2) |-> Step(p, f[p + 1], f[p + 2])]
    BY <2>1, <2>2
  <2> QED BY <2>3 DEF IsTranslated, Step
<1>13. IsTranslated(walk, data, pos, size)
  <2> HIDE DEF f
  <2> QED BY <1>12
<1> HIDE DEF walk, f
<1>14. walk = [p \in 1..(n + 2) |-> Step(p, walk[p + 1], walk[p + 2])]
  BY <1>13 DEF IsTranslated, Step
<1>15. \A p \in 1..(n + 2) : walk[p] = Step(p, walk[p + 1], walk[p + 2])
  <2> HIDE DEF n
  <2> QED BY <1>14
(* From the end: i cells are behind place n + 2 - i. *)
<1> DEFINE Behind(i) == walk[n + 2 - i]
           S == {i \in 0..(n + 1) :
                   /\ Behind(i) \in Seq(Int) /\ (i >= 1 => Len(Behind(i)) = i - 1)
                   /\ i >= 1 => /\ Behind(i - 1) \in Seq(Int)
                                /\ (i >= 2 => Len(Behind(i - 1)) = i - 2)}
<1>16. 0 \in S
  <2>1. Behind(0) = << >>
    <3>1. n + 2 \in 1..(n + 2) /\ n + 2 - 0 = n + 2
      BY <1>1
    <3> QED BY <1>6, <1>15, <3>1
  <2>2. Behind(0) \in Seq(Int)
    BY <2>1, EmptySeq
  <2> HIDE DEF Behind
  <2> QED BY <1>1, <2>2
<1>17. ASSUME NEW i \in 1..(n + 1), i - 1 \in S PROVE i \in S
  <2> DEFINE p == n + 2 - i
             a == Behind(i - 1)
             b == Behind(i - 2)
  <2>1. p \in 1..(n + 2) /\ p = n + 2 - i /\ n + 2 - (i - 1) = p + 1 /\ n + 2 - (i - 2) = p + 2
        /\ (i - 1) - 1 = i - 2
    BY <1>1
  <2>2. Behind(i) = Step(p, a, b)
    BY <1>15, <2>1
  <2>3. a \in Seq(Int) /\ (i >= 2 => Len(a) = i - 2)
        /\ (i >= 2 => b \in Seq(Int)) /\ (i >= 3 => Len(b) = i - 3)
    <3> HIDE DEF Behind
    <3> QED BY <1>17, <2>1
  <2> HIDE DEF p, a, b
  <2>4. CASE p > n - Margin
    <3>1. Step(p, a, b) \in Seq(Int) /\ Len(Step(p, a, b)) = IF p <= n THEN n - p + 1 ELSE 0
      BY <1>3, <2>1, <2>4
    <3>2. Behind(i) \in Seq(Int) /\ Len(Behind(i)) = i - 1
      <4>1. (IF p <= n THEN n - p + 1 ELSE 0) = i - 1
        <5> HIDE DEF n, Behind, Step
        <5> QED BY <1>1, <2>1
      <4> HIDE DEF n, Behind, Step
      <4> QED BY <2>2, <3>1, <4>1
    <3> HIDE DEF Behind
    <3> QED BY <2>3, <3>2 DEF a
  <2>5. CASE ~ (p > n - Margin)
    <3>1. p <= n - Margin /\ i >= 3
      BY <1>1, <2>1, <2>5
    <3>2. Step(p, a, b) \in Seq(Int) /\ Len(Step(p, a, b)) \in {1 + Len(a), 2 + Len(b)}
      <4>1. a \in Seq(Int) /\ b \in Seq(Int) /\ p \in 1..(n + 2) /\ p <= n - Margin
        BY <1>1, <2>1, <2>3, <3>1
      <4> QED BY <1>2, <1>4, <4>1
    <3>3. Behind(i) \in Seq(Int) /\ Len(Behind(i)) = i - 1
      BY <2>2, <2>3, <3>1, <3>2
    <3> HIDE DEF Behind
    <3> QED BY <2>3, <3>3 DEF a
  <2> QED BY <2>4, <2>5
<1>18. n + 1 \in S
  <2> DEFINE m == n + 1
  <2>1. m \in Nat
    BY <1>1
  <2> HIDE DEF S, m
  <2>2. 0 \in S /\ \A i \in 1..m : i - 1 \in S => i \in S
    BY <1>16, <1>17 DEF m
  <2>3. 0..m \subseteq S
    BY <2>1, <2>2, CountedUp
  <2>4. m \in S
    BY <2>1, <2>3
  <2> QED BY <2>4 DEF m
<1>19. walk[1] \in Seq(Int) /\ Len(walk[1]) = n
  <2>1. n + 2 - (n + 1) = 1 /\ n + 1 >= 1 /\ (n + 1) - 1 = n
    BY <1>1
  <2> QED BY <1>18, <2>1
<1> QED BY <1>19, TranslatedDefined DEF walk

(* Where frame n starts. *)
FrameStart(n) == n * Frame

(* What the decompressor has put out, and what its caller has asked for.   *)
Output == Len(written) + Len(stored)
AskedFor == Len(written) + outBytes

(* Types, and the block that is in hand. *)
LzxTyped ==
  /\ stream \in Streams
  /\ pc \in {"idle", "frame", "decode", "run"} /\ error \in {"ok", "read", "decrunch"}
  /\ outBytes \in Nat /\ endFrame \in Nat /\ frame \in Nat /\ frameSize \in Nat
  /\ framePosn \in Nat /\ windowPosn \in Nat /\ todo \in Nat /\ thisRun \in Int
  /\ written \in Seq(Int) /\ stored \in Seq(Int) /\ window \in Windows
  /\ block \in 0..Len(stream.blocks) /\ token \in Nat \ {0} /\ blockRemaining \in Nat
  /\ R \in Nat \X Nat \X Nat /\ filesize \in Nat /\ curpos \in Nat
  /\ blockRemaining > 0 \/ pc = "run" => block # 0
  /\ blockType = "uncompressed" => block # 0 /\ Block.type = "uncompressed"

(* Output and window go together, frame by frame: a frame starts at a      *)
(* multiple of the frames' size or is empty, so none crosses the window's  *)
(* edge; what is left to decode ends where the frame does.                 *)
LzxControl ==
  /\ Output = Least(FrameStart(frame), stream.length)
  /\ windowPosn <= WindowSize /\ framePosn < WindowSize
  /\ (\E n \in Nat : framePosn = FrameStart(n)) \/ Output = stream.length
  /\ pc # "idle" => /\ error = "ok" /\ AskedFor <= stream.length
                    /\ endFrame # 0 /\ FrameStart(endFrame - 1) <= AskedFor
  /\ pc \in {"idle", "frame"} /\ error = "ok" => windowPosn = framePosn
  /\ pc = "frame" /\ Len(stored) # 0 => endFrame <= frame
  /\ pc \in {"decode", "run"} => /\ Len(stored) = 0 /\ frameSize = FrameSize
                                 /\ framePosn + frameSize <= WindowSize
  /\ pc = "decode" /\ todo > 0 => windowPosn + todo = framePosn + frameSize
  /\ pc = "run" => /\ windowPosn + thisRun + todo = framePosn + frameSize
                   /\ todo > 0 => blockRemaining = 0

LzxInv == LzxTyped /\ LzxControl

(* Frames lie one behind the other. *)
LEMMA FrameStarts ==
  ASSUME LzxAssumption
  PROVE  /\ Frame \in Nat \ {0} /\ FrameStart(0) = 0
         /\ \A n \in Nat : FrameStart(n) \in Nat /\ FrameStart(n + 1) = FrameStart(n) + Frame
         /\ \A m, n \in Nat : m < n => FrameStart(m) + Frame <= FrameStart(n)
         /\ WindowSize \in Nat \ {0} /\ \E n \in Nat : WindowSize = FrameStart(n)
<1>1. Frame \in Nat \ {0} /\ WindowSize \in Nat \ {0} /\ WindowSize % Frame = 0
  BY DEF LzxAssumption
<1>2. \A a, b \in Nat : a * b \in Nat
  OBVIOUS
<1>3. \A n \in Nat : FrameStart(n) \in Nat /\ FrameStart(n + 1) = FrameStart(n) + Frame
  BY <1>1, <1>2 DEF FrameStart
<1>4. ASSUME NEW m \in Nat, NEW n \in Nat, m < n
      PROVE  FrameStart(m) + Frame <= FrameStart(n)
  <2> DEFINE d == n - m - 1
  <2>1. d \in Nat /\ n = m + 1 + d
    BY <1>4
  <2> HIDE DEF d
  <2>2. d * Frame \in Nat /\ m * Frame \in Nat
    BY <1>1, <1>2, <2>1
  <2>3. (m + 1 + d) * Frame = m * Frame + Frame + d * Frame
    BY <1>1, <2>1
  <2> QED BY <1>1, <2>1, <2>2, <2>3 DEF FrameStart
<1>5. \E n \in Nat : WindowSize = FrameStart(n)
  <2> DEFINE q == WindowSize \div Frame
  <2>1. q \in Nat /\ WindowSize = Frame * q + (WindowSize % Frame)
    BY <1>1
  <2> HIDE DEF q
  <2>2. WindowSize = q * Frame
    BY <1>1, <2>1
  <2> QED BY <2>1, <2>2 DEF FrameStart
<1>6. FrameStart(0) = 0
  BY <1>1 DEF FrameStart
<1> QED BY <1>1, <1>3, <1>4, <1>5, <1>6

(* The stream and its blocks. *)
LEMMA StreamFacts ==
  ASSUME LzxAssumption, stream \in Streams
  PROVE  /\ stream.length \in Nat /\ stream.filesize \in Nat
         /\ stream.ref \in Seq(Int) /\ Len(stream.ref) \in Nat /\ Len(stream.ref) <= WindowSize
         /\ Len(stream.blocks) \in Nat
         /\ \A b \in 1..Len(stream.blocks) : IsBlock(stream.blocks[b])
<1>1. IsStream(stream)
  BY DEF LzxAssumption
<1>2. {stream.length, stream.filesize} \subseteq Nat
  BY <1>1 DEF IsStream
<1> QED BY <1>1, <1>2, LenProperties DEF IsStream

(* The state lzxd_init leaves. *)
LEMMA LzxInitInv == ASSUME LzxAssumption, Init PROVE LzxInv
<1>1. /\ stream \in Streams /\ stream.length \in Nat /\ stream.ref \in Seq(Int)
      /\ Len(stream.ref) \in Nat /\ Len(stream.ref) <= WindowSize /\ Len(stream.blocks) \in Nat
  BY StreamFacts DEF Init
<1>2. window \in Windows
  <2> DEFINE r(p) == p - (WindowSize - Len(stream.ref))
             cell(p) == IF r(p) >= 0 THEN stream.ref[r(p) + 1]
                        ELSE IF stream.ref # << >> THEN 0 ELSE Junk
  <2>1. window = [p \in 0..(WindowSize - 1) |-> cell(p)]
    BY DEF Init
  <2>2. WindowSize \in Nat \ {0} /\ Junk \in Int
    BY DEF LzxAssumption
  <2>3. ASSUME NEW p \in 0..(WindowSize - 1) PROVE cell(p) \in Int
    <3>1. r(p) >= 0 => r(p) + 1 \in 1..Len(stream.ref)
      BY <1>1, <2>2
    <3>2. r(p) >= 0 => stream.ref[r(p) + 1] \in Int
      <4> HIDE DEF r
      <4> QED BY <1>1, <3>1, ElementOfSeq
    <3> HIDE DEF r
    <3> QED BY <2>2, <3>2
  <2> HIDE DEF cell
  <2> QED BY <2>1, <2>3 DEF Windows
<1>3. << >> \in Seq(Int) /\ Len(<< >>) = 0
  BY EmptySeq
<1>4. <<1, 1, 1>> \in Nat \X Nat \X Nat
  OBVIOUS
<1>5. LzxTyped
  BY <1>1, <1>2, <1>3, <1>4 DEF Init, LzxTyped
<1>6. LzxControl
  <2>1. FrameStart(0) = 0 /\ WindowSize \in Nat \ {0}
    BY FrameStarts
  <2>2. Least(0, stream.length) = 0
    BY <1>1 DEF Least
  <2> QED BY <1>1, <1>3, <2>1, <2>2 DEF Init, LzxControl, Output
<1> QED BY <1>5, <1>6 DEF LzxInv

(* What the numbers of a state are, for the arithmetic of the steps.       *)
LEMMA LzxNumbers ==
  ASSUME LzxAssumption, LzxInv
  PROVE  /\ Len(written) \in Nat /\ Len(stored) \in Nat /\ Output \in Nat
         /\ Output <= stream.length /\ Len(written) <= stream.length
         /\ FrameSize \in Nat /\ FrameSize <= Frame
         /\ FrameSize = Least(Frame, stream.length - Len(written))
<1>1. stream.length \in Nat /\ Frame \in Nat /\ FrameStart(frame) \in Nat
  BY StreamFacts, FrameStarts DEF LzxInv, LzxTyped
<1>2. Len(written) \in Nat /\ Len(stored) \in Nat
  BY LenProperties DEF LzxInv, LzxTyped
<1>3. Output = Len(written) + Len(stored) /\ Output = Least(FrameStart(frame), stream.length)
  BY DEF LzxInv, LzxControl, Output
<1>4. Output <= stream.length
  BY <1>1, <1>3 DEF Least
<1>5. FrameSize = Least(Frame, stream.length - Len(written))
  BY DEF FrameSize
<1> QED BY <1>1, <1>2, <1>3, <1>4, <1>5 DEF Least

(* The parts of the invariant that no step of these names can disturb.     *)
LEMMA LzxUnchanged == ASSUME LzxInv, UNCHANGED vars PROVE LzxInv'
BY DEF LzxInv, LzxTyped, LzxControl, vars, given, outputVars, intelVars, blockVars, windowVars,
       runVars, Output, AskedFor, FrameSize, Block, Least

(* A call takes what is stored first; it asks for whole frames up to the   *)
(* one its last cell is in.                                                *)
LEMMA CallStep ==
  ASSUME LzxAssumption, LzxInv, NEW n \in Asked, Call(n) PROVE LzxInv'
<1> DEFINE i == Least(Len(stored), n)
<1>1. /\ Len(written) \in Nat /\ Len(stored) \in Nat /\ Len(written) <= stream.length
      /\ stream.length \in Nat
  BY LzxNumbers, StreamFacts DEF LzxInv, LzxTyped
<1>2. n \in Nat /\ Len(written) + n <= stream.length
  <2>1. stream.length - Len(written) \in Nat /\ Amounts \subseteq Nat
    BY <1>1 DEF LzxAssumption
  <2> QED BY <2>1 DEF Asked, Call
<1>3. i \in Nat /\ i <= n /\ i <= Len(stored) /\ (n # i => i = Len(stored))
  BY <1>1, <1>2 DEF Least
<1>4. /\ written' = written \o SubSeq(stored, 1, i) /\ stored' = SubSeq(stored, i + 1, Len(stored))
      /\ outBytes' = n - i /\ pc' = (IF n = i THEN "idle" ELSE "frame")
      /\ endFrame' = (IF n = i THEN endFrame ELSE ((Len(written) + n) \div Frame) + 1)
  BY DEF Call
<1>5. /\ pc = "idle" /\ error = "ok"
      /\ UNCHANGED <<given, error, frame, framePosn, windowVars, runVars, blockVars, intelVars>>
  BY DEF Call
<1> HIDE DEF i
<1>6. /\ SubSeq(stored, 1, i) \in Seq(Int) /\ Len(SubSeq(stored, 1, i)) = i
      /\ stored' \in Seq(Int) /\ Len(stored') = Len(stored) - i
  <2>1. stored \in Seq(Int) /\ \A k \in 1..Len(stored) : stored[k] \in Int
    BY ElementOfSeq DEF LzxInv, LzxTyped
  <2>2. SubSeq(stored, 1, i) \in Seq(Int)
        /\ Len(SubSeq(stored, 1, i)) = IF 1 <= i THEN i - 1 + 1 ELSE 0
    <3>1. 1 \in Int /\ i \in Int /\ \A k \in 1..i : stored[k] \in Int
      BY <1>1, <1>3, <2>1
    <3> QED BY <3>1, SubSeqProperties
  <2>3. /\ SubSeq(stored, i + 1, Len(stored)) \in Seq(Int)
        /\ Len(SubSeq(stored, i + 1, Len(stored)))
             = IF i + 1 <= Len(stored) THEN Len(stored) - (i + 1) + 1 ELSE 0
    <3> DEFINE a == i + 1
               m == Len(stored)
    <3>1. a \in Int /\ m \in Int /\ \A k \in a..m : stored[k] \in Int
      BY <1>1, <1>3, <2>1
    <3> HIDE DEF a, m
    <3>2. /\ SubSeq(stored, a, m) \in Seq(Int)
          /\ Len(SubSeq(stored, a, m)) = IF a <= m THEN m - a + 1 ELSE 0
      BY <3>1, SubSeqProperties
    <3> QED BY <3>2 DEF a, m
  <2> QED BY <1>1, <1>3, <1>4, <2>2, <2>3
<1>7. written' \in Seq(Int) /\ Len(written') = Len(written) + i
  <2>1. written \in Seq(Int)
    BY DEF LzxInv, LzxTyped
  <2> QED BY <1>4, <1>6, <2>1, ConcatProperties
<1>8. endFrame' \in Nat /\ (n # i => endFrame' # 0 /\ FrameStart(endFrame' - 1) <= Len(written) + n)
  <2> DEFINE t == Len(written) + n
             q == t \div Frame
  <2>1. t \in Nat /\ Frame \in Nat \ {0} /\ endFrame \in Nat
    BY <1>1, <1>2 DEF LzxAssumption, LzxInv, LzxTyped
  <2> HIDE DEF t
  <2>2. q \in Nat /\ t = Frame * q + (t % Frame) /\ t % Frame \in Nat
    BY <2>1
  <2> HIDE DEF q
  <2>3. q * Frame <= t
    BY <2>1, <2>2
  <2>4. endFrame' = IF n = i THEN endFrame ELSE q + 1
    BY <1>4 DEF q, t
  <2>5. (q + 1) - 1 = q
    BY <2>2
  <2> QED BY <2>1, <2>2, <2>3, <2>4, <2>5 DEF FrameStart, t
<1>9. LzxTyped'
  <2>1. outBytes' \in Nat
    BY <1>2, <1>3, <1>4
  <2>2. pc' \in {"idle", "frame"}
    BY <1>4
  <2> QED BY <1>5, <1>6, <1>7, <1>8, <2>1, <2>2
         DEF LzxInv, LzxTyped, given, windowVars, runVars, blockVars, intelVars, Block
<1>10. LzxControl'
  <2>1. Output' = Output /\ stream' = stream
    BY <1>1, <1>3, <1>5, <1>6, <1>7 DEF Output, given
  <2>2. (Output = Least(FrameStart(frame), stream.length))'
    BY <1>5, <2>1 DEF LzxInv, LzxControl, given
  <2>3. AskedFor' = Len(written) + n
    <3>1. AskedFor' = Len(written') + outBytes'
      BY DEF AskedFor
    <3>2. outBytes' = n - i /\ Len(written') = Len(written) + i
      BY <1>4, <1>7
    <3> QED BY <1>1, <1>2, <1>3, <3>1, <3>2
  <2>4. pc' # "idle" => n # i /\ Len(stored') = 0
    BY <1>1, <1>3, <1>4, <1>6
  <2>5. pc' \in {"idle", "frame"}
    BY <1>4
  <2>6. windowPosn' = windowPosn /\ framePosn' = framePosn /\ error' = error
    BY <1>5 DEF windowVars
  <2> QED BY <1>2, <1>5, <1>8, <2>1, <2>2, <2>3, <2>4, <2>5, <2>6 DEF LzxInv, LzxControl
<1> QED BY <1>9, <1>10 DEF LzxInv

(* A frame begins where the last one ended, and fits the window.           *)
LEMMA StartFrameStep == ASSUME LzxAssumption, LzxInv, StartFrame PROVE LzxInv'
<1>1. /\ FrameSize \in Nat /\ FrameSize <= Frame /\ Len(written) \in Nat /\ Len(stored) \in Nat
      /\ FrameSize = Least(Frame, stream.length - Len(written))
      /\ stream.length \in Nat /\ stream.filesize \in Nat /\ Frame \in Nat
  BY LzxNumbers, StreamFacts, FrameStarts DEF LzxInv, LzxTyped
<1>2. Len(stored) = 0 /\ pc = "frame" /\ error = "ok" /\ windowPosn = framePosn
  BY <1>1 DEF StartFrame, LzxInv, LzxTyped, LzxControl
<1>3. framePosn + FrameSize <= WindowSize
  <2>1. framePosn \in Nat /\ framePosn < WindowSize /\ WindowSize \in Nat
    BY FrameStarts DEF LzxInv, LzxTyped, LzxControl
  <2>2. CASE Output = stream.length
    <3>1. FrameSize = 0
      BY <1>1, <1>2, <2>2 DEF Output, Least
    <3> QED BY <2>1, <3>1
  <2>3. CASE \E n \in Nat : framePosn = FrameStart(n)
    <3>1. PICK n \in Nat, m \in Nat : framePosn = FrameStart(n) /\ WindowSize = FrameStart(m)
      BY <2>3, FrameStarts
    <3>2. n < m
      <4>1. m < n => FrameStart(m) + Frame <= FrameStart(n)
        BY FrameStarts
      <4>2. m # n
        BY <2>1, <3>1
      <4> QED BY <1>1, <2>1, <3>1, <4>1, <4>2
    <3>3. FrameStart(n) + Frame <= FrameStart(m)
      BY <3>2, FrameStarts
    <3> QED BY <1>1, <2>1, <3>1, <3>3
  <2> QED BY <2>2, <2>3 DEF LzxInv, LzxControl
<1>4. UNCHANGED <<given, outputVars, frame, framePosn, windowVars, thisRun>>
  BY DEF StartFrame
<1>5. CASE AtReset /\ blockRemaining # 0
  <2>1. /\ error' = "decrunch" /\ pc' = "idle"
        /\ UNCHANGED <<todo, frameSize, blockVars, intelVars>>
    BY <1>5 DEF StartFrame, Fail
  <2>2. LzxTyped'
    BY <1>4, <2>1 DEF LzxInv, LzxTyped, given, outputVars, windowVars, blockVars, intelVars, Block
  <2>3. LzxControl'
    BY <1>4, <2>1 DEF LzxInv, LzxControl, given, outputVars, windowVars, Output
  <2> QED BY <2>2, <2>3 DEF LzxInv
<1>6. CASE ~ (AtReset /\ blockRemaining # 0)
  <2>1. /\ pc' = "decode" /\ R' = (IF AtReset THEN <<1, 1, 1>> ELSE R)
        /\ blockType' = (IF AtReset THEN "invalid" ELSE blockType)
        /\ filesize' = (IF AtReset \/ ~headerRead THEN stream.filesize ELSE filesize)
        /\ frameSize' = FrameSize /\ todo' = framePosn + FrameSize - windowPosn
        /\ UNCHANGED <<error, block, token, blockRemaining, started, curpos>>
    BY <1>6 DEF StartFrame
  <2>2. LzxTyped'
    <3>1. todo' \in Nat /\ frameSize' \in Nat /\ filesize' \in Nat
      BY <1>1, <1>2, <2>1 DEF LzxInv, LzxTyped
    <3>2. R' \in Nat \X Nat \X Nat
      <4>1. <<1, 1, 1>> \in Nat \X Nat \X Nat /\ R \in Nat \X Nat \X Nat
        BY DEF LzxInv, LzxTyped
      <4> QED BY <2>1, <4>1
    <3>3. blockType' = "uncompressed" => blockType = "uncompressed"
      BY <2>1
    <3> QED BY <1>4, <2>1, <3>1, <3>2, <3>3
           DEF LzxInv, LzxTyped, given, outputVars, windowVars, Block
  <2>3. LzxControl'
    <3>1. Output' = Output /\ AskedFor' = AskedFor /\ FrameSize' = FrameSize
      BY <1>4 DEF Output, AskedFor, FrameSize, given, outputVars
    <3>2. framePosn \in Nat /\ todo' = FrameSize
      BY <1>1, <1>2, <2>1 DEF LzxInv, LzxTyped
    <3>3. windowPosn' + todo' = framePosn' + frameSize'
      BY <1>2, <1>4, <2>1, <3>2 DEF windowVars
    <3> QED BY <1>2, <1>3, <1>4, <2>1, <3>1, <3>3
           DEF LzxInv, LzxControl, given, outputVars, windowVars
  <2> QED BY <2>2, <2>3 DEF LzxInv
<1> QED BY <1>5, <1>6

(* The tokens of the block in hand. *)
LEMMA TokenFacts ==
  ASSUME LzxAssumption, LzxInv, block # 0
  PROVE  /\ block \in 1..Len(stream.blocks) /\ IsBlock(Block)
         /\ DOMAIN Block.tokens = 1..Len(Block.tokens) /\ Len(Block.tokens) \in Nat
         /\ \A k \in DOMAIN Block.tokens :
              IsToken(Block.tokens[k]) /\ (Block.type = "uncompressed" => "lit" \in DOMAIN Block.tokens[k])
<1>1. block \in 1..Len(stream.blocks)
  BY StreamFacts DEF LzxInv, LzxTyped
<1>2. IsBlock(Block)
  BY <1>1, StreamFacts DEF LzxInv, LzxTyped, Block
<1> QED BY <1>1, <1>2 DEF IsBlock

(* A block's header. *)
LEMMA StartBlockStep == ASSUME LzxAssumption, LzxInv, StartBlock PROVE LzxInv'
<1>1. /\ pc = "decode" /\ todo > 0 /\ blockRemaining = 0
      /\ UNCHANGED <<given, outputVars, frame, framePosn, windowVars, runVars,
                     headerRead, filesize, curpos>>
  BY DEF StartBlock
<1>2. CASE block = Len(stream.blocks)
  <2>1. error' = "read" /\ pc' = "idle" /\ UNCHANGED <<blockVars, started>>
    BY <1>2 DEF StartBlock, Fail
  <2>2. LzxTyped'
    BY <1>1, <2>1 DEF LzxInv, LzxTyped, given, outputVars, windowVars, runVars, blockVars, Block
  <2>3. LzxControl'
    BY <1>1, <2>1 DEF LzxInv, LzxControl, given, outputVars, windowVars, runVars, Output
  <2> QED BY <2>2, <2>3 DEF LzxInv
<1>3. CASE block # Len(stream.blocks)
  <2> DEFINE b == stream.blocks[block + 1]
  <2>1. /\ block' = block + 1 /\ token' = 1 /\ blockRemaining' = b.length /\ blockType' = b.type
        /\ R' = (IF b.type = "uncompressed" THEN b.R ELSE R) /\ UNCHANGED <<pc, error>>
    BY <1>3 DEF StartBlock
  <2>2. block + 1 \in 1..Len(stream.blocks)
    BY <1>3, StreamFacts DEF LzxInv, LzxTyped
  <2>3. IsBlock(b)
    BY <2>2, StreamFacts DEF LzxInv, LzxTyped
  <2>4. b.length \in Nat /\ b.R \in Nat \X Nat \X Nat
    BY <2>3 DEF IsBlock
  <2>5. Block' = b
    BY <1>1, <2>1 DEF Block, given
  <2> HIDE DEF b
  <2>6. LzxTyped'
    <3>1. R' \in Nat \X Nat \X Nat
      BY <2>1, <2>4 DEF LzxInv, LzxTyped
    <3>2. block' \in 0..Len(stream'.blocks) /\ block' # 0
      BY <1>1, <2>1, <2>2, StreamFacts DEF LzxInv, LzxTyped, given
    <3> QED BY <1>1, <2>1, <2>4, <2>5, <3>1, <3>2
           DEF LzxInv, LzxTyped, given, outputVars, windowVars, runVars
  <2>7. LzxControl'
    BY <1>1, <2>1 DEF LzxInv, LzxControl, given, outputVars, windowVars, runVars, Output, AskedFor, FrameSize
  <2> QED BY <2>6, <2>7 DEF LzxInv
<1> QED BY <1>2, <1>3

(* A run ends at the end of the block or of the frame. *)
LEMMA StartRunStep == ASSUME LzxAssumption, LzxInv, StartRun PROVE LzxInv'
<1>1. /\ pc = "decode" /\ todo > 0 /\ blockRemaining > 0 /\ pc' = "run"
      /\ thisRun' = Least(blockRemaining, todo) /\ todo' = todo - Least(blockRemaining, todo)
      /\ blockRemaining' = blockRemaining - Least(blockRemaining, todo)
      /\ UNCHANGED <<given, error, outputVars, frame, framePosn, windowVars, frameSize,
                     block, token, blockType, R, intelVars>>
  BY DEF StartRun
<1>2. todo \in Nat /\ blockRemaining \in Nat /\ windowPosn \in Nat
  BY DEF LzxInv, LzxTyped
<1>3. /\ thisRun' \in Int /\ todo' \in Nat /\ blockRemaining' \in Nat
      /\ thisRun' + todo' = todo /\ (todo' > 0 => blockRemaining' = 0)
  BY <1>1, <1>2 DEF Least
<1>4. LzxTyped'
  BY <1>1, <1>3 DEF LzxInv, LzxTyped, given, outputVars, windowVars, intelVars, Block
<1>5. LzxControl'
  <2>1. windowPosn' + thisRun' + todo' = windowPosn + todo
    BY <1>1, <1>2, <1>3 DEF windowVars
  <2>2. windowPosn + todo = framePosn + frameSize
    BY <1>1 DEF LzxInv, LzxControl
  <2> QED BY <1>1, <1>3, <2>1, <2>2
         DEF LzxInv, LzxControl, given, outputVars, windowVars, Output, AskedFor, FrameSize
<1> QED BY <1>4, <1>5 DEF LzxInv

(* What a step of a run leaves alone. *)
Decoded ==
  /\ UNCHANGED <<given, pc, error, outputVars, frame, framePosn, todo, frameSize,
                 block, blockRemaining, blockType, intelVars>>
  /\ windowPosn' + thisRun' = windowPosn + thisRun /\ thisRun' \in Int
  /\ windowPosn' \in Nat /\ windowPosn' <= WindowSize
  /\ window' \in Windows /\ token' \in Nat \ {0} /\ R' \in Nat \X Nat \X Nat

(* Such a step keeps the invariant. *)
LEMMA DecodedStep == ASSUME LzxInv, pc = "run", Decoded PROVE LzxInv'
<1>1. LzxTyped'
  BY DEF LzxInv, LzxTyped, Decoded, given, outputVars, intelVars, Block
<1>2. LzxControl'
  <2>1. windowPosn' + thisRun' + todo' = windowPosn + thisRun + todo
    BY DEF LzxInv, LzxTyped, Decoded
  <2> QED BY <2>1 DEF LzxInv, LzxControl, Decoded, given, outputVars, Output, AskedFor, FrameSize
<1> QED BY <1>1, <1>2 DEF LzxInv

(* While a run lasts there is room for its cells. *)
LEMMA RunFits ==
  ASSUME LzxAssumption, LzxInv, Running
  PROVE  /\ thisRun \in Nat \ {0} /\ windowPosn \in Nat /\ token \in Nat \ {0} /\ block # 0
         /\ windowPosn + thisRun <= WindowSize /\ WindowSize \in Nat
<1>1. /\ thisRun \in Int /\ thisRun > 0 /\ windowPosn \in Nat /\ token \in Nat \ {0} /\ block # 0
      /\ todo \in Nat /\ pc = "run"
  BY DEF LzxInv, LzxTyped, Running
<1>2. windowPosn + thisRun + todo = framePosn + frameSize /\ framePosn + frameSize <= WindowSize
  BY <1>1 DEF LzxInv, LzxControl
<1>3. framePosn \in Nat /\ frameSize \in Nat /\ WindowSize \in Nat
  BY FrameStarts DEF LzxInv, LzxTyped
<1> QED BY <1>1, <1>2, <1>3

(* A literal is one cell. *)
LEMMA LiteralStep == ASSUME LzxAssumption, LzxInv, DecodeLiteral PROVE LzxInv'
<1>1. AtLiteral /\ Running /\ pc = "run"
  BY DEF DecodeLiteral, AtLiteral, Running
<1>2. /\ thisRun \in Nat \ {0} /\ windowPosn \in Nat /\ token \in Nat \ {0} /\ block # 0
      /\ windowPosn + thisRun <= WindowSize /\ WindowSize \in Nat
  BY <1>1, RunFits
<1>3. Token.lit \in Int
  BY <1>1, <1>2, TokenFacts DEF AtLiteral, Token, IsToken
<1>4. window' \in Windows
  <2>1. window \in [0..(WindowSize - 1) -> Int] /\ windowPosn \in 0..(WindowSize - 1)
    BY <1>2 DEF LzxInv, LzxTyped, Windows
  <2>2. [window EXCEPT ![windowPosn] = Token.lit] \in [0..(WindowSize - 1) -> Int]
    BY <1>3, <2>1
  <2> QED BY <2>2 DEF DecodeLiteral, Windows
<1>5. Decoded
  <2>1. /\ windowPosn' = windowPosn + 1 /\ thisRun' = thisRun - 1 /\ token' = token + 1
        /\ UNCHANGED <<given, pc, error, outputVars, frame, framePosn, todo, frameSize,
                       block, blockRemaining, blockType, R, intelVars>>
    BY DEF DecodeLiteral
  <2> QED BY <1>2, <1>4, <2>1 DEF Decoded, LzxInv, LzxTyped
<1> QED BY <1>1, <1>5, DecodedStep

(* An uncompressed block's cells, as many as there are of the run. *)
LEMMA StoredStep == ASSUME LzxAssumption, LzxInv, CopyStored PROVE LzxInv'
<1> DEFINE n == Least(thisRun, Len(Block.tokens) + 1 - token)
           cell(p) == IF p \in windowPosn..(windowPosn + n - 1)
                      THEN Block.tokens[token + p - windowPosn].lit ELSE window[p]
<1>1. Running /\ pc = "run" /\ blockType = "uncompressed" /\ token \in DOMAIN Block.tokens
  BY DEF CopyStored, Running
<1>2. /\ thisRun \in Nat \ {0} /\ windowPosn \in Nat /\ token \in Nat \ {0} /\ block # 0
      /\ windowPosn + thisRun <= WindowSize /\ WindowSize \in Nat
  BY <1>1, RunFits
<1>3. /\ DOMAIN Block.tokens = 1..Len(Block.tokens) /\ Len(Block.tokens) \in Nat
      /\ \A k \in DOMAIN Block.tokens : Block.tokens[k].lit \in Int
  BY <1>1, <1>2, TokenFacts DEF LzxInv, LzxTyped, IsToken
<1>4. n \in Nat /\ n <= thisRun /\ n <= Len(Block.tokens) + 1 - token
  BY <1>1, <1>2, <1>3 DEF Least
<1>5. /\ window' = [p \in DOMAIN window |-> cell(p)]
      /\ windowPosn' = windowPosn + n /\ thisRun' = thisRun - n /\ token' = token + n
      /\ UNCHANGED <<given, pc, error, outputVars, frame, framePosn, todo, frameSize,
                     block, blockRemaining, blockType, R, intelVars>>
  BY DEF CopyStored
<1> HIDE DEF n
<1>6. window' \in Windows
  <2>1. window \in [0..(WindowSize - 1) -> Int]
    BY DEF LzxInv, LzxTyped, Windows
  <2>2. ASSUME NEW p \in 0..(WindowSize - 1) PROVE cell(p) \in Int
    <3>1. CASE p \in windowPosn..(windowPosn + n - 1)
      <4> DEFINE k == token + p - windowPosn
      <4>1. k \in 1..Len(Block.tokens)
        <5> DEFINE m == Len(Block.tokens)
        <5>1. m \in Nat /\ token \in 1..m /\ windowPosn \in Nat /\ n \in Nat /\ n <= m + 1 - token
          BY <1>1, <1>2, <1>3, <1>4
        <5> HIDE DEF m
        <5>2. token + p - windowPosn \in 1..m
          BY <3>1, <5>1
        <5> QED BY <5>2 DEF m
      <4>2. cell(p) = Block.tokens[k].lit
        BY <3>1
      <4> HIDE DEF k, cell
      <4> QED BY <1>3, <4>1, <4>2
    <3>2. CASE p \notin windowPosn..(windowPosn + n - 1)
      BY <2>1, <3>2
    <3> QED BY <3>1, <3>2
  <2> HIDE DEF cell
  <2> QED BY <1>5, <2>1, <2>2 DEF Windows
<1>7. Decoded
  <2>1. /\ thisRun - n \in Int /\ windowPosn + n \in Nat /\ windowPosn + n <= WindowSize
        /\ token + n \in Nat \ {0} /\ (windowPosn + n) + (thisRun - n) = windowPosn + thisRun
    BY <1>2, <1>4
  <2>2. R' \in Nat \X Nat \X Nat
    BY <1>5 DEF LzxInv, LzxTyped
  <2> QED BY <1>5, <1>6, <2>1, <2>2 DEF Decoded
<1> QED BY <1>1, <1>7, DecodedStep

(* What is put out of a frame is as long as the frame. *)
LEMMA OutputDataTyped ==
  ASSUME LzxAssumption, LzxInv, pc = "decode"
  PROVE  OutputData \in Seq(Int) /\ Len(OutputData) = frameSize
<1>1. frameSize \in Nat /\ framePosn \in Nat /\ framePosn + frameSize <= WindowSize
      /\ window \in [0..(WindowSize - 1) -> Int] /\ WindowSize \in Nat
      /\ curpos \in Int /\ filesize \in Int
  BY FrameStarts DEF LzxInv, LzxTyped, LzxControl, Windows
<1>2. FrameData \in Seq(Int) /\ Len(FrameData) = frameSize
  <2>1. FrameData = [k \in 1..frameSize |-> window[framePosn + k - 1]]
    BY DEF FrameData
  <2>2. \A k \in 1..frameSize : window[framePosn + k - 1] \in Int
    <3> SUFFICES ASSUME NEW k \in 1..frameSize PROVE window[framePosn + k - 1] \in Int
      OBVIOUS
    <3>1. framePosn + k - 1 \in 0..(WindowSize - 1)
      BY <1>1
    <3> QED BY <1>1, <3>1
  <2>3. DOMAIN FrameData = 1..frameSize /\ \A k \in 1..frameSize : FrameData[k] \in Int
    BY <2>1, <2>2
  <2>4. FrameData \in [1..frameSize -> Int]
    BY <2>1, <2>2
  <2> QED BY <1>1, <2>4, IsASeq, LenProperties
<1>3. Translated(FrameData, curpos, filesize) \in Seq(Int)
      /\ Len(Translated(FrameData, curpos, filesize)) = Len(FrameData)
  BY <1>1, <1>2, TranslatedTyped
<1> QED BY <1>2, <1>3 DEF OutputData

(* A match is copied only where it fits. *)
LEMMA MatchStep == ASSUME LzxAssumption, LzxInv, DecodeMatch PROVE LzxInv'
<1> DEFINE q == Queue(R, Token)
<1>1. AtMatch /\ Running /\ pc = "run"
  BY DEF DecodeMatch, AtMatch, Running
<1>2. /\ thisRun \in Nat \ {0} /\ windowPosn \in Nat /\ token \in Nat \ {0} /\ block # 0
      /\ windowPosn + thisRun <= WindowSize /\ WindowSize \in Nat
  BY <1>1, RunFits
<1>3. Token.len \in Nat /\ Token.slot \in 0..3 /\ Token.off \in Nat
  BY <1>1, <1>2, TokenFacts DEF AtMatch, Token, IsToken
<1>4. q \in Nat \X Nat \X Nat
  <2>1. R \in Nat \X Nat \X Nat
    BY DEF LzxInv, LzxTyped
  <2>2. R[1] \in Nat /\ R[2] \in Nat /\ R[3] \in Nat
    BY <2>1
  <2>3. /\ Token.slot = 0 => q = R
        /\ Token.slot = 1 => q = <<R[2], R[1], R[3]>>
        /\ Token.slot = 2 => q = <<R[3], R[2], R[1]>>
        /\ Token.slot = 3 => q = <<Token.off, R[1], R[2]>>
    BY DEF Queue
  <2> HIDE DEF q
  <2> QED BY <1>3, <2>1, <2>2, <2>3
<1>5. /\ UNCHANGED <<given, outputVars, frame, framePosn, todo, frameSize,
                     block, blockRemaining, blockType, intelVars>>
      /\ IF CanCopy(Token.len, q[1])
         THEN /\ window' = CopyMatch(Token.len, q[1])
              /\ windowPosn' = windowPosn + Token.len /\ thisRun' = thisRun - Token.len
              /\ token' = token + 1 /\ R' = q
              /\ UNCHANGED <<pc, error>>
         ELSE Fail("decrunch") /\ UNCHANGED <<windowVars, thisRun, token, R>>
  BY DEF DecodeMatch
<1> HIDE DEF q
<1>6. CASE CanCopy(Token.len, q[1])
  <2>1. windowPosn + Token.len <= WindowSize
    BY <1>6 DEF CanCopy
  <2>2. window' \in Windows
    <3>1. window \in Windows /\ q[1] \in Int
      BY <1>4 DEF LzxInv, LzxTyped
    <3>2. CopyMatch(Token.len, q[1]) \in Windows
      BY <1>2, <1>3, <2>1, <3>1, CopyTyped
    <3> QED BY <1>5, <1>6, <3>2
  <2>3. Decoded
    <3>1. /\ thisRun - Token.len \in Int /\ windowPosn + Token.len \in Nat /\ token + 1 \in Nat \ {0}
          /\ (windowPosn + Token.len) + (thisRun - Token.len) = windowPosn + thisRun
      BY <1>2, <1>3
    <3> QED BY <1>4, <1>5, <1>6, <2>1, <2>2, <3>1 DEF Decoded
  <2> QED BY <1>1, <2>3, DecodedStep
<1>7. CASE ~ CanCopy(Token.len, q[1])
  <2>1. /\ error' = "decrunch" /\ pc' = "idle"
        /\ UNCHANGED <<windowVars, thisRun, token, R>>
    BY <1>5, <1>7 DEF Fail
  <2>2. LzxTyped'
    BY <1>5, <2>1 DEF LzxInv, LzxTyped, given, outputVars, windowVars, intelVars, Block
  <2>3. LzxControl'
    BY <1>5, <2>1 DEF LzxInv, LzxControl, given, outputVars, windowVars, Output
  <2> QED BY <2>2, <2>3 DEF LzxInv
<1> QED BY <1>6, <1>7

(* The input ends: nothing moves. *)
LEMMA NoInputStep == ASSUME LzxInv, NoInput PROVE LzxInv'
<1>1. /\ error' = "read" /\ pc' = "idle"
      /\ UNCHANGED <<given, outputVars, frame, framePosn, windowVars, runVars, blockVars, intelVars>>
  BY DEF NoInput, Fail
<1>2. LzxTyped'
  BY <1>1 DEF LzxInv, LzxTyped, given, outputVars, windowVars, runVars, blockVars, intelVars, Block
<1>3. LzxControl'
  BY <1>1 DEF LzxInv, LzxControl, given, outputVars, windowVars, Output
<1> QED BY <1>2, <1>3 DEF LzxInv

(* A match that took more than its run had is paid for by the block; if    *)
(* the frame is not at its end, nothing of the block is left to pay it.    *)
LEMMA EndRunStep == ASSUME LzxAssumption, LzxInv, EndRun PROVE LzxInv'
<1>1. /\ pc = "run" /\ thisRun <= 0 /\ thisRun \in Int /\ blockRemaining \in Nat
      /\ UNCHANGED <<given, outputVars, frame, framePosn, windowVars, runVars,
                     block, token, blockType, R, intelVars>>
  BY DEF EndRun, LzxInv, LzxTyped
<1>2. CASE -thisRun > blockRemaining
  <2>1. error' = "decrunch" /\ pc' = "idle" /\ UNCHANGED blockRemaining
    BY <1>2 DEF EndRun, Fail
  <2>2. LzxTyped'
    BY <1>1, <2>1 DEF LzxInv, LzxTyped, given, outputVars, windowVars, runVars, intelVars, Block
  <2>3. LzxControl'
    BY <1>1, <2>1 DEF LzxInv, LzxControl, given, outputVars, windowVars, Output
  <2> QED BY <2>2, <2>3 DEF LzxInv
<1>3. CASE ~ (-thisRun > blockRemaining)
  <2>1. pc' = "decode" /\ blockRemaining' = blockRemaining + thisRun /\ UNCHANGED error
    BY <1>3 DEF EndRun
  <2>2. blockRemaining' \in Nat
    BY <1>1, <1>3, <2>1
  <2>3. block # 0
    BY <1>1 DEF LzxInv, LzxTyped
  <2>4. LzxTyped'
    BY <1>1, <2>1, <2>2, <2>3
    DEF LzxInv, LzxTyped, given, outputVars, windowVars, runVars, intelVars, Block
  <2>5. todo > 0 => windowPosn + todo = framePosn + frameSize
    <3>1. todo > 0 => blockRemaining = 0
      BY <1>1 DEF LzxInv, LzxControl
    <3>2. todo > 0 => thisRun = 0
      BY <1>1, <1>3, <3>1
    <3>3. windowPosn + thisRun + todo = framePosn + frameSize /\ windowPosn \in Nat
      BY <1>1 DEF LzxInv, LzxControl, LzxTyped
    <3> QED BY <3>2, <3>3
  <2>6. LzxControl'
    <3>1. /\ Output' = Output /\ AskedFor' = AskedFor /\ FrameSize' = FrameSize
          /\ todo' = todo /\ frameSize' = frameSize
      BY <1>1 DEF Output, AskedFor, FrameSize, given, outputVars, runVars
    <3> QED BY <1>1, <2>1, <2>5, <3>1 DEF LzxInv, LzxControl, given, outputVars, windowVars
  <2> QED BY <2>4, <2>6 DEF LzxInv
<1> QED BY <1>2, <1>3

(* A frame that is complete goes out as far as it was asked for; the rest  *)
(* is stored, and then it was the last frame of the call.                  *)
LEMMA FinishFrameStep == ASSUME LzxAssumption, LzxInv, FinishFrame PROVE LzxInv'
<1>1. pc = "decode" /\ error = "ok" /\ UNCHANGED <<given, runVars, blockVars, headerRead, filesize, started>>
  BY DEF FinishFrame, LzxInv, LzxControl
<1>2. CASE windowPosn - framePosn # frameSize \/ stored # << >>
  <2>1. /\ error' = "decrunch" /\ pc' = "idle"
        /\ UNCHANGED <<outputVars, frame, framePosn, windowVars, curpos>>
    BY <1>2 DEF FinishFrame, Fail
  <2>2. LzxTyped'
    BY <1>1, <2>1 DEF LzxInv, LzxTyped, given, outputVars, windowVars, runVars, blockVars, Block
  <2>3. LzxControl'
    BY <1>1, <2>1 DEF LzxInv, LzxControl, given, outputVars, windowVars, Output
  <2> QED BY <2>2, <2>3 DEF LzxInv
<1>3. CASE ~ (windowPosn - framePosn # frameSize \/ stored # << >>)
  <2> DEFINE i == Least(outBytes, frameSize)
             length == stream.length
  <2>1. /\ written' = written \o SubSeq(OutputData, 1, i)
        /\ stored' = SubSeq(OutputData, i + 1, frameSize)
        /\ outBytes' = outBytes - i
        /\ curpos' = (IF filesize # 0 THEN curpos + frameSize ELSE curpos)
        /\ frame' = frame + 1 /\ window' = window
        /\ windowPosn' = (IF windowPosn = WindowSize THEN 0 ELSE windowPosn)
        /\ framePosn' = (IF framePosn + frameSize = WindowSize THEN 0 ELSE framePosn + frameSize)
        /\ pc' = "frame" /\ UNCHANGED <<error, endFrame>>
    BY <1>3 DEF FinishFrame, WindowAfter
  <2>2. /\ windowPosn - framePosn = frameSize /\ stored = << >>
        /\ Len(written) \in Nat /\ length \in Nat /\ Len(written) <= length
        /\ Frame \in Nat \ {0} /\ WindowSize \in Nat \ {0} /\ Len(stored) = 0
    BY <1>3, LzxNumbers, StreamFacts, FrameStarts, EmptySeq DEF LzxInv, LzxTyped
  <2>3. /\ frameSize \in Nat /\ framePosn \in Nat /\ windowPosn \in Nat /\ outBytes \in Nat
        /\ frame \in Nat /\ endFrame \in Nat /\ curpos \in Nat
    BY DEF LzxInv, LzxTyped
  <2>4. windowPosn = framePosn + frameSize /\ windowPosn <= WindowSize
        /\ frameSize = Least(Frame, length - Len(written))
    BY <1>1, <2>2, <2>3 DEF LzxInv, LzxControl, FrameSize
  <2>5. i \in Nat /\ i <= frameSize /\ i <= outBytes /\ (i < frameSize => i = outBytes)
    BY <2>3 DEF Least
  <2> HIDE DEF i
  <2>6. OutputData \in Seq(Int) /\ Len(OutputData) = frameSize
        /\ \A k \in 1..frameSize : OutputData[k] \in Int
    BY <1>1, OutputDataTyped, ElementOfSeq
  <2>7. SubSeq(OutputData, 1, i) \in Seq(Int) /\ Len(SubSeq(OutputData, 1, i)) = i
    <3>1. 1 \in Int /\ i \in Int /\ \A k \in 1..i : OutputData[k] \in Int
      BY <2>3, <2>5, <2>6
    <3>2. SubSeq(OutputData, 1, i) \in Seq(Int)
          /\ Len(SubSeq(OutputData, 1, i)) = IF 1 <= i THEN i - 1 + 1 ELSE 0
      BY <3>1, SubSeqProperties
    <3> QED BY <2>5, <3>2
  <2>8. stored' \in Seq(Int) /\ Len(stored') = frameSize - i
    <3> DEFINE a == i + 1
    <3>1. a \in Int /\ frameSize \in Int /\ \A k \in a..frameSize : OutputData[k] \in Int
      BY <2>3, <2>5, <2>6
    <3> HIDE DEF a
    <3>2. SubSeq(OutputData, a, frameSize) \in Seq(Int)
          /\ Len(SubSeq(OutputData, a, frameSize)) = IF a <= frameSize THEN frameSize - a + 1 ELSE 0
      BY <3>1, SubSeqProperties
    <3> QED BY <2>1, <2>3, <2>5, <3>2 DEF a
  <2>9. written' \in Seq(Int) /\ Len(written') = Len(written) + i
    <3>1. written \in Seq(Int)
      BY DEF LzxInv, LzxTyped
    <3> QED BY <2>1, <2>7, <3>1, ConcatProperties
  <2>10. Output' = Len(written) + frameSize /\ AskedFor' = AskedFor /\ AskedFor = Len(written) + outBytes
    <3>1. Output' = Len(written') + Len(stored') /\ AskedFor' = Len(written') + outBytes'
      BY DEF Output, AskedFor
    <3>2. AskedFor = Len(written) + outBytes
      BY DEF AskedFor
    <3>3. Len(written) \in Nat /\ frameSize \in Nat /\ outBytes \in Nat /\ i \in Nat
      BY <2>2, <2>3, <2>5
    <3>4. Len(written') = Len(written) + i /\ Len(stored') = frameSize - i /\ outBytes' = outBytes - i
      BY <2>1, <2>8, <2>9
    <3> QED BY <3>1, <3>2, <3>3, <3>4
  <2>11. /\ Len(written) = Least(FrameStart(frame), length) /\ FrameStart(frame) \in Nat
         /\ FrameStart(frame + 1) = FrameStart(frame) + Frame
    <3>1. Output = Least(FrameStart(frame), length) /\ Output = Len(written) + Len(stored)
      BY DEF LzxInv, LzxControl, Output
    <3>2. Len(written) + Len(stored) = Len(written)
      BY <2>2
    <3>3. FrameStart(frame) \in Nat /\ FrameStart(frame + 1) = FrameStart(frame) + Frame
      BY <2>3, FrameStarts
    <3> QED BY <3>1, <3>2, <3>3
  <2>12. LzxTyped'
    <3>1. outBytes' \in Nat /\ frame' \in Nat /\ curpos' \in Nat /\ framePosn' \in Nat /\ windowPosn' \in Nat
      BY <2>1, <2>3, <2>5
    <3> QED BY <1>1, <2>1, <2>8, <2>9, <3>1
           DEF LzxInv, LzxTyped, given, runVars, blockVars, Block
  <2>13. Output' = Least(FrameStart(frame + 1), length) /\ (frameSize # Frame => Output' = length)
    <3> DEFINE w == Len(written)
               a == FrameStart(frame)
               b == FrameStart(frame + 1)
    <3>1. /\ w \in Nat /\ length \in Nat /\ w <= length /\ Frame \in Nat /\ a \in Nat
          /\ w = Least(a, length) /\ frameSize = Least(Frame, length - w) /\ b = a + Frame
      BY <2>2, <2>4, <2>11
    <3> HIDE DEF length, w, a, b
    <3>2. w + frameSize = Least(b, length) /\ (frameSize # Frame => w + frameSize = length)
      BY <3>1 DEF Least
    <3> QED BY <2>10, <3>2 DEF w, b
  <2>14. (\E n \in Nat : framePosn' = FrameStart(n)) \/ Output' = length
    <3>1. CASE framePosn + frameSize = WindowSize
      <4>1. framePosn' = FrameStart(0)
        BY <2>1, <3>1, FrameStarts
      <4> QED BY <4>1
    <3>2. CASE framePosn + frameSize # WindowSize /\ Output' # length
      <4>1. frameSize = Frame
        BY <2>13, <3>2
      <4>2. Output # length
        <5>1. Output = Len(written)
          BY <2>2 DEF Output
        <5>2. Len(written) # length
          BY <2>2, <2>3, <2>4, <2>10, <3>2, <4>1 DEF Least
        <5> QED BY <5>1, <5>2
      <4>3. PICK n \in Nat : framePosn = FrameStart(n)
        BY <4>2 DEF LzxInv, LzxControl
      <4>4. framePosn' = FrameStart(n + 1)
        BY <2>1, <3>2, <4>1, <4>3, FrameStarts
      <4> QED BY <4>4
    <3> QED BY <3>1, <3>2
  <2>15. Len(stored') # 0 => endFrame <= frame + 1
    <3>1. SUFFICES ASSUME Len(stored') # 0, endFrame > frame + 1 PROVE FALSE
      BY <2>3
    <3>2. AskedFor < FrameStart(frame + 1)
      <4>1. i = outBytes /\ outBytes < frameSize
        BY <2>3, <2>5, <2>8, <3>1
      <4>2. Output' <= FrameStart(frame + 1)
        <5> HIDE DEF length
        <5> QED BY <2>2, <2>11, <2>13 DEF Least
      <4>3. Len(written) + outBytes < Output'
        BY <2>2, <2>3, <2>10, <4>1
      <4> QED BY <2>2, <2>3, <2>10, <2>11, <4>2, <4>3
    <3>3. FrameStart(endFrame - 1) <= AskedFor
      BY <1>1 DEF LzxInv, LzxControl
    <3> DEFINE e == endFrame - 1
    <3>4. e \in Nat /\ frame + 1 \in Nat /\ (e = frame + 1 \/ frame + 1 < e)
      BY <2>3, <3>1
    <3> HIDE DEF e
    <3>5. e # frame + 1 => FrameStart(frame + 1) + Frame <= FrameStart(e)
      BY <3>4, FrameStarts
    <3>6. FrameStart(e) \in Nat /\ FrameStart(frame + 1) \in Nat /\ AskedFor \in Nat
      <4>1. AskedFor \in Nat
        BY <2>2, <2>3, <2>10
      <4> QED BY <3>4, <4>1, FrameStarts
    <3>7. FrameStart(e) <= AskedFor
      BY <3>3 DEF e
    <3> QED BY <2>2, <3>2, <3>4, <3>5, <3>6, <3>7
  <2>16. framePosn' < WindowSize /\ windowPosn' = framePosn' /\ windowPosn' <= WindowSize
    <3> HIDE DEF length
    <3>1. windowPosn = framePosn + frameSize /\ windowPosn <= WindowSize
          /\ windowPosn \in Nat /\ WindowSize \in Nat \ {0}
      BY <2>2, <2>3, <2>4
    <3>2. windowPosn' = framePosn'
          /\ framePosn' = (IF windowPosn = WindowSize THEN 0 ELSE windowPosn)
      BY <2>1, <3>1
    <3> QED BY <3>1, <3>2
  <2>17. stream' = stream /\ error' = "ok" /\ endFrame' = endFrame
    BY <1>1, <2>1 DEF given
  <2> HIDE DEF length
  <2>18. endFrame # 0 /\ AskedFor <= length /\ FrameStart(endFrame - 1) <= AskedFor
    BY <1>1 DEF LzxInv, LzxControl, length
  <2>19. LzxControl'
    BY <2>1, <2>10, <2>13, <2>14, <2>15, <2>16, <2>17, <2>18 DEF LzxControl, length
  <2> QED BY <2>12, <2>19 DEF LzxInv
<1> QED BY <1>2, <1>3

(* The end of a call. *)
LEMMA EndCallStep == ASSUME LzxInv, EndCall PROVE LzxInv'
<1>1. /\ pc = "frame" /\ pc' = "idle" /\ error' = (IF outBytes > 0 THEN "decrunch" ELSE error)
      /\ UNCHANGED <<given, outputVars, frame, framePosn, windowVars, runVars, blockVars, intelVars>>
  BY DEF EndCall
<1>2. LzxTyped'
  BY <1>1 DEF LzxInv, LzxTyped, given, outputVars, windowVars, runVars, blockVars, intelVars, Block
<1>3. LzxControl'
  BY <1>1 DEF LzxInv, LzxControl, given, outputVars, windowVars, Output
<1> QED BY <1>2, <1>3 DEF LzxInv

(* The steps together. *)
LEMMA LzxStep == ASSUME LzxAssumption, LzxInv, [Next]_vars PROVE LzxInv'
<1>1. ASSUME NEW n \in Asked, Call(n) PROVE LzxInv'
  BY <1>1, CallStep
<1>2. CASE StartFrame
  BY <1>2, StartFrameStep
<1>3. CASE StartBlock
  BY <1>3, StartBlockStep
<1>4. CASE StartRun
  BY <1>4, StartRunStep
<1>5. CASE DecodeLiteral
  BY <1>5, LiteralStep
<1>6. CASE CopyStored
  BY <1>6, StoredStep
<1>7. CASE DecodeMatch
  BY <1>7, MatchStep
<1>8. CASE NoInput
  BY <1>8, NoInputStep
<1>9. CASE EndRun
  BY <1>9, EndRunStep
<1>10. CASE FinishFrame
  BY <1>10, FinishFrameStep
<1>11. CASE EndCall
  BY <1>11, EndCallStep
<1>12. CASE UNCHANGED vars
  BY <1>12, LzxUnchanged
<1> QED BY <1>1, <1>2, <1>3, <1>4, <1>5, <1>6, <1>7, <1>8, <1>9, <1>10, <1>11, <1>12 DEF Next

(* No run, match or frame goes over the end of the window, so nothing is   *)
(* written, read or put out beyond it (CopyTyped), and what is put out or  *)
(* stored is as long as the frames that are complete.                      *)
WindowKept ==
  /\ window \in [0..(WindowSize - 1) -> Int]
  /\ Running => windowPosn + thisRun <= WindowSize
  /\ pc \in {"decode", "run"} => framePosn + frameSize <= WindowSize
  /\ Len(written) + Len(stored) = Least(frame * Frame, stream.length)

(* Whatever the stream, and whatever it is asked for (lzxd_decompress in   *)
(* mspack/lzxd.c): WindowKept holds always, and the counters are typed.    *)
THEOREM WindowIsKept == ASSUME LzxAssumption PROVE Spec => [](TypeOK /\ WindowKept)
<1>1. Init => LzxInv
  BY LzxInitInv
<1>2. LzxInv /\ [Next]_vars => LzxInv'
  BY LzxStep
<1>3. LzxInv => TypeOK /\ WindowKept
  <2> SUFFICES ASSUME LzxInv PROVE TypeOK /\ WindowKept
    OBVIOUS
  <2>1. TypeOK
    BY FrameStarts DEF LzxInv, LzxTyped, LzxControl, TypeOK
  <2>2. Running => windowPosn + thisRun <= WindowSize
    BY RunFits
  <2>3. Len(written) + Len(stored) = Least(frame * Frame, stream.length)
    BY DEF LzxInv, LzxControl, Output, FrameStart
  <2> QED BY <2>1, <2>2, <2>3 DEF LzxInv, LzxTyped, LzxControl, WindowKept, Windows
<1> QED BY <1>1, <1>2, <1>3, PTL DEF Spec
===============================================================================
