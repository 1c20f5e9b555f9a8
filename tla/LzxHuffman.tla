------------------------------ MODULE LzxHuffman ------------------------------
(***************************************************************************)
(* The bit level of iso2svod's LZX decompressor (readbits.h, readhuff.h    *)
(* and lzxd_read_lens): code lengths arrive as changes to the lengths of   *)
(* the block before, a lookup table is built from them, and symbols are    *)
(* read from words of MaxBits bits, with one word of zeros behind the      *)
(* last.                                                                   *)
(*                                                                         *)
(* Symbols are numbered from 0, lengths are 0 to MaxBits (16).  The input  *)
(* has whole words: a last odd byte, which the code fills up with one of   *)
(* the bytes it makes up, is left out.                                     *)
(***************************************************************************)
EXTENDS Integers, Sequences, SequencesExt

CONSTANTS
  Symbols,      \* MAXSYMBOLS
  TableBits,    \* lengths up to this one are looked up at once
  MaxBits,      \* HUFF_MAXBITS, and the bits of a word
  ZeroRun, LongZeroRun, SameRun,  \* the least lengths of runs (4, 20, 4)
  Cases,        \* [old, new, runs, message]: lengths before and now, symbols sent
  Unused        \* 0xFFFF

VARIABLES
  case,
  pc,           \* "lengths", "short", "long", "symbols", "done", "empty" or "error"
  codes,        \* changes to the lengths not yet read
  x,            \* the symbol whose length is next
  lens,
  table, pos, nextSymbol, put,  \* make_decode_table; the symbols that have their code
  unread,       \* words not yet read
  inputEnd,     \* the word of zeros was handed out
  bits,         \* the bit buffer
  got           \* symbols read

making == <<table, pos, nextSymbol, put>>
reading == <<unread, inputEnd, bits, got>>
vars == <<case, pc, codes, x, lens, making, reading>>

Syms == 0..(Symbols - 1)

(***************************************************************************)
(* lzxd_read_lens.  A code is [code, arg, delta]: Delta changes one        *)
(* length, Zeros and ManyZeros clear a run, Same gives a run of arg one    *)
(* changed length.                                                         *)
(***************************************************************************)
RunLength(c) ==
  CASE c.code = "zeros"     -> c.arg + ZeroRun
    [] c.code = "manyzeros" -> c.arg + LongZeroRun
    [] c.code = "same"      -> c.arg + SameRun
    [] c.code = "delta"     -> 1

NewLength(c) ==
  IF c.code \in {"zeros", "manyzeros"} THEN 0 ELSE (lens[x] - c.delta) % (MaxBits + 1)

ReadLength ==
  /\ pc = "lengths" /\ x < Symbols
  /\ LET c == Head(codes)
     IN  /\ lens' = [s \in Syms |-> IF s >= x /\ s < x + RunLength(c) THEN NewLength(c) ELSE lens[s]]
         /\ x' = x + RunLength(c)
  /\ codes' = Tail(codes)
  /\ UNCHANGED <<case, pc, making, reading>>

LengthsRead ==
  /\ pc = "lengths" /\ x >= Symbols
  /\ pc' = "short" /\ pos' = 0 /\ put' = {}
  /\ UNCHANGED <<case, codes, x, lens, table, nextSymbol, reading>>

-------------------------------------------------------------------------------
(* make_decode_table: codes are given in the order of their lengths, in    *)
(* that of the symbols where these are equal.                              *)
TableMask == 2^TableBits
Filled(t, from, n, v) == [e \in DOMAIN t |-> IF e >= from /\ e < from + n THEN v ELSE t[e]]

Left(short) == {s \in Syms \ put : lens[s] > 0 /\ (lens[s] <= TableBits <=> short)}
FirstOf(S) == CHOOSE s \in S : \A t \in S : lens[s] < lens[t] \/ (lens[s] = lens[t] /\ s <= t)

(* No codes at all is no error: BUILD_TABLE_MAYBE_EMPTY. *)
Failed == IF \A s \in Syms : lens[s] = 0 THEN "empty" ELSE "error"

PutShort ==
  /\ pc = "short" /\ Left(TRUE) # {}
  /\ LET s == FirstOf(Left(TRUE))
         bitMask == 2^(TableBits - lens[s])
     IN  IF pos + bitMask > TableMask
         THEN pc' = "error" /\ UNCHANGED making
         ELSE /\ table' = Filled(table, pos, bitMask, s)
              /\ pos' = pos + bitMask /\ put' = put \cup {s}
              /\ UNCHANGED <<pc, nextSymbol>>
  /\ UNCHANGED <<case, codes, x, lens, reading>>

FirstNode == IF TableMask \div 2 < Symbols THEN Symbols ELSE TableMask \div 2

(* From here on positions have MaxBits more bits. *)
ShortDone ==
  /\ pc = "short" /\ Left(TRUE) = {}
  /\ IF pos = TableMask
     THEN pc' = "symbols" /\ UNCHANGED making
     ELSE /\ pc' = "long"
          /\ table' = Filled(table, pos, TableMask - pos, Unused)
          /\ nextSymbol' = FirstNode
          /\ pos' = pos * 2^MaxBits
          /\ UNCHANGED put
  /\ UNCHANGED <<case, codes, x, lens, reading>>

(* A long code is a path of nodes behind the direct entries. *)
PathOf(s) ==
  LET Path[k \in 0..(lens[s] - TableBits)] ==
        IF k = 0 THEN [leaf |-> pos \div 2^MaxBits, table |-> table, next |-> nextSymbol]
        ELSE LET p   == Path[k - 1]
                 new == p.table[p.leaf] = Unused
                 t   == IF new
                        THEN [Filled(p.table, 2 * p.next, 2, Unused) EXCEPT ![p.leaf] = p.next]
                        ELSE p.table
             IN  [leaf  |-> 2 * t[p.leaf] + ((pos \div 2^(MaxBits - k)) % 2),
                  table |-> t, next |-> IF new THEN p.next + 1 ELSE p.next]
  IN  Path[lens[s] - TableBits]

PutLong ==
  /\ pc = "long" /\ Left(FALSE) # {}
  /\ LET s == FirstOf(Left(FALSE))
     IN  IF pos >= TableMask * 2^MaxBits
         THEN pc' = "error" /\ UNCHANGED making
         ELSE /\ table' = [PathOf(s).table EXCEPT ![PathOf(s).leaf] = s]
              /\ nextSymbol' = PathOf(s).next
              /\ pos' = pos + 2^(MaxBits + TableBits - lens[s]) /\ put' = put \cup {s}
              /\ UNCHANGED pc
  /\ UNCHANGED <<case, codes, x, lens, reading>>

LongDone ==
  /\ pc = "long" /\ Left(FALSE) = {}
  /\ pc' = IF pos = TableMask * 2^MaxBits THEN "symbols" ELSE Failed
  /\ UNCHANGED <<case, codes, x, lens, making, reading>>

-------------------------------------------------------------------------------
(* READ_HUFFSYM: a lookup, then one bit a step. *)
Number(bs) == FoldLeft(LAMBDA n, b : 2 * n + b, 0, bs)

Lookup(buffer) ==
  LET Traverse[k \in TableBits..MaxBits] ==
        IF k = TableBits THEN table[Number(SubSeq(buffer, 1, k))]
        ELSE LET sym == Traverse[k - 1]
             IN  IF sym \in Syms THEN sym ELSE table[2 * sym + buffer[k]]
  IN  Traverse[MaxBits]

(* What an encoder sends: canonical codes, filled up to whole words. *)
Before(ls, s) == {t \in Syms : ls[t] > 0 /\ (ls[t] < ls[s] \/ (ls[t] = ls[s] /\ t < s))}
SumOf(ls, S) ==
  LET Sum[t \in 0..Symbols] ==
        IF t = 0 THEN 0 ELSE Sum[t - 1] + (IF t - 1 \in S THEN 2^(MaxBits - ls[t - 1]) ELSE 0)
  IN  Sum[Symbols]
Code(ls, s) ==
  LET first == SumOf(ls, Before(ls, s))
  IN  [j \in 1..ls[s] |-> (first \div 2^(MaxBits - j)) % 2]
Complete(ls) == SumOf(ls, {s \in Syms : ls[s] > 0}) = 2^MaxBits

Words(bs) ==
  LET n == (Len(bs) + MaxBits - 1) \div MaxBits
  IN  [w \in 1..n |-> [b \in 1..MaxBits |->
         LET k == (w - 1) * MaxBits + b IN IF k <= Len(bs) THEN bs[k] ELSE 0]]

(* The changes an encoder writes, one by one or in the longest runs. *)
RunFrom(ls, k, len) ==
  CHOOSE n \in 0..(Symbols - k) :
    /\ \A j \in k..(k + n - 1) : ls[j] = len
    /\ k + n = Symbols \/ ls[k + n] # len

LengthCodes(c) ==
  LET One(k)  == [code |-> "delta", arg |-> 0, delta |-> (c.old[k] - c.new[k]) % (MaxBits + 1)]
      Write[k \in 0..Symbols] ==
        IF k = Symbols THEN << >>
        ELSE LET n == RunFrom(c.new, k, c.new[k])
             IN  IF c.runs /\ c.new[k] = 0 /\ n >= LongZeroRun
                 THEN <<[code |-> "manyzeros", arg |-> n - LongZeroRun, delta |-> 0]>> \o Write[k + n]
                 ELSE IF c.runs /\ c.new[k] = 0 /\ n >= ZeroRun
                 THEN <<[code |-> "zeros", arg |-> n - ZeroRun, delta |-> 0]>> \o Write[k + n]
                 ELSE IF c.runs /\ n >= SameRun
                 THEN <<[One(k) EXCEPT !.code = "same", !.arg = n - SameRun]>> \o Write[k + n]
                 ELSE <<One(k)>> \o Write[k + 1]
  IN  Write[0]

-------------------------------------------------------------------------------
Init ==
  /\ case \in Cases
  /\ pc = "lengths" /\ lens = case.old
  /\ codes = LengthCodes(case) /\ x = 0
  /\ table = [e \in 0..(TableMask + 2 * Symbols - 1) |-> 0]
  /\ pos = 0 /\ nextSymbol = 0 /\ put = {}
  /\ unread = Words(FlattenSeq([k \in DOMAIN case.message |-> Code(case.new, case.message[k])]))
  /\ inputEnd = FALSE /\ bits = << >> /\ got = << >>

(* Mutant of EndOfInput: no word is made up at the end. *)
NoFakeWord == FALSE

(* read_input: two bytes are made up, once. *)
EndOfInput == ~inputEnd

(* ENSURE_BITS(HUFF_MAXBITS) *)
ReadBytes ==
  /\ pc = "symbols" /\ Len(got) < Len(case.message) /\ Len(bits) < MaxBits
  /\ IF unread # << >>
     THEN /\ bits' = bits \o Head(unread) /\ unread' = Tail(unread)
          /\ UNCHANGED <<pc, inputEnd>>
     ELSE IF EndOfInput
     THEN /\ bits' = bits \o [b \in 1..MaxBits |-> 0] /\ inputEnd' = TRUE
          /\ UNCHANGED <<pc, unread>>
     ELSE pc' = "error" /\ UNCHANGED <<bits, unread, inputEnd>>
  /\ UNCHANGED <<case, codes, x, lens, making, got>>

ReadHuffSym ==
  /\ pc = "symbols" /\ Len(got) < Len(case.message) /\ Len(bits) >= MaxBits
  /\ LET sym == Lookup(bits)
     IN  got' = Append(got, sym) /\ bits' = SubSeq(bits, lens[sym] + 1, Len(bits))
  /\ UNCHANGED <<case, pc, codes, x, lens, making, unread, inputEnd>>

AllRead ==
  /\ pc = "symbols" /\ Len(got) = Len(case.message)
  /\ pc' = "done"
  /\ UNCHANGED <<case, codes, x, lens, making, reading>>

Next ==
  \/ ReadLength \/ LengthsRead \/ PutShort \/ ShortDone \/ PutLong \/ LongDone
  \/ ReadBytes \/ ReadHuffSym \/ AllRead

Spec == Init /\ [][Next]_vars /\ WF_vars(Next)
-------------------------------------------------------------------------------
(* Type invariant of the bit level. *)
TypeOK ==
  /\ pc \in {"lengths", "short", "long", "symbols", "done", "empty", "error"}
  /\ DOMAIN lens = Syms /\ \A s \in Syms : lens[s] \in 0..MaxBits
  /\ Len(bits) < 2 * MaxBits
  /\ \A k \in DOMAIN got : got[k] \in Syms

(* Lengths are taken for a code exactly when they are one, however they    *)
(* were sent and whatever the table held, but for longer codes that are    *)
(* ignored when the short ones fill the table; and then every symbol that  *)
(* is sent is read, the last one too, although the reader wants more bits  *)
(* than are left of it.                                                    *)
ShortComplete(ls) == SumOf(ls, {s \in Syms : ls[s] \in 1..TableBits}) = 2^MaxBits
SymbolsDecoded ==
  /\ IsPrefix(got, case.message)
  /\ pc \in {"symbols", "done"} => lens = case.new /\ (Complete(lens) \/ ShortComplete(lens))
  /\ pc = "error" => ~Complete(case.new)
  /\ pc = "empty" => \A s \in Syms : case.new[s] = 0
===============================================================================
