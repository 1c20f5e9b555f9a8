------------------------------ MODULE LzxStream ------------------------------
(***************************************************************************)
(* The LZX decompressor of iso2svod above its bit level (mspack/lzxd.c):   *)
(* frames, blocks, matches in a window that wraps, the queue of repeated   *)
(* offsets, and calls that take less than a frame.                         *)
(*                                                                         *)
(* A block is [type, length, R, tokens], R being the offsets an            *)
(* uncompressed block brings along; a token is [lit |-> cell] or           *)
(* [len |-> n, slot |-> s, off |-> d], slot 0 to 2 for a repeated offset   *)
(* and 3 for the new offset d.  A cell is a number; the operand of a call  *)
(* instruction E8 is the one cell behind it.                               *)
(***************************************************************************)
EXTENDS Integers, Sequences, SequencesExt

CONSTANTS
  Streams,      \* [blocks, length, filesize, reset, ref]
  Frame,        \* cells in a frame (32768)
  WindowSize,   \* a multiple of Frame
  Margin,       \* cells at the end of a frame where no instruction starts (10)
  LastTranslated,   \* the last frame whose calls are translated (32768)
  E8,
  Amounts,      \* what a caller may ask for at once
  Junk,         \* what memory holds before it is written
  Broken

(* A stream may be damaged in any way its parts allow; lzxd_init knows     *)
(* windows of 2^15 bytes and more, and the reference data fits its window. *)
IsToken(t) ==
  /\ "lit" \in DOMAIN t => t.lit \in Int
  /\ "len" \in DOMAIN t => t.len \in Nat /\ t.slot \in 0..3 /\ t.off \in Nat

IsBlock(b) ==
  /\ b.length \in Nat /\ b.R \in Nat \X Nat \X Nat
  /\ Len(b.tokens) \in Nat /\ DOMAIN b.tokens = 1..Len(b.tokens)
  /\ \A k \in DOMAIN b.tokens :
       IsToken(b.tokens[k]) /\ (b.type = "uncompressed" => "lit" \in DOMAIN b.tokens[k])

IsStream(s) ==
  /\ {s.length, s.filesize} \subseteq Nat
  /\ s.ref \in Seq(Int) /\ Len(s.ref) <= WindowSize
  /\ Len(s.blocks) \in Nat /\ \A b \in 1..Len(s.blocks) : IsBlock(s.blocks[b])

LzxAssumption ==
  /\ {Frame, Margin} \subseteq Nat \ {0} /\ LastTranslated \in Nat
  /\ {E8, Junk} \subseteq Int /\ Amounts \subseteq Nat
  /\ WindowSize \in Nat \ {0} /\ WindowSize % Frame = 0
  /\ \A s \in Streams : IsStream(s)

VARIABLES
  stream,
  expected,     \* what it stands for, or Broken; fixed at the start
  pc,           \* "idle" between calls, "frame", "decode", "run"
  error,        \* "ok", "read" or "decrunch"
  outBytes, endFrame,
  written,      \* what was written to the output; its length is lzx->offset
  stored,       \* from o_ptr to o_end
  frame, framePosn, windowPosn, window,
  todo, thisRun, frameSize,
  block, token, blockRemaining, blockType,
  R,            \* R0, R1, R2
  headerRead, filesize, started, curpos

given == <<stream, expected>>
outputVars == <<outBytes, endFrame, written, stored>>
intelVars  == <<headerRead, filesize, started, curpos>>
blockVars  == <<block, token, blockRemaining, blockType, R>>
windowVars == <<windowPosn, window>>
runVars    == <<todo, thisRun, frameSize>>
vars == <<given, pc, error, outputVars, frame, framePosn, windowVars, runVars, blockVars, intelVars>>

Least(a, b) == IF a < b THEN a ELSE b
Fail(e) == error' = e /\ pc' = "idle"

(* Undoes the encoder's change to the targets of calls in one frame. *)
Translated(data, pos, size) ==
  LET Absolute(at, v) == IF v >= 0 THEN v - at ELSE v + size
      Walk[p \in 1..(Len(data) + 2)] ==
        IF p > Len(data) - Margin THEN SubSeq(data, p, Len(data))
        ELSE IF data[p] # E8 THEN <<data[p]>> \o Walk[p + 1]
        ELSE LET at == pos + p - 1
                 v  == data[p + 1]
             IN  <<E8, IF v >= -at /\ v < size THEN Absolute(at, v) ELSE v>> \o Walk[p + 2]
  IN  Walk[1]

-------------------------------------------------------------------------------
(* What the stream stands for: all that was written before, and before it  *)
(* the reference data, can be referred to; the queue starts over at each   *)
(* reset interval; instructions are translated frame by frame, up to the   *)
(* last frame that has them translated.                                    *)
Refer(history, off, len) ==
  LET Grown[k \in 0..len] ==
        IF k = 0 THEN history
        ELSE LET h == Grown[k - 1]
             IN  Append(h, IF off > Len(h) THEN Junk ELSE h[Len(h) - off + 1])
  IN  Grown[len]

Fresh(h, q) ==
  LET n == Len(h) - Len(stream.ref)
  IN  IF stream.reset # 0 /\ n % (stream.reset * Frame) = 0 THEN <<1, 1, 1>> ELSE q

(* A new offset comes in at the front, an old one changes places with it.  *)
Plain ==
  LET Apply(acc, t) ==
        IF "lit" \in DOMAIN t THEN [acc EXCEPT !.h = Append(@, t.lit)]
        ELSE IF t.slot = 3
        THEN [h |-> Refer(acc.h, t.off, t.len), q |-> <<t.off, acc.q[1], acc.q[2]>>]
        ELSE LET q == acc.q
                 k == t.slot + 1
             IN  [h |-> Refer(acc.h, q[k], t.len), q |-> [q EXCEPT ![1] = q[k], ![k] = q[1]]]
      Unpack(acc, b) ==
        FoldLeft(Apply, [acc EXCEPT !.q = IF b.type = "uncompressed" THEN b.R ELSE Fresh(acc.h, @)],
                 b.tokens)
      all == FoldLeft(Unpack, [h |-> stream.ref, q |-> <<1, 1, 1>>], stream.blocks).h
  IN  SubSeq(all, Len(stream.ref) + 1, Len(all))

Contents(plain) ==
  LET Part(f) == SubSeq(plain, f * Frame + 1, Least((f + 1) * Frame, stream.length))
      Out(f) == IF stream.filesize # 0 /\ f <= LastTranslated /\ Len(Part(f)) > Margin
                THEN Translated(Part(f), f * Frame, stream.filesize) ELSE Part(f)
      All[f \in 0..(stream.length \div Frame)] ==
        IF f = 0 THEN Out(0) ELSE All[f - 1] \o Out(f)
  IN  All[stream.length \div Frame]

(* A stream an encoder may write: no match crosses a frame, each block has *)
(* the length it says, blocks end at resets, all sources exist.            *)
TokenLength(t) == IF "lit" \in DOMAIN t THEN 1 ELSE t.len
LengthTo(b, k) == FoldLeft(LAMBDA n, t : n + TokenLength(t), 0, SubSeq(stream.blocks[b].tokens, 1, k))
StartOf(b) == FoldLeft(LAMBDA n, c : n + c.length, 0, SubSeq(stream.blocks, 1, b - 1))
WellFormed(plain) ==
  /\ \A b \in DOMAIN stream.blocks :
       /\ LengthTo(b, Len(stream.blocks[b].tokens)) = stream.blocks[b].length
       /\ \A k \in DOMAIN stream.blocks[b].tokens :
            LET from == StartOf(b) + LengthTo(b, k - 1)
            IN  from \div Frame = (StartOf(b) + LengthTo(b, k) - 1) \div Frame
       /\ stream.reset # 0 =>
            \A n \in (StartOf(b) + 1)..(StartOf(b) + stream.blocks[b].length - 1) :
              n % (stream.reset * Frame) # 0
  /\ StartOf(Len(stream.blocks) + 1) = stream.length
  /\ \A k \in DOMAIN plain : plain[k] # Junk

Expected == LET plain == Plain IN IF WellFormed(plain) THEN Contents(plain) ELSE Broken

-------------------------------------------------------------------------------
(* lzxd_init and lzxd_set_reference_data *)
Init ==
  /\ stream \in Streams /\ expected = Expected
  /\ pc = "idle" /\ error = "ok"
  /\ outBytes = 0 /\ endFrame = 0 /\ written = << >> /\ stored = << >>
  /\ frame = 0 /\ framePosn = 0 /\ windowPosn = 0
  /\ window = [p \in 0..(WindowSize - 1) |->
                 LET r == p - (WindowSize - Len(stream.ref))
                 IN  IF r >= 0 THEN stream.ref[r + 1]
                     ELSE IF stream.ref # << >> THEN 0 ELSE Junk]
  /\ todo = 0 /\ thisRun = 0 /\ frameSize = 0
  /\ block = 0 /\ token = 1 /\ blockRemaining = 0 /\ blockType = "invalid"
  /\ R = <<1, 1, 1>>
  /\ headerRead = FALSE /\ filesize = 0 /\ started = FALSE /\ curpos = 0

(* lzxd_decompress up to its loop: what is stored goes out first. *)
Call(n) ==
  /\ pc = "idle" /\ error = "ok" /\ Len(written) + n <= stream.length
  /\ LET i == Least(Len(stored), n)
     IN  /\ written' = written \o SubSeq(stored, 1, i)
         /\ stored' = SubSeq(stored, i + 1, Len(stored))
         /\ outBytes' = n - i
         /\ pc' = IF n = i THEN "idle" ELSE "frame"
         /\ endFrame' = IF n = i THEN endFrame ELSE ((Len(written) + n) \div Frame) + 1
  /\ UNCHANGED <<given, error, frame, framePosn, windowVars, runVars, blockVars, intelVars>>

AtReset == stream.reset # 0 /\ frame % stream.reset = 0

FrameSize == Least(Frame, stream.length - Len(written))

(* lzxd_reset_state at a reset interval, then the header and the size. *)
StartFrame ==
  /\ pc = "frame" /\ frame < endFrame
  /\ IF AtReset /\ blockRemaining # 0
     THEN Fail("decrunch") /\ UNCHANGED <<todo, frameSize, blockVars, intelVars>>
     ELSE /\ pc' = "decode"
          /\ R' = IF AtReset THEN <<1, 1, 1>> ELSE R
          /\ blockType' = IF AtReset THEN "invalid" ELSE blockType
          /\ filesize' = IF AtReset \/ ~headerRead THEN stream.filesize ELSE filesize
          /\ headerRead' = TRUE
          /\ frameSize' = FrameSize
          /\ todo' = framePosn + FrameSize - windowPosn
          /\ UNCHANGED <<error, block, token, blockRemaining, started, curpos>>
  /\ UNCHANGED <<given, outputVars, frame, framePosn, windowVars, thisRun>>

Block == stream.blocks[block]
Literals(b) == {t.lit : t \in {u \in Range(b.tokens) : "lit" \in DOMAIN u}}

(* The header of a block. *)
StartBlock ==
  /\ pc = "decode" /\ todo > 0 /\ blockRemaining = 0
  /\ IF block = Len(stream.blocks)
     THEN Fail("read") /\ UNCHANGED <<blockVars, started>>
     ELSE LET b == stream.blocks[block + 1]
          IN  /\ block' = block + 1 /\ token' = 1
              /\ blockRemaining' = b.length /\ blockType' = b.type
              /\ started' = (started \/ b.type = "uncompressed" \/ E8 \in Literals(b))
              /\ R' = IF b.type = "uncompressed" THEN b.R ELSE R
              /\ UNCHANGED <<pc, error>>
  /\ UNCHANGED <<given, outputVars, frame, framePosn, windowVars, runVars,
                 headerRead, filesize, curpos>>

(* The queue of offsets after a match; its head is the match's offset. *)
Queue(q, t) ==
  CASE t.slot = 0 -> q
    [] t.slot = 1 -> <<q[2], q[1], q[3]>>
    [] t.slot = 2 -> <<q[3], q[2], q[1]>>
    [] t.slot = 3 -> <<t.off, q[1], q[2]>>

StartRun ==
  /\ pc = "decode" /\ todo > 0 /\ blockRemaining > 0
  /\ LET run == Least(blockRemaining, todo)
     IN  thisRun' = run /\ todo' = todo - run /\ blockRemaining' = blockRemaining - run
  /\ pc' = "run"
  /\ UNCHANGED <<given, error, outputVars, frame, framePosn, windowVars, frameSize,
                 block, token, blockType, R, intelVars>>

Running == pc = "run" /\ thisRun > 0
Token == Block.tokens[token]
AtLiteral == /\ Running /\ blockType # "uncompressed"
             /\ token \in DOMAIN Block.tokens /\ "lit" \in DOMAIN Token
AtMatch   == Running /\ token \in DOMAIN Block.tokens /\ "len" \in DOMAIN Token

DecodeLiteral ==
  /\ AtLiteral
  /\ window' = [window EXCEPT ![windowPosn] = Token.lit]
  /\ windowPosn' = windowPosn + 1 /\ thisRun' = thisRun - 1 /\ token' = token + 1
  /\ UNCHANGED <<given, pc, error, outputVars, frame, framePosn, todo, frameSize,
                 block, blockRemaining, blockType, R, intelVars>>

(* An uncompressed block: all that is there of the run at once. *)
CopyStored ==
  /\ Running /\ blockType = "uncompressed" /\ token \in DOMAIN Block.tokens
  /\ LET n == Least(thisRun, Len(Block.tokens) + 1 - token)
     IN  /\ window' = [p \in DOMAIN window |->
                         IF p \in windowPosn..(windowPosn + n - 1)
                         THEN Block.tokens[token + p - windowPosn].lit ELSE window[p]]
         /\ windowPosn' = windowPosn + n /\ thisRun' = thisRun - n /\ token' = token + n
  /\ UNCHANGED <<given, pc, error, outputVars, frame, framePosn, todo, frameSize,
                 block, blockRemaining, blockType, R, intelVars>>

(* A match, cell by cell; its source goes over the window's edge. *)
CopyMatch(len, off) ==
  LET Copied[k \in 0..len] ==
        IF k = 0 THEN window
        ELSE LET w  == Copied[k - 1]
                 to == windowPosn + k - 1
             IN  [w EXCEPT ![to] = w[(to - off) % WindowSize]]
  IN  Copied[len]

(* Its place and its source exist. *)
CanCopy(len, off) ==
  LET back == off - windowPosn
  IN  /\ windowPosn + len <= WindowSize
      /\ back > 0 => (off <= Len(written) \/ back <= Len(stream.ref)) /\ back <= WindowSize

DecodeMatch ==
  /\ AtMatch
  /\ LET q == Queue(R, Token)
     IN  IF CanCopy(Token.len, q[1])
         THEN /\ window' = CopyMatch(Token.len, q[1])
              /\ windowPosn' = windowPosn + Token.len /\ thisRun' = thisRun - Token.len
              /\ token' = token + 1 /\ R' = q
              /\ UNCHANGED <<pc, error>>
         ELSE Fail("decrunch") /\ UNCHANGED <<windowVars, thisRun, token, R>>
  /\ UNCHANGED <<given, outputVars, frame, framePosn, todo, frameSize,
                 block, blockRemaining, blockType, intelVars>>

NoInput ==
  /\ Running /\ token \notin DOMAIN Block.tokens
  /\ Fail("read")
  /\ UNCHANGED <<given, outputVars, frame, framePosn, windowVars, runVars, blockVars, intelVars>>

(* The last match may have taken more than the run, out of its block. *)
EndRun ==
  /\ pc = "run" /\ thisRun <= 0
  /\ IF -thisRun > blockRemaining
     THEN Fail("decrunch") /\ UNCHANGED blockRemaining
     ELSE pc' = "decode" /\ blockRemaining' = blockRemaining + thisRun /\ UNCHANGED error
  /\ UNCHANGED <<given, outputVars, frame, framePosn, windowVars, runVars,
                 block, token, blockType, R, intelVars>>

FrameData == [k \in 1..frameSize |-> window[framePosn + k - 1]]
OutputData ==
  IF started /\ filesize # 0 /\ frame <= LastTranslated /\ frameSize > Margin
  THEN Translated(FrameData, curpos, filesize) ELSE FrameData

(* Mutant of WindowAfter: the translation is done in the window. *)
TranslatedWindow ==
  [p \in DOMAIN window |->
     IF p \in framePosn..(framePosn + frameSize - 1) THEN OutputData[p - framePosn + 1] ELSE window[p]]

WindowAfter == window

FinishFrame ==
  /\ pc = "decode" /\ todo <= 0
  /\ IF windowPosn - framePosn # frameSize \/ stored # << >>
     THEN /\ Fail("decrunch")
          /\ UNCHANGED <<outputVars, frame, framePosn, windowVars, curpos>>
     ELSE LET i == Least(outBytes, frameSize)
          IN  /\ written' = written \o SubSeq(OutputData, 1, i)
              /\ stored' = SubSeq(OutputData, i + 1, frameSize)
              /\ outBytes' = outBytes - i
              /\ curpos' = IF filesize # 0 THEN curpos + frameSize ELSE curpos
              /\ frame' = frame + 1
              /\ window' = WindowAfter
              /\ windowPosn' = IF windowPosn = WindowSize THEN 0 ELSE windowPosn
              /\ framePosn' = IF framePosn + frameSize = WindowSize THEN 0 ELSE framePosn + frameSize
              /\ pc' = "frame"
              /\ UNCHANGED <<error, endFrame>>
  /\ UNCHANGED <<given, runVars, blockVars, headerRead, filesize, started>>

EndCall ==
  /\ pc = "frame" /\ frame >= endFrame
  /\ pc' = "idle"
  /\ error' = IF outBytes > 0 THEN "decrunch" ELSE error
  /\ UNCHANGED <<given, outputVars, frame, framePosn, windowVars, runVars, blockVars, intelVars>>

Asked == (Amounts \cup {stream.length - Len(written)}) \ {0}

Next ==
  \/ \E n \in Asked : Call(n)
  \/ StartFrame \/ StartBlock \/ StartRun \/ DecodeLiteral \/ CopyStored \/ DecodeMatch
  \/ NoInput \/ EndRun
  \/ FinishFrame \/ EndCall

Spec == Init /\ [][Next]_vars /\ WF_vars(Next)
-------------------------------------------------------------------------------
(* Type invariant of the decompressor. *)
TypeOK ==
  /\ error \in {"ok", "read", "decrunch"}
  /\ pc \in {"idle", "frame", "decode", "run"}
  /\ framePosn \in 0..(WindowSize - 1)
  /\ windowPosn \in 0..WindowSize
  /\ outBytes >= 0 /\ blockRemaining >= 0

(* Whatever amounts the caller asks for, what is written is the contents   *)
(* from its start: the window holds what matches refer to although         *)
(* instructions are translated on their way out, its wrap loses nothing,   *)
(* and memory that was never written is never copied out.                  *)
OutputExact ==
  expected # Broken => IsPrefix(written, expected)

(* A stream an encoder may write is decoded to its end. *)
WellFormedDecodes == expected # Broken => error = "ok"
===============================================================================
