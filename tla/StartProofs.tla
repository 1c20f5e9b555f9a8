----------------------------- MODULE StartProofs -----------------------------
(***************************************************************************)
(* Proof that start() boots what the settings ask for, for any buttons,    *)
(* any states of the tray and any number of messages nobody asked for, and *)
(* that the patch engine leaves the 1BL, the lists and the fuses in memory *)
(* as they are to be, for lists and slots of any length.                   *)
(***************************************************************************)
EXTENDS StartCore, TLAPS

Messages == [command: Commands \cup {"event"}, value: Reasons \cup TrayStates]

(* What the SMC must say to the question start() asks. *)
Truth == IF options.usepwr THEN smc.reason ELSE smc.tray

IsEvent(m) == m.command = "event"
IsTrueAnswer(m) == m.command = Command /\ m.value = Truth

(* Before the question is asked only events are in the mailbox. *)
NotAskedYet ==
  choicePc \in {"options", "send"} =>
    request = "none" /\ \A k \in DOMAIN fifo : IsEvent(fifo[k])

(* Behind it one question is pending, or all that is no event is true. *)
AskedOnce ==
  choicePc \notin {"options", "send"} =>
    /\ request \in {Command, "none"}
    /\ \A k \in DOMAIN fifo : IsEvent(fifo[k]) \/ (request = "none" /\ IsTrueAnswer(fifo[k]))

(* The answer start() holds is still true. *)
AnswerHeld == choicePc \in {"choose", "chosen"} => request = "none" /\ boot = Truth

(* The inductive invariant. *)
ChoiceInv ==
  /\ ChoiceTypeOK /\ fifo \in Seq(Messages)
  /\ NotAskedYet /\ AskedOnce /\ AnswerHeld
  /\ XellAsConfigured
-------------------------------------------------------------------------------
(* At the start nothing is chosen or asked. *)
LEMMA ChoiceStarts == ChoiceInit => ChoiceInv
<1> SUFFICES ASSUME ChoiceInit PROVE ChoiceInv
  OBVIOUS
<1>1. fifo = << >> /\ choicePc = "options" /\ request = "none"
  BY DEF ChoiceInit
<1>2. ChoiceTypeOK
  BY ChoiceAssumption DEF ChoiceInit, ChoiceTypeOK
<1>3. fifo \in Seq(Messages) /\ DOMAIN fifo = {}
  BY <1>1
<1> QED
  BY <1>1, <1>2, <1>3 DEF ChoiceInv, NotAskedYet, AskedOnce, AnswerHeld, XellAsConfigured

(* The option bits are read. *)
LEMMA OptionsStep == ASSUME ChoiceInv, ReadOptions PROVE ChoiceInv'
<1>1. /\ choicePc = "options" /\ choicePc' = "send" /\ options' = WithDefaults(options)
      /\ UNCHANGED <<smc, fifo, request, events, boot, bootxell, dualboot>>
  BY DEF ReadOptions
<1>2. options' \in Options /\ options'.pwrr1 # Unset
  BY <1>1, ChoiceAssumption DEF ChoiceInv, ChoiceTypeOK, Options, WithDefaults
<1> QED
  BY <1>1, <1>2
  DEF ChoiceInv, ChoiceTypeOK, NotAskedYet, AskedOnce, AnswerHeld, XellAsConfigured, IsEvent

(* A command goes to the SMC. *)
LEMMA SendStep == ASSUME ChoiceInv, SmcSend PROVE ChoiceInv'
<1>1. /\ choicePc = "send" /\ choicePc' = "receive" /\ request' = Command
      /\ UNCHANGED <<options, smc, fifo, events, boot, bootxell, dualboot>>
  BY DEF SmcSend
<1>2. Command' = Command /\ Command \in Commands
  BY <1>1 DEF Command, Commands
<1> QED
  BY <1>1, <1>2
  DEF ChoiceInv, ChoiceTypeOK, NotAskedYet, AskedOnce, AnswerHeld, XellAsConfigured, IsEvent

(* Taking a message off the mailbox. *)
LEMMA Taken ==
  ASSUME NEW s \in Seq(Messages), s # << >>
  PROVE  /\ Tail(s) \in Seq(Messages) /\ Head(s) \in Messages /\ 1 \in DOMAIN s /\ Head(s) = s[1]
         /\ \A k \in DOMAIN Tail(s) : k + 1 \in DOMAIN s /\ Tail(s)[k] = s[k + 1]
OBVIOUS

(* An answer is taken from the FIFO. *)
LEMMA ReceiveStep == ASSUME ChoiceInv, SmcReceive PROVE ChoiceInv'
<1>1. /\ choicePc = "receive" /\ fifo # << >> /\ fifo' = Tail(fifo)
      /\ UNCHANGED <<options, smc, request, events, bootxell, dualboot>>
      /\ fifo \in Seq(Messages)
  BY DEF SmcReceive, ChoiceInv
<1>2. /\ fifo' \in Seq(Messages) /\ Head(fifo) \in Messages /\ 1 \in DOMAIN fifo /\ Head(fifo) = fifo[1]
      /\ \A k \in DOMAIN fifo' : k + 1 \in DOMAIN fifo /\ fifo'[k] = fifo[k + 1]
  BY <1>1, Taken
<1>3. Command' = Command /\ Truth' = Truth /\ Command # "event"
  BY <1>1 DEF Command, Truth
<1>4. AskedOnce'
  <2>1. /\ request \in {Command, "none"}
        /\ \A k \in DOMAIN fifo : IsEvent(fifo[k]) \/ (request = "none" /\ IsTrueAnswer(fifo[k]))
    BY <1>1 DEF ChoiceInv, AskedOnce
  <2>2. \A k \in DOMAIN fifo' :
          IsEvent(fifo'[k])
            \/ (request = "none" /\ fifo'[k].command = Command /\ fifo'[k].value = Truth)
    BY <1>2, <2>1 DEF IsTrueAnswer
  <2> QED BY <1>1, <1>3, <2>1, <2>2 DEF AskedOnce, IsEvent, IsTrueAnswer
<1>5. CASE IsAnswer(Head(fifo))
  <2>1. choicePc' = "choose" /\ boot' = Head(fifo).value
    BY <1>5 DEF SmcReceive
  <2>2. request = "none" /\ Head(fifo).value = Truth
    BY <1>1, <1>2, <1>3, <1>5 DEF ChoiceInv, AskedOnce, IsEvent, IsTrueAnswer, IsAnswer
  <2>3. ChoiceTypeOK'
    BY <1>1, <1>2, <2>1 DEF ChoiceInv, ChoiceTypeOK, Messages
  <2> QED
    BY <1>1, <1>2, <1>3, <1>4, <2>1, <2>2, <2>3 DEF ChoiceInv, NotAskedYet, AnswerHeld, XellAsConfigured
<1>6. CASE ~IsAnswer(Head(fifo))
  <2>1. UNCHANGED <<boot, choicePc>>
    BY <1>6 DEF SmcReceive
  <2>2. ChoiceTypeOK'
    BY <1>1, <2>1 DEF ChoiceInv, ChoiceTypeOK
  <2> QED
    BY <1>1, <1>2, <1>4, <2>1, <2>2 DEF ChoiceInv, NotAskedYet, AnswerHeld, XellAsConfigured
<1> QED BY <1>5, <1>6

(* What to start is decided. *)
LEMMA ChooseStep == ASSUME ChoiceInv, Choose PROVE ChoiceInv'
<1>1. /\ choicePc = "choose" /\ choicePc' = "chosen"
      /\ UNCHANGED <<options, smc, fifo, request, events, boot>>
      /\ boot = Truth /\ request = "none"
  BY DEF Choose, ChoiceInv, AnswerHeld
<1>2. /\ options \in Options /\ options.pwrr1 # Unset
      /\ smc.reason \in Reasons /\ smc.tray \in TrayStates
  BY <1>1 DEF ChoiceInv, ChoiceTypeOK
<1>3. bootxell' = IF options.usepwr
                  THEN boot = options.pwrr1 \/ (options.pwrr2 # Unset /\ options.pwrr2 = boot)
                  ELSE IF options.nodvd THEN boot = Open ELSE boot # Closed
  BY DEF Choose
<1>4. XellAsConfigured'
  <2>1. CASE options.usepwr
    <3>1. boot = smc.reason /\ boot # Unset
      BY <1>1, <1>2, <2>1, ChoiceAssumption DEF Truth
    <3>2. bootxell' = (smc.reason \in {options.pwrr1, options.pwrr2})
      BY <1>3, <2>1, <3>1
    <3> QED BY <1>1, <2>1, <3>2 DEF XellAsConfigured
  <2>2. CASE ~options.usepwr
    <3>1. boot = smc.tray
      BY <1>1, <2>2 DEF Truth
    <3>2. bootxell' = (smc.tray \in (IF options.nodvd THEN {Open} ELSE TrayStates \ {Closed}))
      BY <1>2, <1>3, <2>2, <3>1
    <3> QED BY <1>1, <2>2, <3>2 DEF XellAsConfigured
  <2> QED BY <2>1, <2>2
<1>5. bootxell' \in BOOLEAN /\ dualboot' \in BOOLEAN
  <2>1. bootxell' \in BOOLEAN
    BY <1>3
  <2>2. dualboot' \in BOOLEAN
    BY DEF Choose
  <2> QED BY <2>1, <2>2
<1>6. ChoiceTypeOK'
  BY <1>1, <1>5 DEF ChoiceInv, ChoiceTypeOK
<1>7. NotAskedYet' /\ AskedOnce' /\ AnswerHeld' /\ fifo' \in Seq(Messages)
  BY <1>1 DEF ChoiceInv, NotAskedYet, AskedOnce, AnswerHeld, Command, Truth, IsTrueAnswer
<1> QED BY <1>4, <1>6, <1>7 DEF ChoiceInv

(* A message that arrives. *)
LEMMA Arrived ==
  ASSUME NEW s \in Seq(Messages), NEW m \in Messages
  PROVE  /\ Append(s, m) \in Seq(Messages)
         /\ \A k \in DOMAIN Append(s, m) : Append(s, m)[k] = m \/ (k \in DOMAIN s /\ Append(s, m)[k] = s[k])
OBVIOUS

(* The SMC answers. *)
LEMMA AnswerStep == ASSUME ChoiceInv, SmcAnswer PROVE ChoiceInv'
<1> DEFINE m == [command |-> request, value |-> IF request = "reason" THEN smc.reason ELSE smc.tray]
<1>1. /\ request # "none" /\ fifo' = Append(fifo, m) /\ request' = "none"
      /\ UNCHANGED <<options, smc, events, choicePc, boot, bootxell, dualboot>>
      /\ fifo \in Seq(Messages)
  BY DEF SmcAnswer, ChoiceInv
<1>2. /\ request \in Commands /\ request = Command /\ choicePc = "receive"
      /\ smc.reason \in Reasons /\ smc.tray \in TrayStates
  BY <1>1 DEF ChoiceInv, ChoiceTypeOK, NotAskedYet, AskedOnce, AnswerHeld
<1>3. m \in Messages /\ IsTrueAnswer(m)
  BY <1>2 DEF Messages, IsTrueAnswer, Command, Truth
<1> HIDE DEF m
<1>4. fifo' \in Seq(Messages) /\ \A k \in DOMAIN fifo' : fifo'[k] = m \/ (k \in DOMAIN fifo /\ fifo'[k] = fifo[k])
  BY <1>1, <1>3, Arrived
<1>5. AskedOnce'
  BY <1>1, <1>2, <1>3, <1>4 DEF ChoiceInv, AskedOnce, IsEvent, IsTrueAnswer, Command, Truth
<1>6. ChoiceTypeOK'
  BY <1>1 DEF ChoiceInv, ChoiceTypeOK
<1> QED
  BY <1>1, <1>2, <1>4, <1>5, <1>6 DEF ChoiceInv, NotAskedYet, AnswerHeld, XellAsConfigured

(* The SMC reports something nobody asked for. *)
LEMMA EventStep == ASSUME ChoiceInv, SmcEvent PROVE ChoiceInv'
<1>1. PICK r \in Reasons : fifo' = Append(fifo, [command |-> "event", value |-> r])
  BY DEF SmcEvent
<1> DEFINE m == [command |-> "event", value |-> r]
<1>2. /\ events' = events - 1 /\ events \in 0..MaxEvents /\ events > 0
      /\ UNCHANGED <<options, smc, request, choicePc, boot, bootxell, dualboot>>
      /\ fifo \in Seq(Messages)
  BY DEF SmcEvent, ChoiceInv, ChoiceTypeOK
<1>3. m \in Messages /\ IsEvent(m)
  BY DEF Messages, IsEvent
<1>4. fifo' = Append(fifo, m)
  BY <1>1
<1> HIDE DEF m
<1>5. fifo' \in Seq(Messages) /\ \A k \in DOMAIN fifo' : fifo'[k] = m \/ (k \in DOMAIN fifo /\ fifo'[k] = fifo[k])
  BY <1>2, <1>3, <1>4, Arrived
<1>6. NotAskedYet' /\ AskedOnce'
  BY <1>2, <1>3, <1>5 DEF ChoiceInv, NotAskedYet, AskedOnce, IsEvent, IsTrueAnswer, Command, Truth
<1>7. ChoiceTypeOK'
  BY <1>2, ChoiceAssumption DEF ChoiceInv, ChoiceTypeOK
<1> QED
  BY <1>2, <1>5, <1>6, <1>7 DEF ChoiceInv, AnswerHeld, XellAsConfigured, Truth

(* The tray moves only while the question is open: no answer is outdated.  *)
LEMMA TrayStep == ASSUME ChoiceInv, TrayMoves PROVE ChoiceInv'
<1>1. PICK t \in TrayStates : smc' = [smc EXCEPT !.tray = t]
  BY DEF TrayMoves
<1>2. /\ request = "tray"
      /\ UNCHANGED <<options, fifo, request, events, choicePc, boot, bootxell, dualboot>>
  BY DEF TrayMoves
<1>3. choicePc = "receive"
  BY <1>2 DEF ChoiceInv, ChoiceTypeOK, NotAskedYet, AnswerHeld
<1>4. ChoiceTypeOK'
  BY <1>1, <1>2 DEF ChoiceInv, ChoiceTypeOK
<1>5. AskedOnce'
  BY <1>2, <1>3 DEF ChoiceInv, AskedOnce, IsEvent, Command
<1> QED
  BY <1>2, <1>3, <1>4, <1>5 DEF ChoiceInv, NotAskedYet, AnswerHeld, XellAsConfigured

(* A step of something else. *)
LEMMA RestStep == ASSUME ChoiceInv, UNCHANGED choiceVars PROVE ChoiceInv'
BY DEF choiceVars, ChoiceInv, ChoiceTypeOK, NotAskedYet, AskedOnce, AnswerHeld, XellAsConfigured,
       IsEvent, IsTrueAnswer, Command, Truth

(* The inductive invariant of the choice, in start() as a whole.           *)
LEMMA ChoiceInvariant == StartSafety => []ChoiceInv
<1>1. StartInit => ChoiceInv
  BY ChoiceStarts DEF StartInit
<1>2. ChoiceInv /\ [StartNext]_startVars => ChoiceInv'
  BY OptionsStep, SendStep, ReceiveStep, ChooseStep, AnswerStep, EventStep, TrayStep, RestStep
  DEF StartNext, Choice, ChoiceNext, Firmware, startVars
<1> QED BY <1>1, <1>2, PTL DEF StartSafety

(* XeLL is booted exactly when the settings ask for it, whatever the SMC   *)
(* says unasked and however the tray moves until it is asked about.        *)
THEOREM BootsAsConfigured == StartSpec => []XellAsConfigured
<1>1. ChoiceInv => XellAsConfigured
  BY DEF ChoiceInv
<1> QED BY <1>1, ChoiceInvariant, PTL DEF StartSpec

-------------------------------------------------------------------------------
(* The firmware's way into memory.                                         *)

PatchCount == Len(flash.patches)
Start(n) == n * SlotWords

(* v is what the first j patches leave at a.                               *)
LeftBy(j, a, v) ==
  LET ps == flash.patches
  IN  \/ v = Soc /\ \A m \in 1..j : ~Covers(ps[m], a)
      \/ \E m \in 1..j :
           /\ Covers(ps[m], a) /\ \A o \in (m + 1)..j : ~Covers(ps[o], a)
           /\ v = ps[m].data[a - ps[m].addr + 1]

(* The first n words of list s are in its slot.                            *)
LaidOut(s, n) ==
  \A k \in 1..n : remote[Start(s - 1) + k - 1] = flash.sections[s][k]

Memory ==
  /\ low = [a \in 0..(LowWords - 1) |-> low[a]]
  /\ remote = [a \in RemoteWords |-> remote[a]]
  /\ remote[HoldWord] = Old

(* patchEngine is at the beginning of a patch, those before it applied.    *)
Applying ==
  /\ enginePc = "copy" => src = 1
  /\ enginePc \in {"copy", "apply"} => slot = 0 /\ dst = 0
  /\ enginePc = "apply" =>
       \E k \in 1..(PatchCount + 1) :
         src = flash.at[k] /\ \A a \in DOMAIN low : LeftBy(k - 1, a, low[a])
  /\ enginePc \in {"move", "boot"} => \A a \in DOMAIN low : low[a] = Patched(a)

(* It is in a list, whose words so far are in place behind those lists     *)
(* before it, or behind the last.                                          *)
Moving ==
  /\ enginePc = "move" =>
       /\ \A s \in 1..slot : LaidOut(s, Len(flash.sections[s]))
       /\ slot < Slots =>
            \E n \in 0..(Len(flash.sections[slot + 1]) - 1) :
              /\ src = flash.from[slot + 1] + n /\ dst = Start(slot) + n
              /\ LaidOut(slot + 1, n)
  /\ enginePc = "boot" =>
       /\ \A s \in 1..Slots : LaidOut(s, Len(flash.sections[s]))
       /\ \A a \in 0..(FuseWords - 1) : remote[3 * SlotWords + a] = Fuse

EngineInv == flash \in Lists /\ EngineTypeOK /\ Memory /\ Applying /\ Moving
-------------------------------------------------------------------------------
(* Slots lie one behind the other. *)
LEMMA SlotStarts ==
  ASSUME NEW s \in 0..(Slots - 1)
  PROVE  /\ Start(s) \in Nat /\ Start(s + 1) = Start(s) + SlotWords
         /\ (s + 1) * SlotWords = Start(s + 1) /\ Start(s + 1) <= 3 * SlotWords
         /\ \A r \in 0..(Slots - 1) : r < s => Start(r) + SlotWords <= Start(s)
<1>1. SlotWords \in Nat /\ s \in {0, 1, 2}
  BY PatchAssumption DEF Slots
<1>2. Start(0) = 0 /\ Start(1) = SlotWords /\ Start(2) = 2 * SlotWords /\ Start(3) = 3 * SlotWords
  BY <1>1 DEF Start
<1>3. \A r \in 0..(Slots - 1) : r < s => Start(r) + SlotWords <= Start(s)
  <2>1. SUFFICES ASSUME NEW r \in {0, 1, 2}, r < s PROVE Start(r) + SlotWords <= Start(s)
    BY DEF Slots
  <2> QED BY <1>1, <1>2, <2>1
<1>4. (s + 1) * SlotWords = Start(s + 1)
  BY DEF Start
<1>5. CASE s = 0
  BY <1>1, <1>2, <1>3, <1>4, <1>5
<1>6. CASE s = 1
  BY <1>1, <1>2, <1>3, <1>4, <1>6
<1>7. CASE s = 2
  BY <1>1, <1>2, <1>3, <1>4, <1>7
<1> QED BY <1>1, <1>5, <1>6, <1>7

(* The list that is laid out next, and where it lies.                      *)
LEMMA SectionOf ==
  ASSUME flash \in Lists, NEW s \in 1..Slots
  PROVE  /\ Len(flash.sections[s]) \in 1..SlotWords
         /\ \A k \in 1..Len(flash.sections[s]) :
              /\ words[flash.from[s] + k - 1] = flash.sections[s][k]
              /\ flash.sections[s][k] = End <=> k = Len(flash.sections[s])
         /\ flash.from[s] \in Nat /\ flash.from[s + 1] \in Nat
         /\ flash.from[s + 1] = flash.from[s] + Len(flash.sections[s])
         /\ flash.from[s + 1] <= Len(words) + 1 /\ Len(words) \in Nat
         /\ flash.from[1] = flash.at[PatchCount + 1] + 1
<1>1. IsArea(flash)
  BY ListsAssumption
<1>2. /\ flash.from \in [1..(Slots + 1) -> Nat] /\ Len(flash.words) \in Nat
      /\ flash.from[1] = flash.at[PatchCount + 1] + 1
      /\ Len(flash.words) = flash.from[Slots + 1] - 1
  BY <1>1 DEF IsArea, PatchCount
<1>3. \A r \in 1..Slots :
        /\ IsSection(flash.sections[r])
        /\ \A k \in 1..Len(flash.sections[r]) : flash.words[flash.from[r] + k - 1] = flash.sections[r][k]
        /\ flash.from[r + 1] = flash.from[r] + Len(flash.sections[r])
  BY <1>1 DEF IsArea
<1>4. \A r \in 1..Slots : Len(flash.sections[r]) \in Nat
  BY <1>3, PatchAssumption DEF IsSection
<1>5. flash.from[s + 1] <= Len(flash.words) + 1
  <2>1. Slots = 3 /\ s \in {1, 2, 3} /\ 2 \in 1..3 /\ 3 \in 1..3 /\ 2 + 1 = 3 /\ 3 + 1 = 4
    BY DEF Slots
  <2>2. /\ flash.from[2] \in Nat /\ flash.from[3] \in Nat /\ flash.from[4] \in Nat
        /\ Len(flash.words) = flash.from[4] - 1
    BY <1>2, <2>1
  <2>3. flash.from[3] = flash.from[2] + Len(flash.sections[2]) /\ Len(flash.sections[2]) \in Nat
    BY <1>3, <1>4, <2>1
  <2>4. flash.from[4] = flash.from[3] + Len(flash.sections[3]) /\ Len(flash.sections[3]) \in Nat
    BY <1>3, <1>4, <2>1
  <2>5. flash.from[2] <= flash.from[4] /\ flash.from[3] <= flash.from[4]
    <3>1. \A x, y, z, l, m \in Nat : y = x + l /\ z = y + m => x <= z /\ y <= z
      OBVIOUS
    <3> QED BY <2>2, <2>3, <2>4, <3>1
  <2>6. CASE s = 1
    BY <2>2, <2>5, <2>6
  <2>7. CASE s = 2
    BY <2>1, <2>2, <2>5, <2>7
  <2>8. CASE s = 3
    BY <2>1, <2>2, <2>8
  <2> QED BY <2>1, <2>6, <2>7, <2>8
<1>6. flash.from[s] \in Nat /\ flash.from[s + 1] \in Nat
  BY <1>2 DEF Slots
<1> QED BY <1>2, <1>3, <1>5, <1>6 DEF IsSection, words

(* A patch, and where the next one lies.                                   *)
LEMMA PatchOf ==
  ASSUME flash \in Lists, NEW k \in 1..(PatchCount + 1)
  PROVE  /\ PatchCount \in Nat /\ Len(words) \in Nat /\ flash.at[k] \in 1..Len(words)
         /\ flash.at[1] = 1
         /\ k = PatchCount + 1 => words[flash.at[k]] = End
         /\ k <= PatchCount =>
              LET p == flash.patches[k]
              IN  /\ p.addr \in Nat /\ p.addr # End /\ Len(p.data) \in Nat
                  /\ words[flash.at[k]] = p.addr /\ words[flash.at[k] + 1] = Len(p.data)
                  /\ \A m \in 1..Len(p.data) : words[flash.at[k] + 1 + m] = p.data[m]
                  /\ flash.at[k + 1] = flash.at[k] + 2 + Len(p.data)
                  /\ flash.at[k + 1] \in 1..Len(words)
<1>1. IsArea(flash)
  BY ListsAssumption
<1>2. /\ PatchCount \in Nat /\ Len(words) \in Nat
      /\ flash.at \in [1..(PatchCount + 1) -> 1..Len(words)]
      /\ flash.at[1] = 1 /\ words[flash.at[PatchCount + 1]] = End
  BY <1>1 DEF IsArea, PatchCount, words
<1>3. \A j \in 1..PatchCount :
        LET p == flash.patches[j]
        IN  /\ p.addr \in Nat /\ p.addr # End /\ Len(p.data) \in Nat
            /\ words[flash.at[j]] = p.addr /\ words[flash.at[j] + 1] = Len(p.data)
            /\ \A m \in 1..Len(p.data) : words[flash.at[j] + 1 + m] = p.data[m]
            /\ flash.at[j + 1] = flash.at[j] + 2 + Len(p.data)
  BY <1>1 DEF IsArea, PatchCount, words
<1>4. flash.at[k] \in 1..Len(words) /\ (k <= PatchCount => flash.at[k + 1] \in 1..Len(words))
  BY <1>2
<1>5. k <= PatchCount => k \in 1..PatchCount
  BY <1>2
<1> QED BY <1>2, <1>3, <1>4, <1>5

(* Patch by patch: the next one over what the others left.                 *)
LEMMA OneMore ==
  ASSUME flash \in Lists, NEW k \in 1..PatchCount, NEW a \in Nat, NEW v, LeftBy(k - 1, a, v)
  PROVE  /\ Covers(flash.patches[k], a) =>
              LeftBy(k, a, flash.patches[k].data[a - flash.patches[k].addr + 1])
         /\ ~Covers(flash.patches[k], a) => LeftBy(k, a, v)
<1>1. k \in Nat /\ k \in 1..k /\ (k + 1)..k = {}
  BY PatchOf
<1>2. ASSUME Covers(flash.patches[k], a)
      PROVE  LeftBy(k, a, flash.patches[k].data[a - flash.patches[k].addr + 1])
  BY <1>1, <1>2 DEF LeftBy
<1>3. ASSUME ~Covers(flash.patches[k], a)
      PROVE  LeftBy(k, a, v)
  <2>1. \A m \in 1..k : m \in 1..(k - 1) \/ m = k
    BY <1>1
  <2>2. CASE v = Soc /\ \A m \in 1..(k - 1) : ~Covers(flash.patches[m], a)
    BY <1>3, <2>1, <2>2 DEF LeftBy
  <2>3. ASSUME NEW m \in 1..(k - 1),
               Covers(flash.patches[m], a), \A o \in (m + 1)..(k - 1) : ~Covers(flash.patches[o], a),
               v = flash.patches[m].data[a - flash.patches[m].addr + 1]
        PROVE  LeftBy(k, a, v)
    <3>1. m \in 1..k /\ \A o \in (m + 1)..k : o \in (m + 1)..(k - 1) \/ o = k
      BY <1>1
    <3>2. \A o \in (m + 1)..k : ~Covers(flash.patches[o], a)
      BY <1>3, <2>3, <3>1
    <3> QED BY <2>3, <3>1, <3>2 DEF LeftBy
  <2> QED BY <2>2, <2>3 DEF LeftBy
<1> QED BY <1>2, <1>3

(* What all patches leave is what must be there.                           *)
LEMMA AllApplied ==
  ASSUME flash \in Lists, NEW a \in Nat, NEW v, LeftBy(PatchCount, a, v)
  PROVE  v = Patched(a)
<1> DEFINE hits == {k \in DOMAIN flash.patches : Covers(flash.patches[k], a)}
<1>1. DOMAIN flash.patches = 1..PatchCount /\ PatchCount \in Nat
  BY ListsAssumption DEF IsArea, PatchCount
<1>2. CASE v = Soc /\ \A m \in 1..PatchCount : ~Covers(flash.patches[m], a)
  <2>1. hits = {}
    BY <1>1, <1>2
  <2> QED BY <1>2, <2>1 DEF Patched
<1>3. ASSUME NEW m \in 1..PatchCount,
             Covers(flash.patches[m], a), \A o \in (m + 1)..PatchCount : ~Covers(flash.patches[o], a),
             v = flash.patches[m].data[a - flash.patches[m].addr + 1]
      PROVE  v = Patched(a)
  <2>1. m \in hits /\ \A n \in hits : n <= m
    BY <1>1, <1>3
  <2>2. \A l \in hits : (\A n \in hits : n <= l) => l = m
    BY <1>1, <2>1
  <2>3. (CHOOSE l \in hits : \A n \in hits : n <= l) = m
    BY <2>1, <2>2
  <2>4. hits # {}
    BY <2>1
  <2>5. Patched(a) = flash.patches[m].data[a - flash.patches[m].addr + 1]
    BY <2>3, <2>4 DEF Patched
  <2> QED BY <1>3, <2>5
<1> QED BY <1>2, <1>3 DEF LeftBy

-------------------------------------------------------------------------------
(* At the start the patch engine has done nothing. *)
LEMMA EngineStarts == ASSUME EngineInit PROVE EngineInv
<1>1. /\ flash \in Lists /\ src = 1 /\ slot = 0 /\ dst = 0 /\ enginePc = "copy"
      /\ low = [a \in 0..(LowWords - 1) |-> Old] /\ remote = [a \in RemoteWords |-> Old]
  BY DEF EngineInit
<1>2. 0 \in RemoteWords /\ HoldWord \in RemoteWords
  BY PatchAssumption DEF RemoteWords
<1>3. Memory
  BY <1>1, <1>2 DEF Memory
<1>4. EngineTypeOK
  <2>1. Len(words) \in Nat
    BY <1>1, ListsAssumption DEF IsArea, words
  <2> QED BY <1>1, <1>2, <2>1 DEF EngineTypeOK, Slots
<1> QED BY <1>1, <1>3, <1>4 DEF EngineInv, Applying, Moving

(* The 1BL is copied. *)
LEMMA CopyStep == ASSUME EngineInv, CopySoc PROVE EngineInv'
<1>1. /\ enginePc = "copy" /\ enginePc' = "apply" /\ low' = [a \in DOMAIN low |-> Soc]
      /\ UNCHANGED <<flash, src, remote, slot, dst>>
  BY DEF CopySoc
<1>2. flash \in Lists /\ src = 1 /\ slot = 0 /\ dst = 0 /\ Memory /\ EngineTypeOK
  BY <1>1 DEF EngineInv, Applying
<1>3. PatchCount' = PatchCount /\ words' = words
  BY <1>1 DEF PatchCount, words
<1>4. PatchCount \in Nat
  BY <1>2, ListsAssumption DEF IsArea, PatchCount
<1>5. 1 \in 1..(PatchCount + 1) /\ flash.at[1] = 1
  BY <1>2, <1>4, PatchOf
<1>6. DOMAIN low' = DOMAIN low /\ \A a \in DOMAIN low' : low'[a] = Soc
  BY <1>1
<1>7. (\A a \in DOMAIN low : LeftBy(1 - 1, a, low[a]))'
  BY <1>6 DEF LeftBy
<1>8. Applying'
  <2>1. \E k \in 1..(PatchCount + 1) : src' = flash.at[k] /\ (\A a \in DOMAIN low : LeftBy(k - 1, a, low[a]))'
    <3>1. PICK k : k = 1
      OBVIOUS
    <3> QED BY <1>1, <1>2, <1>5, <1>7, <3>1
  <2> QED BY <1>1, <1>2, <1>3, <2>1 DEF Applying
<1>9. Memory'
  <2>1. DOMAIN low = 0..(LowWords - 1)
    BY <1>2 DEF Memory
  <2> QED BY <1>1, <1>2, <2>1 DEF Memory, RemoteWords
<1>10. EngineTypeOK'
  BY <1>1, <1>2, <1>3 DEF EngineTypeOK, RemoteWords
<1> QED BY <1>1, <1>2, <1>8, <1>9, <1>10 DEF EngineInv, Moving

(* A patch is applied. *)
LEMMA ApplyStep == ASSUME EngineInv, ApplyPatch PROVE EngineInv'
<1>1. /\ enginePc = "apply" /\ words[src] # End
      /\ low' = [a \in DOMAIN low |-> IF Hit(a, words[src], words[src + 1])
                                      THEN words[src + 2 + (a - words[src])] ELSE low[a]]
      /\ src' = src + 2 + words[src + 1]
      /\ UNCHANGED <<flash, remote, slot, dst, enginePc>>
  BY DEF ApplyPatch, AfterPatch
<1>2. flash \in Lists /\ Memory /\ EngineTypeOK /\ slot = 0 /\ dst = 0
  BY <1>1 DEF EngineInv, Applying
<1>3. PICK k \in 1..(PatchCount + 1) :
        src = flash.at[k] /\ \A a \in DOMAIN low : LeftBy(k - 1, a, low[a])
  BY <1>1 DEF EngineInv, Applying
<1>4. PICK p : p = flash.patches[k]
  OBVIOUS
<1>5. /\ k \in 1..PatchCount /\ PatchCount \in Nat
      /\ p.addr \in Nat /\ Len(p.data) \in Nat
      /\ words[src] = p.addr /\ words[src + 1] = Len(p.data)
      /\ \A m \in 1..Len(p.data) : words[src + 1 + m] = p.data[m]
      /\ flash.at[k + 1] = src + 2 + Len(p.data) /\ flash.at[k + 1] \in 1..Len(words)
      /\ src \in Nat /\ Len(words) \in Nat
  <2>1. PatchCount \in Nat /\ (k = PatchCount + 1 => words[src] = End)
    BY <1>2, <1>3, PatchOf
  <2>2. k <= PatchCount /\ k \in 1..PatchCount
    BY <1>1, <2>1
  <2>3. /\ p.addr \in Nat /\ Len(p.data) \in Nat
        /\ words[flash.at[k]] = p.addr /\ words[flash.at[k] + 1] = Len(p.data)
        /\ flash.at[k + 1] = flash.at[k] + 2 + Len(p.data)
        /\ flash.at[k + 1] \in 1..Len(words)
    BY <1>2, <1>4, <2>2, PatchOf
  <2>4. \A m \in 1..Len(p.data) : words[flash.at[k] + 1 + m] = p.data[m]
    BY <1>2, <1>4, <2>2, PatchOf
  <2>5. Len(words) \in Nat /\ flash.at[k] \in 1..Len(words)
    BY <1>2, PatchOf
  <2>6. src \in Nat /\ src = flash.at[k]
    BY <1>3, <2>5
  <2> QED BY <2>1, <2>2, <2>3, <2>4, <2>5, <2>6
<1>6. DOMAIN low = 0..(LowWords - 1) /\ DOMAIN low' = DOMAIN low
  BY <1>1, <1>2 DEF Memory
<1>7. ASSUME NEW a \in DOMAIN low'
      PROVE  LeftBy(k, a, low'[a])
  <2>1. a \in DOMAIN low /\ a \in Nat /\ LeftBy(k - 1, a, low[a])
    BY <1>3, <1>6, PatchAssumption
  <2>2. Covers(p, a) <=> Hit(a, words[src], words[src + 1])
    BY <1>5 DEF Covers, Hit
  <2>3. CASE Covers(p, a)
    <3>1. low'[a] = words[src + 2 + (a - p.addr)]
      BY <1>1, <1>5, <2>1, <2>2, <2>3
    <3>2. a - p.addr + 1 \in 1..Len(p.data) /\ src + 1 + (a - p.addr + 1) = src + 2 + (a - p.addr)
      <4>1. a >= p.addr /\ a < p.addr + Len(p.data)
        BY <2>3 DEF Covers
      <4>2. \A x, y, n, z \in Nat : x >= y /\ x < y + n =>
               x - y + 1 \in 1..n /\ z + 1 + (x - y + 1) = z + 2 + (x - y)
        OBVIOUS
      <4>3. a \in Nat /\ p.addr \in Nat /\ Len(p.data) \in Nat /\ src \in Nat
        BY <1>5, <2>1
      <4> QED BY <4>1, <4>2, <4>3
    <3>3. low'[a] = p.data[a - p.addr + 1]
      BY <1>5, <3>1, <3>2
    <3> QED BY <1>2, <1>4, <1>5, <2>1, <2>3, <3>3, OneMore
  <2>4. CASE ~Covers(p, a)
    <3>1. low'[a] = low[a]
      BY <1>1, <2>1, <2>2, <2>4
    <3> QED BY <1>2, <1>4, <1>5, <2>1, <2>4, <3>1, OneMore
  <2> QED BY <2>3, <2>4
<1>9. PatchCount' = PatchCount /\ words' = words
  BY <1>1 DEF PatchCount, words
<1>10. Applying'
  <2>1. k + 1 \in 1..(PatchCount + 1) /\ (k + 1) - 1 = k /\ src' = flash.at[k + 1]
    BY <1>1, <1>5
  <2>2. PICK l \in 1..(PatchCount + 1) : l = k + 1
    BY <2>1
  <2>3. l - 1 = k /\ src' = flash.at[l]
    BY <2>1, <2>2
  <2>4. (\A a \in DOMAIN low : LeftBy(l - 1, a, low[a]))'
    BY <1>1, <1>7, <2>3 DEF LeftBy
  <2> QED BY <1>1, <1>2, <1>9, <2>2, <2>3, <2>4 DEF Applying
<1>11. Memory'
  BY <1>1, <1>2, <1>6 DEF Memory, RemoteWords
<1>12. EngineTypeOK'
  <2>1. src' = flash.at[k + 1]
    BY <1>1, <1>5
  <2>2. src' \in 1..(Len(words) + 1)
    <3>1. \A x, n \in Nat : x \in 1..n => x \in 1..(n + 1)
      OBVIOUS
    <3>3. src' \in 1..Len(words) /\ Len(words) \in Nat
      BY <1>5, <2>1
    <3>4. src' \in Nat
      BY <3>3
    <3> QED BY <3>1, <3>3, <3>4
  <2> QED BY <1>1, <1>2, <1>9, <2>2 DEF EngineTypeOK, RemoteWords
<1> QED BY <1>1, <1>2, <1>10, <1>11, <1>12 DEF EngineInv, Moving

(* The first list has ended, and with it the 1BL is as it must be.         *)
LEMMA EndStep == ASSUME EngineInv, ListEnds PROVE EngineInv'
<1>1. /\ enginePc = "apply" /\ enginePc' = "move" /\ words[src] = End /\ src' = src + 1
      /\ UNCHANGED <<flash, low, remote, slot, dst>>
  BY DEF ListEnds
<1>2. flash \in Lists /\ Memory /\ EngineTypeOK /\ slot = 0 /\ dst = 0
  BY <1>1 DEF EngineInv, Applying
<1>3. PICK k \in 1..(PatchCount + 1) :
        src = flash.at[k] /\ \A a \in DOMAIN low : LeftBy(k - 1, a, low[a])
  BY <1>1 DEF EngineInv, Applying
<1>4. k = PatchCount + 1 /\ PatchCount \in Nat
  <2>1. PatchCount \in Nat
    BY <1>2, PatchOf
  <2>2. ASSUME k <= PatchCount PROVE FALSE
    <3>1. flash.patches[k].addr # End /\ words[flash.at[k]] = flash.patches[k].addr
      BY <1>2, <2>2, PatchOf
    <3> QED BY <1>1, <1>3, <3>1
  <2> QED BY <2>1, <2>2
<1>5. \A a \in DOMAIN low : low[a] = Patched(a)
  <2>1. DOMAIN low = 0..(LowWords - 1) /\ k - 1 = PatchCount
    BY <1>2, <1>4 DEF Memory
  <2> QED BY <1>2, <1>3, <2>1, AllApplied
<1>6. PatchCount' = PatchCount /\ words' = words /\ \A a : Patched(a)' = Patched(a)
  BY <1>1 DEF PatchCount, words, Patched
<1>7. Applying'
  BY <1>1, <1>5, <1>6 DEF Applying
<1>8. Memory'
  BY <1>1, <1>2 DEF Memory, RemoteWords
<1>9. 1 \in 1..Slots /\ 0 \in 0..(Slots - 1) /\ 0 < Slots /\ 0 + 1 = 1
  BY DEF Slots
<1>10. /\ Len(flash.sections[1]) \in 1..SlotWords /\ src' = flash.from[1] + 0 /\ dst = Start(0) + 0
       /\ src' \in 1..(Len(words) + 1)
  <2>1. flash.from[1] = flash.at[PatchCount + 1] + 1 /\ Len(flash.sections[1]) \in 1..SlotWords
        /\ flash.from[1] \in Nat
    BY <1>2, <1>9, SectionOf
  <2>2. src' = flash.from[1]
    BY <1>1, <1>3, <1>4, <2>1
  <2>3. Start(0) = 0
    BY PatchAssumption DEF Start
  <2>4. src' \in 1..(Len(words) + 1)
    BY <1>1, <1>2, <1>3, <2>1, <2>2, PatchOf
  <2> QED BY <1>2, <2>1, <2>2, <2>3, <2>4
<1>11. Moving'
  <2>1. 0 \in 0..(Len(flash.sections[1]) - 1) /\ 1..0 = {}
    BY <1>10, PatchAssumption
  <2>2. LaidOut(1, 0)'
    BY <2>1 DEF LaidOut
  <2>3. slot' = 0 /\ slot' + 1 = 1 /\ 1..slot' = {}
    BY <1>1, <1>2
  <2> QED BY <1>1, <1>2, <1>9, <1>10, <2>1, <2>2, <2>3 DEF Moving, Start
<1>12. EngineTypeOK'
  BY <1>1, <1>2, <1>6, <1>10 DEF EngineTypeOK, RemoteWords
<1> QED BY <1>1, <1>2, <1>7, <1>8, <1>11, <1>12 DEF EngineInv

(* A word goes into its slot: it disturbs no list before it, nor the word  *)
(* behind the slots, since lists fit.                                      *)
LEMMA MoveStep == ASSUME EngineInv, MoveWord PROVE EngineInv'
<1>1. /\ enginePc = "move" /\ slot < Slots
      /\ remote' = [remote EXCEPT ![dst] = words[src]]
      /\ src' = src + 1
      /\ UNCHANGED <<flash, low, enginePc>>
  BY DEF MoveWord
<1>2. /\ words[src] = End => slot' = slot + 1 /\ dst' = (slot + 1) * SlotWords
      /\ words[src] # End => slot' = slot /\ dst' = dst + 1
  BY DEF MoveWord, NextSlot, NextWord
<1>3. flash \in Lists /\ Memory /\ EngineTypeOK
  BY DEF EngineInv
<1>4. PICK s \in 1..Slots : s = slot + 1
  BY <1>1, <1>3 DEF EngineTypeOK, Slots
<1>5. PICK list : list = flash.sections[s]
  OBVIOUS
<1>6. PICK n \in 0..(Len(list) - 1) :
        src = flash.from[s] + n /\ dst = Start(slot) + n /\ LaidOut(s, n)
  BY <1>1, <1>4, <1>5 DEF EngineInv, Moving
<1>7. /\ slot = s - 1 /\ slot \in 0..(Slots - 1) /\ s \in Nat /\ slot \in Nat
  BY <1>1, <1>3, <1>4 DEF EngineTypeOK, Slots
<1>8. /\ Start(slot) \in Nat /\ Start(s) = Start(slot) + SlotWords /\ s * SlotWords = Start(s)
      /\ Start(s) <= 3 * SlotWords /\ SlotWords \in Nat
      /\ \A r \in 0..(Slots - 1) : r < slot => Start(r) + SlotWords <= Start(slot)
  BY <1>4, <1>7, SlotStarts, PatchAssumption
<1>9. /\ Len(list) \in Nat /\ Len(list) <= SlotWords /\ n \in Nat /\ n + 1 \in 1..Len(list)
      /\ flash.from[s] \in Nat /\ flash.from[s + 1] = flash.from[s] + Len(list)
      /\ flash.from[s + 1] <= Len(words) + 1 /\ Len(words) \in Nat
  <2>1. Len(list) \in 1..SlotWords
    BY <1>3, <1>5, SectionOf
  <2>2. Len(list) \in Nat /\ Len(list) <= SlotWords /\ n \in Nat /\ n + 1 \in 1..Len(list)
    BY <1>6, <1>8, <2>1
  <2>3. /\ flash.from[s] \in Nat /\ flash.from[s + 1] = flash.from[s] + Len(list)
        /\ flash.from[s + 1] <= Len(words) + 1 /\ Len(words) \in Nat
    BY <1>3, <1>5, SectionOf
  <2> QED BY <2>2, <2>3
<1>10. words[src] = list[n + 1] /\ (words[src] = End <=> n + 1 = Len(list))
  <2>1. \A k \in 1..Len(list) : /\ words[flash.from[s] + k - 1] = list[k]
                                /\ list[k] = End <=> k = Len(list)
    BY <1>3, <1>5, SectionOf
  <2>2. flash.from[s] + (n + 1) - 1 = src
    BY <1>6, <1>9
  <2> QED BY <1>9, <2>1, <2>2
<1>11. /\ dst \in Nat /\ dst = Start(slot) + n /\ dst < Start(s) /\ dst < HoldWord
       /\ HoldWord \in Nat /\ Start(s) <= HoldWord
  <2>2. HoldWord \in Nat /\ FuseWords \in Nat /\ HoldWord >= 3 * SlotWords + FuseWords
    BY PatchAssumption
  <2>3. Start(s) \in Nat /\ n + 1 <= Len(list)
    BY <1>8, <1>9
  <2>4. n < SlotWords
    BY <1>8, <1>9, <2>3
  <2>5. \A b, m, w \in Nat : m < w => b + m \in Nat /\ b + m < b + w
    OBVIOUS
  <2>6. dst \in Nat /\ dst = Start(slot) + n /\ dst < Start(s)
    BY <1>6, <1>8, <1>9, <2>4, <2>5
  <2>7. Start(s) <= HoldWord
    BY <1>8, <2>2, <2>3
  <2>8. dst < HoldWord
    BY <2>2, <2>3, <2>6, <2>7
  <2> QED BY <2>2, <2>6, <2>7, <2>8
<1>12. /\ dst \in RemoteWords /\ HoldWord \in RemoteWords
       /\ remote' = [a \in RemoteWords |-> IF a = dst THEN words[src] ELSE remote[a]]
  <2>1. dst \in RemoteWords /\ HoldWord \in RemoteWords
    BY <1>11 DEF RemoteWords
  <2>2. remote = [a \in RemoteWords |-> remote[a]]
    BY <1>3 DEF Memory
  <2> QED BY <1>1, <2>1, <2>2
<1>13. Memory'
  <2>1. remote'[HoldWord] = Old
    BY <1>3, <1>11, <1>12 DEF Memory
  <2>2. remote' = [a \in RemoteWords |-> remote'[a]]
    BY <1>12
  <2> QED BY <1>1, <1>3, <2>1, <2>2 DEF Memory, RemoteWords
<1>14. words' = words /\ PatchCount' = PatchCount /\ \A a : Patched(a)' = Patched(a)
  BY <1>1 DEF PatchCount, words, Patched
<1>15. Applying'
  BY <1>1, <1>14 DEF Applying, EngineInv
<1>16. \A r \in 1..slot : LaidOut(r, Len(flash.sections[r]))'
  <2>1. SUFFICES ASSUME NEW r \in 1..slot, NEW k \in 1..Len(flash.sections[r])
                 PROVE  remote'[Start(r - 1) + k - 1] = flash.sections[r][k]
    BY <1>1 DEF LaidOut, Start
  <2>2. r \in 1..Slots /\ r - 1 \in 0..(Slots - 1) /\ r - 1 < slot
    BY <1>7 DEF Slots
  <2>3. Start(r - 1) \in Nat /\ Start(r - 1) + SlotWords <= Start(slot)
    BY <1>8, <2>2, SlotStarts
  <2>4. Len(flash.sections[r]) \in 1..SlotWords
    BY <1>3, <2>2, SectionOf
  <2>5. Start(r - 1) + k - 1 \in 0..(dst - 1)
    <3>1. \A b, i, l, w, c, m \in Nat :
            i \in 1..l /\ l \in 1..w /\ b + w <= c => b + i - 1 \in 0..((c + m) - 1)
      OBVIOUS
    <3>2. k \in Nat /\ Len(flash.sections[r]) \in Nat
      BY <1>8, <2>4
    <3> QED BY <1>8, <1>9, <1>11, <2>3, <2>4, <3>1, <3>2
  <2>6. Start(r - 1) + k - 1 \in RemoteWords /\ Start(r - 1) + k - 1 # dst
    BY <1>11, <2>5 DEF RemoteWords
  <2>7. remote[Start(r - 1) + k - 1] = flash.sections[r][k]
    BY <1>1 DEF EngineInv, Moving, LaidOut
  <2> QED BY <1>12, <2>6, <2>7
<1>17. \A k \in 1..(n + 1) : remote'[Start(slot) + k - 1] = list[k]
  <2>1. SUFFICES ASSUME NEW k \in 1..(n + 1) PROVE remote'[Start(slot) + k - 1] = list[k]
    OBVIOUS
  <2>2. CASE k = n + 1
    <3>1. Start(slot) + k - 1 = dst
      BY <1>8, <1>9, <1>11, <2>2
    <3> QED BY <1>10, <1>12, <2>2, <3>1
  <2>3. CASE k # n + 1
    <3>1. k \in 1..n /\ Start(slot) + k - 1 \in 0..(dst - 1)
      <4>1. k \in 1..n
        BY <1>9, <2>3
      <4>2. \A b, i, m \in Nat : i \in 1..m => b + i - 1 \in 0..((b + m) - 1)
        OBVIOUS
      <4>3. k \in Nat
        BY <1>9, <4>1
      <4> QED BY <1>8, <1>9, <1>11, <4>1, <4>2, <4>3
    <3>2. Start(slot) + k - 1 \in RemoteWords /\ Start(slot) + k - 1 # dst
      BY <1>11, <3>1 DEF RemoteWords
    <3>3. remote[Start(slot) + k - 1] = list[k]
      BY <1>5, <1>6, <1>7, <3>1 DEF LaidOut
    <3> QED BY <1>12, <3>2, <3>3
  <2> QED BY <2>2, <2>3
<1>18. LaidOut(s, n + 1)'
  BY <1>1, <1>5, <1>7, <1>17 DEF LaidOut, Start
<1>19. src' \in 1..(Len(words) + 1)
  <2>1. \A f, m, l, w \in Nat : m < l /\ f + l <= w + 1 => f + m + 1 \in 1..(w + 1)
    OBVIOUS
  <2>2. n < Len(list) /\ flash.from[s] + Len(list) <= Len(words) + 1
    BY <1>9
  <2> QED BY <1>1, <1>6, <1>9, <2>1, <2>2
<1>20. CASE words[src] # End
  <2>1. n + 1 < Len(list) /\ n + 1 \in 0..(Len(list) - 1)
    BY <1>9, <1>10, <1>20
  <2>2. /\ slot' = slot /\ dst' = Start(slot) + (n + 1) /\ src' = flash.from[s] + (n + 1)
    <3>1. \A b, m \in Nat : (b + m) + 1 = b + (m + 1)
      OBVIOUS
    <3>2. slot' = slot /\ dst' = dst + 1 /\ src' = src + 1
      BY <1>1, <1>2, <1>20
    <3> QED BY <1>6, <1>8, <1>9, <3>1, <3>2
  <2>3. dst' \in RemoteWords
    BY <1>2, <1>9, <1>11, <1>20 DEF RemoteWords
  <2>4. EngineTypeOK'
    BY <1>1, <1>3, <1>14, <1>19, <2>2, <2>3 DEF EngineTypeOK, RemoteWords
  <2>5. PICK m \in 0..(Len(list) - 1) : m = n + 1
    BY <2>1
  <2>6. src' = flash.from[s] + m /\ dst' = Start(slot) + m /\ LaidOut(s, m)'
    BY <1>18, <2>2, <2>5
  <2>7. Moving'
    BY <1>1, <1>4, <1>5, <1>16, <2>2, <2>6 DEF Moving, Start
  <2> QED BY <1>1, <1>3, <1>13, <1>15, <2>4, <2>7 DEF EngineInv
<1>21. CASE words[src] = End
  <2>1. n + 1 = Len(list) /\ slot' = s /\ dst' = Start(s)
    BY <1>2, <1>4, <1>8, <1>10, <1>21
  <2>2. dst' \in RemoteWords /\ slot' \in 0..Slots
    BY <1>8, <1>11, <2>1 DEF RemoteWords, Slots
  <2>3. EngineTypeOK'
    BY <1>1, <1>3, <1>14, <1>19, <2>2 DEF EngineTypeOK, RemoteWords
  <2>4. src' = flash.from[s + 1]
    <3>1. \A b, m \in Nat : (b + m) + 1 = b + (m + 1)
      OBVIOUS
    <3>2. src' = flash.from[s] + (n + 1)
      BY <1>1, <1>6, <1>9, <3>1
    <3> QED BY <1>9, <2>1, <3>2
  <2>5. \A r \in 1..s : LaidOut(r, Len(flash.sections[r]))'
    <3>1. \A r \in 1..s : r \in 1..slot \/ r = s
      BY <1>7
    <3>2. LaidOut(s, Len(list))'
      BY <1>1, <1>18, <2>1 DEF LaidOut
    <3>3. LaidOut(s, Len(flash.sections[s]))'
      BY <1>1, <1>5, <3>2 DEF LaidOut
    <3> QED BY <1>1, <1>16, <3>1, <3>3
  <2>6. s < Slots => /\ Len(flash.sections[s + 1]) \in 1..SlotWords /\ 0 \in 0..(Len(flash.sections[s + 1]) - 1)
                     /\ src' = flash.from[s + 1] + 0 /\ dst' = Start(s) + 0
                     /\ LaidOut(s + 1, 0)'
    <3>1. SUFFICES ASSUME s < Slots
                   PROVE  /\ Len(flash.sections[s + 1]) \in 1..SlotWords /\ 0 \in 0..(Len(flash.sections[s + 1]) - 1)
                          /\ src' = flash.from[s + 1] + 0 /\ dst' = Start(s) + 0
                          /\ LaidOut(s + 1, 0)'
      OBVIOUS
    <3>2. s + 1 \in 1..Slots
      BY <3>1 DEF Slots
    <3>3. Len(flash.sections[s + 1]) \in 1..SlotWords /\ flash.from[s + 1] \in Nat
      BY <1>3, <3>2, SectionOf
    <3>4. 0 \in 0..(Len(flash.sections[s + 1]) - 1) /\ 1..0 = {}
      BY <1>8, <3>3
    <3>5. src' = flash.from[s + 1] + 0 /\ dst' = Start(s) + 0
      BY <1>8, <2>1, <2>4, <3>3
    <3>6. LaidOut(s + 1, 0)'
      BY <3>4 DEF LaidOut
    <3> QED BY <3>3, <3>4, <3>5, <3>6
  <2>7. Moving'
    BY <1>1, <2>1, <2>5, <2>6 DEF Moving, Start
  <2> QED BY <1>1, <1>3, <1>13, <1>15, <2>3, <2>7 DEF EngineInv
<1> QED BY <1>20, <1>21

(* The fuses lie behind the slots and in front of the hold word.           *)
LEMMA FusesStep == ASSUME EngineInv, CopyFuses PROVE EngineInv'
<1>1. /\ enginePc = "move" /\ enginePc' = "boot" /\ slot = Slots
      /\ remote' = [a \in RemoteWords |-> IF IsFuse(a) THEN Fuse ELSE remote[a]]
      /\ UNCHANGED <<flash, src, low, slot, dst>>
  BY DEF CopyFuses
<1>2. flash \in Lists /\ Memory /\ EngineTypeOK
  BY DEF EngineInv
<1>3. /\ SlotWords \in Nat /\ FuseWords \in Nat /\ HoldWord \in Nat
      /\ HoldWord >= 3 * SlotWords + FuseWords /\ 3 * SlotWords \in Nat
  BY PatchAssumption
<1>4. \A a \in Nat : IsFuse(a) <=> a >= 3 * SlotWords /\ a < 3 * SlotWords + FuseWords
  BY DEF IsFuse, Slots
<1>5. Memory'
  <2>1. HoldWord \in RemoteWords /\ ~IsFuse(HoldWord)
    BY <1>3, <1>4 DEF RemoteWords
  <2>2. remote'[HoldWord] = Old
    BY <1>1, <1>2, <2>1 DEF Memory
  <2> QED BY <1>1, <1>2, <2>2 DEF Memory, RemoteWords
<1>6. \A a \in 0..(FuseWords - 1) : remote'[3 * SlotWords + a] = Fuse
  <2>1. SUFFICES ASSUME NEW a \in 0..(FuseWords - 1) PROVE remote'[3 * SlotWords + a] = Fuse
    OBVIOUS
  <2>2. 3 * SlotWords + a \in RemoteWords /\ IsFuse(3 * SlotWords + a)
    BY <1>3, <1>4 DEF RemoteWords
  <2> QED BY <1>1, <2>2
<1>7. ASSUME NEW s \in 1..Slots
      PROVE  LaidOut(s, Len(flash.sections[s]))'
  <2>1. SUFFICES ASSUME NEW k \in 1..Len(flash.sections[s])
                 PROVE  remote'[Start(s - 1) + k - 1] = flash.sections[s][k]
    BY <1>1 DEF LaidOut, Start
  <2>2. s - 1 \in 0..(Slots - 1) /\ (s - 1) + 1 = s
    BY DEF Slots
  <2>3. Start(s - 1) \in Nat /\ Start(s - 1) + SlotWords <= 3 * SlotWords
    BY <2>2, SlotStarts
  <2>4. Len(flash.sections[s]) \in 1..SlotWords
    BY <1>2, SectionOf
  <2>5. Start(s - 1) + k - 1 \in Nat /\ Start(s - 1) + k - 1 < 3 * SlotWords
    BY <1>3, <2>3, <2>4
  <2>6. Start(s - 1) + k - 1 \in RemoteWords /\ ~IsFuse(Start(s - 1) + k - 1)
    BY <1>3, <1>4, <2>5 DEF RemoteWords
  <2>7. s \in 1..slot
    BY <1>1
  <2>8. remote[Start(s - 1) + k - 1] = flash.sections[s][k]
    BY <1>1, <2>7 DEF EngineInv, Moving, LaidOut
  <2> QED BY <1>1, <2>6, <2>8
<1>8. Moving'
  BY <1>1, <1>6, <1>7 DEF Moving
<1>9. words' = words /\ PatchCount' = PatchCount /\ \A a : Patched(a)' = Patched(a)
  BY <1>1 DEF PatchCount, words, Patched
<1>10. Applying'
  BY <1>1, <1>9 DEF Applying, EngineInv
<1>11. EngineTypeOK'
  BY <1>1, <1>2, <1>9 DEF EngineTypeOK, RemoteWords
<1> QED BY <1>1, <1>2, <1>5, <1>8, <1>10, <1>11 DEF EngineInv

(* A step of the choice. *)
LEMMA EngineRests == ASSUME EngineInv, UNCHANGED engineVars PROVE EngineInv'
<1>1. UNCHANGED <<flash, src, low, remote, slot, dst, enginePc>>
  BY DEF engineVars
<1>2. /\ words' = words /\ PatchCount' = PatchCount /\ \A a : Patched(a)' = Patched(a)
      /\ \A j, a, v : LeftBy(j, a, v)' <=> LeftBy(j, a, v)
  BY <1>1 DEF PatchCount, words, Patched, LeftBy
<1>3. \A s, n : LaidOut(s, n)' <=> LaidOut(s, n)
  BY <1>1 DEF LaidOut, Start
<1>4. Applying'
  BY <1>1, <1>2 DEF EngineInv, Applying
<1>5. Moving'
  BY <1>1, <1>3 DEF EngineInv, Moving, Start
<1>6. EngineTypeOK' /\ Memory'
  BY <1>1, <1>2 DEF EngineInv, EngineTypeOK, Memory, RemoteWords
<1> QED BY <1>1, <1>4, <1>5, <1>6 DEF EngineInv

(* The inductive invariant of the firmware's way, in start() as a whole.   *)
LEMMA EngineInvariant == StartSafety => []EngineInv
<1>1. StartInit => EngineInv
  BY EngineStarts DEF StartInit
<1>2. EngineInv /\ [StartNext]_startVars => EngineInv'
  BY CopyStep, ApplyStep, EndStep, MoveStep, FusesStep, EngineRests
  DEF StartNext, Choice, Firmware, EngineNext, startVars
<1> QED BY <1>1, <1>2, PTL DEF StartSafety

-------------------------------------------------------------------------------
(* Options, mailbox and position in the patch area stay in range.          *)
THEOREM StartTyped == StartSpec => []StartTypeOK
<1>1. ChoiceInv /\ EngineInv => StartTypeOK
  BY DEF ChoiceInv, EngineInv, StartTypeOK
<1> QED BY <1>1, ChoiceInvariant, EngineInvariant, PTL DEF StartSpec

(* The 1BL is started with exactly its patches, a later over an earlier    *)
(* one, for lists of any length, overlap and data.                         *)
THEOREM SocIsPatched == StartSpec => []SocPatched
<1>1. EngineInv => SocPatched
  BY DEF EngineInv, Applying, SocPatched
<1> QED BY <1>1, EngineInvariant, PTL DEF StartSpec

(* Each later stage finds its list whole at the start of its slot.         *)
THEOREM EachListInPlace == StartSpec => []ListsInPlace
<1>1. EngineInv => ListsInPlace
  BY DEF EngineInv, Moving, LaidOut, Start, ListsInPlace
<1> QED BY <1>1, EngineInvariant, PTL DEF StartSpec

(* The fuses arrive whole and the hold word is never written over.         *)
THEOREM HoldWordUntouched == StartSpec => []FusesBelowHoldWord
<1>1. EngineInv => FusesBelowHoldWord
  BY DEF EngineInv, Memory, Moving, FusesBelowHoldWord
<1> QED BY <1>1, EngineInvariant, PTL DEF StartSpec
===============================================================================
