------------------------------ MODULE RebootCore ------------------------------
(***************************************************************************)
(* The reboot core (reboot_core/main.c, startup2.S, cache.S): hardware     *)
(* thread 0 runs start(), takes the other threads away from the old        *)
(* hypervisor by planting jumps in its exception vectors, waits until all  *)
(* of them are caught in a hold loop, and starts XeLL or the firmware.     *)
(*                                                                         *)
(* Stores of thread 0 become visible to the other threads in any order     *)
(* until a sync (the machine orders only what a sync separates).  own is   *)
(* memory as thread 0 sees it and seen as the others do; a store changes   *)
(* own, Propagate lets one location through, and the sync in flush_code    *)
(* lets all of them through.  Of a word of code it matters only whether    *)
(* the new word is there.                                                  *)
(***************************************************************************)
EXTENDS Naturals

CONSTANTS
  Secondaries,   \* hardware threads other than thread 0
  NumVectors,    \* entries of exc[]
  Irq,           \* the one the kick makes a thread take
  TrampWords,    \* instructions of the trampoline before a vector (6)
  XellWords      \* pieces in which XeLL is copied

ASSUME CoreAssumption ==
  /\ NumVectors \in Nat /\ Irq \in 1..NumVectors
  /\ TrampWords \in Nat \ {0}
  /\ XellWords \in Nat \ {0}

VARIABLES
  own, seen,   \* [tramp, branch, xell, secHold]: see above
  pc0,         \* what thread 0 does next
  vec, word,   \* the vector being replaced, the word being stored
  kicked,      \* the interrupt has been sent to the other threads
  pc,          \* where the other threads are
  online,      \* processors_online
  hold         \* the word at primary_hold_addr

vars == <<own, seen, pc0, vec, word, kicked, pc, online, hold>>

Vectors == 1..NumVectors
Memory == [tramp:   SUBSET (Vectors \X (1..TrampWords)),
           branch:  SUBSET Vectors,
           xell:    SUBSET (1..XellWords),
           secHold: BOOLEAN]

(* The hold word survives a reboot and the BSS is not part of the image:   *)
(* both may hold anything when _start is entered.                          *)
Init ==
  /\ \E stale \in BOOLEAN :
       own = [tramp |-> {}, branch |-> {}, xell |-> {}, secHold |-> stale]
  /\ seen = own
  /\ pc0 = "clear" /\ vec = 1 /\ word = 1 /\ kicked = FALSE
  /\ pc = [s \in Secondaries |-> "hypervisor"]
  /\ online = {}
  /\ hold \in BOOLEAN

Propagate ==
  /\ \/ \E x \in own.tramp \ seen.tramp :
          seen' = [seen EXCEPT !.tramp = @ \cup {x}]
     \/ \E v \in own.branch \ seen.branch :
          seen' = [seen EXCEPT !.branch = @ \cup {v}]
     \/ \E x \in own.xell \ seen.xell :
          seen' = [seen EXCEPT !.xell = @ \cup {x}]
     \/ /\ own.secHold # seen.secHold
        /\ seen' = [seen EXCEPT !.secHold = own.secHold]
  /\ UNCHANGED <<own, pc0, vec, word, kicked, pc, online, hold>>

-------------------------------------------------------------------------------
(* Thread 0. *)

(* Mutant of ClearBss: the BSS keeps what the last boot left. *)
KeepBss ==
  /\ pc0 = "clear"
  /\ pc0' = "tramp"
  /\ UNCHANGED <<own, seen, vec, word, kicked, pc, online, hold>>

ClearBss ==
  /\ pc0 = "clear"
  /\ own' = [own EXCEPT !.secHold = FALSE]
  /\ pc0' = "tramp"
  /\ UNCHANGED <<seen, vec, word, kicked, pc, online, hold>>

(* Mutant of MoreWords: one word too many. *)
OneMoreWord == word <= TrampWords

MoreWords == word < TrampWords

(* place_jump, first half: the six words before the vector, flush_code. *)
StoreTrampoline ==
  /\ pc0 = "tramp"
  /\ own' = [own EXCEPT !.tramp = @ \cup {<<vec, word>>}]
  /\ IF MoreWords
     THEN word' = word + 1 /\ UNCHANGED pc0
     ELSE word' = 1 /\ pc0' = "flush_trampoline"
  /\ UNCHANGED <<seen, vec, kicked, pc, online, hold>>

(* Mutant of FlushTrampoline: no sync between trampoline and branch. *)
NoFlush ==
  /\ pc0 = "flush_trampoline"
  /\ pc0' = "branch"
  /\ UNCHANGED <<own, seen, vec, word, kicked, pc, online, hold>>

FlushTrampoline ==
  /\ pc0 = "flush_trampoline"
  /\ seen' = own
  /\ pc0' = "branch"
  /\ UNCHANGED <<own, vec, word, kicked, pc, online, hold>>

(* place_jump, second half: the branch in the vector itself, flush_code. *)
StoreBranch ==
  /\ pc0 = "branch"
  /\ own' = [own EXCEPT !.branch = @ \cup {vec}]
  /\ pc0' = "flush_vector"
  /\ UNCHANGED <<seen, vec, word, kicked, pc, online, hold>>

(* Mutant of MoreVectors: the last vector is left alone. *)
MoreVectorsButOne == vec < NumVectors - 1

MoreVectors == vec < NumVectors

FlushVector ==
  /\ pc0 = "flush_vector"
  /\ seen' = own
  /\ IF MoreVectors
     THEN vec' = vec + 1 /\ pc0' = "tramp"
     ELSE UNCHANGED vec /\ pc0' = "kick"
  /\ UNCHANGED <<own, word, kicked, pc, online, hold>>

Kick ==
  /\ pc0 = "kick"
  /\ kicked' = TRUE
  /\ pc0' = "catch"
  /\ UNCHANGED <<own, seen, vec, word, pc, online, hold>>

(* Mutant of AllOnline: any other thread will do. *)
AnyOnline == online # {}

(* get_online_processors() == 0x3F *)
AllOnline == online = Secondaries

(* The spin on get_online_processors, then the choice of what to boot      *)
(* (BootChoice.tla) up to its first effect.                                *)
AwaitAllOnline ==
  /\ pc0 = "catch"
  /\ AllOnline
  /\ pc0' \in {"copy_xell", "copy_1bl"}
  /\ UNCHANGED <<own, seen, vec, word, kicked, pc, online, hold>>

CopyXell ==
  /\ pc0 = "copy_xell"
  /\ own' = [own EXCEPT !.xell = @ \cup {word}]
  /\ IF word < XellWords
     THEN word' = word + 1 /\ UNCHANGED pc0
     ELSE word' = 1 /\ pc0' = "set_hold"
  /\ UNCHANGED <<seen, vec, kicked, pc, online, hold>>

(* Mutant of SetSecondaryHold: thread 0 leaves without the others. *)
LeaveAlone ==
  /\ pc0 = "set_hold"
  /\ pc0' = "xell"
  /\ UNCHANGED <<own, seen, vec, word, kicked, pc, online, hold>>

(* secondary_hold_addr[0] = 1, return 1, startXell. *)
SetSecondaryHold ==
  /\ pc0 = "set_hold"
  /\ own' = [own EXCEPT !.secHold = TRUE]
  /\ pc0' = "xell"
  /\ UNCHANGED <<seen, vec, word, kicked, pc, online, hold>>

(* The 1BL, its patches and the fuses go to low memory, over the old       *)
(* hypervisor; return 0, jump to 0x100.                                    *)
BootFirmware ==
  /\ pc0 = "copy_1bl"
  /\ pc0' = "firmware"
  /\ UNCHANGED <<own, seen, vec, word, kicked, pc, online, hold>>

(* Later the booting firmware lets the other threads go. *)
FirmwareRelease ==
  /\ pc0 = "firmware"
  /\ hold' = TRUE
  /\ pc0' = "released"
  /\ UNCHANGED <<own, seen, vec, word, kicked, pc, online>>

-------------------------------------------------------------------------------
(* The other threads. *)

Move(s, from, to) ==
  /\ pc[s] = from
  /\ pc' = [pc EXCEPT ![s] = to]

(* An exception taken while the vector holds the branch runs the words of  *)
(* the trampoline as they are then; before that the old handler runs.      *)
TakeException(s, v) ==
  /\ v \in seen.branch
  /\ Move(s, "hypervisor",
          IF \A w \in 1..TrampWords : <<v, w>> \in seen.tramp
          THEN "start" ELSE "wild")
  /\ UNCHANGED <<own, seen, pc0, vec, word, kicked, online, hold>>

TakeInterrupt(s) == kicked /\ TakeException(s, Irq)

(* hold_all_but_core_0: first tell thread 0 ... *)
Announce(s) ==
  /\ Move(s, "start", "announced")
  /\ online' = online \cup {s}
  /\ UNCHANGED <<own, seen, pc0, vec, word, kicked, hold>>

(* Mutant of ClearHold: the hold word is taken as it is. *)
KeepHold(s) ==
  /\ Move(s, "announced", "wait")
  /\ UNCHANGED <<own, seen, pc0, vec, word, kicked, online, hold>>

(* ... then clear whatever an earlier boot left in the hold word. *)
ClearHold(s) ==
  /\ Move(s, "announced", "wait")
  /\ hold' = FALSE
  /\ UNCHANGED <<own, seen, pc0, vec, word, kicked, online>>

(* idlecorewait, leaving it through corecont *)
Continue(s) ==
  /\ hold
  /\ Move(s, "wait", "firmware")
  /\ UNCHANGED <<own, seen, pc0, vec, word, kicked, online, hold>>

(* idlecorewait, leaving it for fastsleep *)
SleepFirst(s) ==
  /\ ~hold /\ seen.secHold
  /\ Move(s, "wait", "sleep")
  /\ UNCHANGED <<own, seen, pc0, vec, word, kicked, online, hold>>

(* The 65536 turns of fastsleep outlast the stores thread 0 made before    *)
(* the one that let the thread out of the loop.                            *)
StoresDrained == own = seen

StartXell(s) ==
  /\ StoresDrained
  /\ Move(s, "sleep", IF seen.xell = 1..XellWords THEN "xell" ELSE "wild")
  /\ UNCHANGED <<own, seen, pc0, vec, word, kicked, online, hold>>

-------------------------------------------------------------------------------
Thread0 ==
  \/ ClearBss \/ StoreTrampoline \/ FlushTrampoline \/ StoreBranch
  \/ FlushVector \/ Kick \/ AwaitAllOnline \/ CopyXell \/ SetSecondaryHold
  \/ BootFirmware \/ FirmwareRelease

HoldLoop(s) ==
  Announce(s) \/ ClearHold(s) \/ Continue(s) \/ SleepFirst(s) \/ StartXell(s)

Secondary(s) == (\E v \in Vectors : TakeException(s, v)) \/ HoldLoop(s)

Next == Thread0 \/ Propagate \/ \E s \in Secondaries : Secondary(s)

Spec == Init /\ [][Next]_vars

(* Hardware threads run, stores become visible, and a kicked thread takes  *)
(* its interrupt.                                                          *)
Fairness ==
  /\ WF_vars(Thread0) /\ WF_vars(Propagate)
  /\ \A s \in Secondaries : WF_vars(TakeInterrupt(s)) /\ WF_vars(HoldLoop(s))

FairSpec == Spec /\ Fairness
===============================================================================
