----------------------------- MODULE RebootProofs -----------------------------
(***************************************************************************)
(* The safety of the reboot core's rendezvous for any number of threads,   *)
(* vectors and words of code.                                              *)
(***************************************************************************)
EXTENDS RebootProperties, TLAPS

(***************************************************************************)
(* The inductive invariant, in parts.                                      *)
(***************************************************************************)

(* What the others see of the code is part of what thread 0 has stored. *)
SeenIsOwn ==
  /\ seen.tramp \subseteq own.tramp
  /\ seen.branch \subseteq own.branch
  /\ seen.xell \subseteq own.xell

Complete(mem, v) == \A w \in 1..TrampWords : <<v, w>> \in mem.tramp

(* A branch is stored only when everybody sees the trampoline it leads to. *)
TrampolineFirst ==
  /\ pc0 = "tramp" => \A w \in 1..(word - 1) : <<vec, w>> \in own.tramp
  /\ pc0 = "flush_trampoline" => Complete(own, vec)
  /\ pc0 = "branch" => Complete(seen, vec)
  /\ \A v \in own.branch : Complete(seen, v)

(* secondary_hold_addr is seen clear from before the first branch to the   *)
(* moment thread 0 has copied XeLL.                                        *)
HoldAddrClear ==
  /\ pc0 = "clear" => own.branch = {}
  /\ pc0 \notin {"clear", "xell"} => ~own.secHold
  /\ (pc0 = "branch" \/ own.branch # {}) => (pc0 = "xell" \/ ~seen.secHold)

XellCopied ==
  /\ pc0 = "copy_xell" => 1..(word - 1) \subseteq own.xell
  /\ pc0 \in {"set_hold", "xell"} => own.xell = 1..XellWords

(* Only a branch takes a thread away from the hypervisor. *)
CaughtByBranch ==
  \A s \in Secondaries : pc[s] # "hypervisor" => own.branch # {}

(* While a thread polls the hold word, only the firmware has set it. *)
HoldSetByFirmware ==
  \A s \in Secondaries : pc[s] = "wait" /\ hold => pc0 = "released"

Barrier ==
  /\ \A s \in online : pc[s] \notin {"hypervisor", "start", "wild"}
  /\ PastCatch => online = Secondaries

IInv ==
  /\ TypeOK
  /\ SeenIsOwn /\ TrampolineFirst /\ HoldAddrClear /\ XellCopied
  /\ CaughtByBranch /\ HoldSetByFirmware /\ Barrier
  /\ NoWildFetch /\ ReleaseFollowsChoice

-------------------------------------------------------------------------------
USE CoreAssumption

(* Every step of the core keeps memory, the program counters and the place *)
(* in the word loops of place_jump and of the copy of XeLL within range.   *)
LEMMA TypeStep == TypeOK /\ [Next]_vars => TypeOK'
<1> SUFFICES ASSUME TypeOK, [Next]_vars PROVE TypeOK'
  OBVIOUS
<1> USE DEF TypeOK, WordLimit, Memory, Vectors
<1>1. CASE ClearBss
  <2>1. own' \in Memory
    BY <1>1 DEF ClearBss
  <2>2. word' \in 1..WordLimit'
    BY <1>1 DEF ClearBss
  <2>3. QED
    BY <1>1, <2>1, <2>2 DEF ClearBss
<1>2. CASE StoreTrampoline
  BY <1>2 DEF StoreTrampoline, MoreWords
<1>3. CASE FlushTrampoline
  BY <1>3 DEF FlushTrampoline
<1>4. CASE StoreBranch
  BY <1>4 DEF StoreBranch
<1>5. CASE FlushVector
  BY <1>5 DEF FlushVector, MoreVectors
<1>6. CASE Kick
  BY <1>6 DEF Kick
<1>7. CASE AwaitAllOnline
  BY <1>7 DEF AwaitAllOnline
<1>8. CASE CopyXell
  BY <1>8 DEF CopyXell
<1>9. CASE SetSecondaryHold
  BY <1>9 DEF SetSecondaryHold
<1>10. CASE BootFirmware
  BY <1>10 DEF BootFirmware
<1>11. CASE FirmwareRelease
  BY <1>11 DEF FirmwareRelease
<1>12. CASE Propagate
  BY <1>12 DEF Propagate
<1>13. ASSUME NEW s \in Secondaries, NEW v \in Vectors, TakeException(s, v)
       PROVE  TypeOK'
  BY <1>13 DEF TakeException, Move
<1>14. ASSUME NEW s \in Secondaries, HoldLoop(s)
       PROVE  TypeOK'
  <2>1. CASE Announce(s)
    BY <2>1 DEF Announce, Move
  <2>2. CASE ClearHold(s)
    BY <2>2 DEF ClearHold, Move
  <2>3. CASE Continue(s)
    BY <2>3 DEF Continue, Move
  <2>4. CASE SleepFirst(s)
    BY <2>4 DEF SleepFirst, Move
  <2>5. CASE StartXell(s)
    BY <2>5 DEF StartXell, Move
  <2>6. QED
    BY <1>14, <2>1, <2>2, <2>3, <2>4, <2>5 DEF HoldLoop
<1>15. CASE UNCHANGED vars
  BY <1>15 DEF vars
<1>16. QED
  BY <1>1, <1>2, <1>3, <1>4, <1>5, <1>6, <1>7, <1>8, <1>9, <1>10, <1>11,
     <1>12, <1>13, <1>14, <1>15 DEF Next, Thread0, Secondary

(* _start finds the hold word and the BSS as the last boot left them.      *)
LEMMA InitTypeOK == Init => TypeOK
<1> SUFFICES ASSUME Init PROVE TypeOK
  OBVIOUS
<1>1. own \in Memory
  BY DEF Init, Memory
<1>2. word \in 1..WordLimit /\ vec \in 1..NumVectors
  BY DEF Init, WordLimit
<1>3. QED
  BY <1>1, <1>2 DEF Init, TypeOK

(* The core starts in a state of the right type, whatever the hold word    *)
(* and the BSS hold, and stays within it.                                  *)
THEOREM TypeCorrect == Spec => []TypeOK
BY InitTypeOK, TypeStep, PTL DEF Spec

-------------------------------------------------------------------------------
(* The stores of thread 0: a vector gets its branch only when the others   *)
(* see the trampoline, secondary_hold_addr is set only when XeLL is there. *)
LEMMA Thread0Step == ASSUME IInv, TypeOK', Thread0 PROVE IInv'
<1> USE DEF IInv, TypeOK, WordLimit, Memory, SeenIsOwn, TrampolineFirst, Complete,
            HoldAddrClear, XellCopied, CaughtByBranch, HoldSetByFirmware, Barrier,
            PastCatch, NoWildFetch, ReleaseFollowsChoice
<1>1. CASE ClearBss
  BY <1>1 DEF ClearBss
<1>2. CASE StoreTrampoline
  BY <1>2 DEF StoreTrampoline, MoreWords
<1>3. CASE FlushTrampoline
  BY <1>3 DEF FlushTrampoline
<1>4. CASE StoreBranch
  BY <1>4 DEF StoreBranch
<1>5. CASE FlushVector
  BY <1>5 DEF FlushVector, MoreVectors
<1>6. CASE Kick
  BY <1>6 DEF Kick
<1>7. CASE AwaitAllOnline
  BY <1>7 DEF AwaitAllOnline, AllOnline
<1>8. CASE CopyXell
  BY <1>8 DEF CopyXell
<1>9. CASE SetSecondaryHold
  BY <1>9 DEF SetSecondaryHold
<1>10. CASE BootFirmware
  BY <1>10 DEF BootFirmware
<1>11. CASE FirmwareRelease
  BY <1>11 DEF FirmwareRelease
<1>12. QED
  BY <1>1, <1>2, <1>3, <1>4, <1>5, <1>6, <1>7, <1>8, <1>9, <1>10, <1>11
     DEF Thread0

(* A store becoming visible: the others see no more than thread 0 stored.  *)
LEMMA PropagateStep == ASSUME IInv, TypeOK', Propagate PROVE IInv'
<1> USE DEF IInv, TypeOK, Memory, SeenIsOwn, TrampolineFirst, Complete, HoldAddrClear,
            XellCopied, CaughtByBranch, HoldSetByFirmware, Barrier, PastCatch,
            NoWildFetch, ReleaseFollowsChoice, Propagate
<1>1. SeenIsOwn' /\ TrampolineFirst'
  OBVIOUS
<1>2. HoldAddrClear'
  OBVIOUS
<1>3. QED
  BY <1>1, <1>2

(* The other threads: a branch that is seen leads to a whole trampoline,   *)
(* and both ways out of the hold loop need what only thread 0's choice or  *)
(* the firmware can have stored.                                           *)
LEMMA SecondaryStep ==
  ASSUME IInv, TypeOK', NEW s \in Secondaries, Secondary(s)
  PROVE  IInv'
<1> USE DEF IInv, TypeOK, Memory, SeenIsOwn, TrampolineFirst, Complete, HoldAddrClear,
            XellCopied, CaughtByBranch, HoldSetByFirmware, Barrier, PastCatch,
            NoWildFetch, ReleaseFollowsChoice, Move
<1>1. ASSUME NEW v \in Vectors, TakeException(s, v)
      PROVE  IInv'
  <2>1. Complete(seen, v) /\ own.branch # {}
    BY <1>1 DEF TakeException
  <2>2. pc' = [pc EXCEPT ![s] = "start"]
    BY <1>1, <2>1 DEF TakeException
  <2>3. QED
    BY <1>1, <2>1, <2>2 DEF TakeException
<1>2. CASE Announce(s)
  BY <1>2 DEF Announce
<1>3. CASE ClearHold(s)
  BY <1>3 DEF ClearHold
<1>4. CASE Continue(s)
  BY <1>4 DEF Continue
<1>5. CASE SleepFirst(s)
  BY <1>5 DEF SleepFirst
<1>6. CASE StartXell(s)
  <2>1. pc' = [pc EXCEPT ![s] = "xell"]
    BY <1>6 DEF StartXell, StoresDrained
  <2>2. QED
    BY <1>6, <2>1 DEF StartXell
<1>7. QED
  BY <1>1, <1>2, <1>3, <1>4, <1>5, <1>6 DEF Secondary, HoldLoop

(* The invariant holds of the stale memory every boot starts from and of   *)
(* every state the core reaches.                                           *)
THEOREM Invariance == Spec => []IInv
<1>1. Init => IInv
  <2> SUFFICES ASSUME Init PROVE IInv
    OBVIOUS
  <2>1. TypeOK
    BY InitTypeOK
  <2>2. QED
    BY <2>1 DEF Init, IInv, SeenIsOwn, TrampolineFirst, Complete, HoldAddrClear,
                XellCopied, CaughtByBranch, HoldSetByFirmware, Barrier, PastCatch,
                NoWildFetch, ReleaseFollowsChoice
<1>2. IInv /\ [Next]_vars => IInv'
  <2> SUFFICES ASSUME IInv, [Next]_vars PROVE IInv'
    OBVIOUS
  <2>1. TypeOK'
    BY TypeStep DEF IInv
  <2>2. CASE Next
    BY <2>1, <2>2, Thread0Step, PropagateStep, SecondaryStep DEF Next
  <2>3. CASE UNCHANGED vars
    BY <2>3 DEF vars, IInv, TypeOK, WordLimit, SeenIsOwn, TrampolineFirst, Complete,
                HoldAddrClear, XellCopied, CaughtByBranch, HoldSetByFirmware,
                Barrier, PastCatch, NoWildFetch, ReleaseFollowsChoice
  <2>4. QED
    BY <2>2, <2>3
<1>3. QED
  BY <1>1, <1>2, PTL DEF Spec

(* For any number of vectors and words no thread runs a half-stored        *)
(* trampoline or a half-copied XeLL, in whatever order stores arrive.      *)
THEOREM NeverWild == Spec => []NoWildFetch
<1>1. IInv => NoWildFetch
  BY DEF IInv
<1>2. QED
  BY <1>1, Invariance, PTL

(* When thread 0 copies the 1BL or XeLL over low memory, none of any       *)
(* number of threads is left in the old hypervisor or in start().          *)
THEOREM OverwriteIsSafe == Spec => []NobodyInOverwrittenCode
<1>1. IInv => NobodyInOverwrittenCode
  BY DEF IInv, Barrier, NobodyInOverwrittenCode
<1>2. QED
  BY <1>1, Invariance, PTL

(* Whatever the hold word and the BSS held at power on, a thread leaves    *)
(* the hold loop only for the program thread 0 chose, after the choice.    *)
THEOREM ReleaseIsChosen == Spec => []ReleaseFollowsChoice
<1>1. IInv => ReleaseFollowsChoice
  BY DEF IInv
<1>2. QED
  BY <1>1, Invariance, PTL

-------------------------------------------------------------------------------
(* The choice, made behind the spin, is CoreHandoff's Decide. *)
LEMMA ChoiceDecides == ASSUME IInv, AwaitAllOnline PROVE Handoff!Decide
<1>1. Destination = "undecided" /\ Destination' \in {"xell", "firmware"}
  BY DEF AwaitAllOnline, Destination
<1>2. ASSUME NEW s \in Secondaries PROVE Where(s) = "held"
  <2>1. pc[s] \in {"announced", "wait"}
    BY DEF AwaitAllOnline, AllOnline, IInv, TypeOK, Barrier, ReleaseFollowsChoice
  <2>2. QED
    BY <2>1 DEF Where
<1>3. UNCHANGED Places
  BY DEF AwaitAllOnline, Places, Where
<1>4. QED
  BY <1>1, <1>2, <1>3 DEF Handoff!Decide, Places

(* Moving one thread moves only its place. *)
LEMMA PlaceOfMover ==
  ASSUME TypeOK, NEW s \in Secondaries, NEW from, NEW to, Move(s, from, to)
  PROVE  Places' = [Places EXCEPT ![s] = Where(s)']
<1>1. \A t \in Secondaries \ {s} : Where(t)' = Where(t)
  BY DEF TypeOK, Move, Where
<1>2. QED
  BY <1>1 DEF Places

(* A thread's step is its capture, its release, or one of the steps in the *)
(* hold loop that CoreHandoff does not see.                                *)
LEMMA SecondaryHandoff ==
  ASSUME IInv, NEW s \in Secondaries, Secondary(s)
  PROVE  Handoff!Catch(s) \/ Handoff!Leave(s) \/ UNCHANGED <<Places, Destination>>
<1>1. UNCHANGED Destination
  BY DEF Secondary, HoldLoop, TakeException, Announce, ClearHold, Continue,
         SleepFirst, StartXell, Destination
<1>2. TypeOK
  BY DEF IInv
<1>3. Places[s] = Where(s)
  BY DEF Places
<1>4. ASSUME NEW from, NEW to, Move(s, from, to), Where(s)' = Where(s)
      PROVE  UNCHANGED Places
  BY <1>2, <1>4, PlaceOfMover DEF Places
<1>5. ASSUME NEW v \in Vectors, TakeException(s, v)
      PROVE  UNCHANGED Places
  <2>1. Where(s) = "old" /\ Where(s)' = "old"
    BY <1>2, <1>5 DEF TakeException, Move, Where, TypeOK
  <2>2. QED
    BY <1>4, <1>5, <2>1 DEF TakeException
<1>6. CASE Announce(s)
  <2>1. Where(s) = "old" /\ Where(s)' = "held"
    BY <1>2, <1>6 DEF Announce, Move, Where, TypeOK
  <2>2. Places' = [Places EXCEPT ![s] = "held"]
    BY <1>2, <1>6, <2>1, PlaceOfMover DEF Announce
  <2>3. QED
    BY <1>1, <1>3, <2>1, <2>2 DEF Handoff!Catch
<1>7. CASE ClearHold(s)
  <2>1. Where(s) = "held" /\ Where(s)' = "held"
    BY <1>2, <1>7 DEF ClearHold, Move, Where, TypeOK
  <2>2. QED
    BY <1>1, <1>4, <1>7, <2>1 DEF ClearHold
<1>8. CASE Continue(s)
  <2>1. Where(s) = "held" /\ Where(s)' = "firmware"
    BY <1>2, <1>8 DEF Continue, Move, Where, TypeOK
  <2>2. Places' = [Places EXCEPT ![s] = "firmware"]
    BY <1>2, <1>8, <2>1, PlaceOfMover DEF Continue
  <2>3. Destination = "firmware"
    BY <1>8 DEF Continue, Move, IInv, HoldSetByFirmware, Destination
  <2>4. QED
    BY <1>1, <1>3, <2>1, <2>2, <2>3 DEF Handoff!Leave
<1>9. CASE SleepFirst(s)
  <2>1. Where(s) = "held" /\ Where(s)' = "held"
    BY <1>2, <1>9 DEF SleepFirst, Move, Where, TypeOK
  <2>2. QED
    BY <1>1, <1>4, <1>9, <2>1 DEF SleepFirst
<1>10. CASE StartXell(s)
  <2>1. pc0 = "xell" /\ seen.xell = 1..XellWords
    BY <1>10 DEF StartXell, StoresDrained, Move, IInv, ReleaseFollowsChoice, XellCopied
  <2>2. Where(s) = "held" /\ Where(s)' = "xell"
    BY <1>2, <1>10, <2>1 DEF StartXell, Move, Where, TypeOK
  <2>3. Places' = [Places EXCEPT ![s] = "xell"]
    BY <1>2, <1>10, <2>2, PlaceOfMover DEF StartXell
  <2>4. Destination = "xell"
    BY <2>1 DEF Destination
  <2>5. QED
    BY <1>1, <1>3, <2>2, <2>3, <2>4 DEF Handoff!Leave
<1>11. QED
  BY <1>1, <1>5, <1>6, <1>7, <1>8, <1>9, <1>10 DEF Secondary, HoldLoop

(* Thread 0 apart from the choice, and the memory, change no place.        *)
LEMMA RestStutters ==
  ASSUME (Thread0 /\ ~AwaitAllOnline) \/ Propagate \/ UNCHANGED vars
  PROVE  UNCHANGED <<Places, Destination>>
<1>1. UNCHANGED pc /\ UNCHANGED Destination
  BY DEF Thread0, ClearBss, StoreTrampoline, FlushTrampoline, StoreBranch, FlushVector,
         Kick, CopyXell, SetSecondaryHold, BootFirmware, FirmwareRelease, Propagate,
         vars, Destination
<1>2. QED
  BY <1>1 DEF Places, Where

(* The rendezvous of place_jump, hold_all_but_core_0 and start() is the    *)
(* hand-off CoreHandoff specifies: all threads are caught before one goes  *)
(* on, and all go on to the same program.                                  *)
THEOREM RefinesHandoff == Spec => HandoffSpec
<1>1. Init => Handoff!Init
  <2> SUFFICES ASSUME Init PROVE Handoff!Init
    OBVIOUS
  <2>1. \A s \in Secondaries : Where(s) = "old"
    BY DEF Init, Where
  <2>2. QED
    BY <2>1 DEF Init, Handoff!Init, Places, Destination
<1>2. IInv /\ [Next]_vars => [Handoff!Next]_<<Places, Destination>>
  <2> SUFFICES ASSUME IInv, [Next]_vars
               PROVE  Handoff!Next \/ UNCHANGED <<Places, Destination>>
    OBVIOUS
  <2>1. CASE AwaitAllOnline
    BY <2>1, ChoiceDecides DEF Handoff!Next
  <2>2. ASSUME NEW s \in Secondaries, Secondary(s)
        PROVE  Handoff!Next \/ UNCHANGED <<Places, Destination>>
    BY <2>2, SecondaryHandoff DEF Handoff!Next
  <2>3. QED
    BY <2>1, <2>2, RestStutters DEF Next
<1>3. QED
  BY <1>1, <1>2, Invariance, PTL DEF Spec, HandoffSpec, Handoff!Spec
===============================================================================
