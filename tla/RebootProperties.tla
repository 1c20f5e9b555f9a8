--------------------------- MODULE RebootProperties ---------------------------
(***************************************************************************)
(* What the reboot core must get right.                                    *)
(***************************************************************************)
EXTENDS RebootCore

WordLimit == IF pc0 = "tramp" THEN TrampWords
             ELSE IF pc0 = "copy_xell" THEN XellWords ELSE 1

(* Type invariant; the word being stored is one of those there are. *)
TypeOK ==
  /\ own \in Memory /\ seen \in Memory
  /\ pc0 \in {"clear", "tramp", "flush_trampoline", "branch", "flush_vector",
              "kick", "catch", "copy_xell", "set_hold", "xell", "copy_1bl",
              "firmware", "released"}
  /\ vec \in 1..NumVectors /\ word \in 1..WordLimit /\ kicked \in BOOLEAN
  /\ pc \in [Secondaries -> {"hypervisor", "start", "announced", "wait", "sleep",
                             "xell", "firmware", "wild"}]
  /\ online \in SUBSET Secondaries
  /\ hold \in BOOLEAN

(* No thread ever runs a half-written trampoline or a half-copied XeLL:    *)
(* place_jump makes the trampoline visible before the branch that leads    *)
(* there, and fastsleep waits for the copy behind secondary_hold_addr.     *)
NoWildFetch == \A s \in Secondaries : pc[s] # "wild"

PastCatch == pc0 \in {"copy_xell", "set_hold", "xell", "copy_1bl", "firmware",
                      "released"}

(* Thread 0 writes low memory and XeLL only when no other thread is left   *)
(* in the old hypervisor, whose code and vectors the 1BL copy overwrites.  *)
NobodyInOverwrittenCode ==
  PastCatch => \A s \in Secondaries : pc[s] \notin {"hypervisor", "start"}

(* A thread leaves the hold loop only for the program thread 0 has chosen  *)
(* and only after it was chosen, whatever an earlier boot left in the hold *)
(* word and in secondary_hold_addr.                                        *)
ReleaseFollowsChoice ==
  \A s \in Secondaries :
    /\ pc[s] = "firmware" => pc0 = "released"
    /\ pc[s] \in {"sleep", "xell"} => pc0 = "xell"

(* The threads as CoreHandoff knows them. *)
Where(s) ==
  CASE pc[s] \in {"hypervisor", "start", "wild"} -> "old"
    [] pc[s] \in {"announced", "wait", "sleep"} -> "held"
    [] pc[s] = "xell" -> "xell"
    [] pc[s] = "firmware" -> "firmware"

Places == [s \in Secondaries |-> Where(s)]

Destination ==
  IF pc0 \in {"copy_xell", "set_hold", "xell"} THEN "xell"
  ELSE IF pc0 \in {"copy_1bl", "firmware", "released"} THEN "firmware"
  ELSE "undecided"

Handoff == INSTANCE CoreHandoff WITH
  Threads <- Secondaries, where <- Places, destination <- Destination

(* The rendezvous implements the hand-off: all are caught before any goes  *)
(* on, and all that go on go to the same place.                            *)
HandoffSpec == Handoff!Spec

(* Once thread 0 has kicked them every thread is caught, and thread 0      *)
(* leaves its spin: nobody waits for ever at the rendezvous.               *)
AllCaught == (pc0 = "kick") ~> PastCatch

(* When XeLL is booted every thread arrives there. *)
XellGetsAllThreads ==
  (pc0 = "copy_xell") ~> \A s \in Secondaries : pc[s] = "xell"

(* When the firmware lets the threads go every thread arrives there. *)
FirmwareGetsAllThreads ==
  (pc0 = "released") ~> \A s \in Secondaries : pc[s] = "firmware"
===============================================================================
