------------------------------ MODULE StartCore ------------------------------
(***************************************************************************)
(* start() of the reboot core behind the rendezvous, as thread 0 runs it:  *)
(* the choice of what to boot and, if that is not XeLL, the firmware's way *)
(* into memory, while the SMC goes on sending what it likes.               *)
(***************************************************************************)
EXTENDS BootChoice, PatchEngine

startVars == <<choiceVars, engineVars>>

StartInit == EngineInit /\ ChoiceInit

(* The else branch of if (bootxell). *)
FirmwareChosen == choicePc = "chosen" /\ ~bootxell

Choice == ChoiceNext /\ UNCHANGED engineVars
Firmware == FirmwareChosen /\ EngineNext /\ UNCHANGED choiceVars

StartNext == Choice \/ Firmware

StartSafety == StartInit /\ [][StartNext]_startVars

(* Thread 0 runs, and the SMC answers what it is asked. *)
Thread0 == (Choosing /\ UNCHANGED engineVars) \/ Firmware
Answer == SmcAnswer /\ UNCHANGED engineVars
StartFairness == WF_startVars(Thread0) /\ WF_startVars(Answer)

StartSpec == StartSafety /\ StartFairness
-------------------------------------------------------------------------------
(* The type invariants of both. *)
StartTypeOK == ChoiceTypeOK /\ EngineTypeOK

(* Both loops of patchEngine and the fuse copy end, and thread 0 jumps to  *)
(* the boot loader it was to boot.                                         *)
FirmwareStarted == FirmwareChosen ~> enginePc = "boot"
===============================================================================
