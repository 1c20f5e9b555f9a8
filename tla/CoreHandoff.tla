----------------------------- MODULE CoreHandoff -----------------------------
(***************************************************************************)
(* What the reboot core promises about the hardware threads.  Every thread *)
(* leaves the old hypervisor, none goes on before all have left it, and    *)
(* all of them go on into the same program: XeLL or the firmware.          *)
(***************************************************************************)
CONSTANT Threads

VARIABLES
  where,        \* of each thread: "old", "held", "xell" or "firmware"
  destination   \* "undecided", or where the held threads go

Init ==
  /\ where \in [Threads -> {"old", "held"}]
  /\ destination = "undecided"

Catch(t) ==
  /\ where[t] = "old"
  /\ where' = [where EXCEPT ![t] = "held"]
  /\ UNCHANGED destination

Decide ==
  /\ destination = "undecided"
  /\ \A t \in Threads : where[t] = "held"
  /\ destination' \in {"xell", "firmware"}
  /\ UNCHANGED where

Leave(t) ==
  /\ destination # "undecided" /\ where[t] = "held"
  /\ where' = [where EXCEPT ![t] = destination]
  /\ UNCHANGED destination

Next == Decide \/ \E t \in Threads : Catch(t) \/ Leave(t)

Spec == Init /\ [][Next]_<<where, destination>>
===============================================================================
