------------------------------ MODULE SvodPackage ------------------------------
(***************************************************************************)
(* What a conversion promises to whoever looks at the output folder.       *)
(*                                                                         *)
(* The package header is the commit point: while it is absent nothing is   *)
(* promised, and from the step that creates it a reader that walks the     *)
(* hash chain from the header down finds every unit of the image, in       *)
(* order.  A package is never changed afterwards, only removed as a whole. *)
(***************************************************************************)
EXTENDS Naturals, Sequences

CONSTANTS ImageUnits   \* lengths, in units, an image may have

VARIABLES
  status,     \* "absent", "building" or "published"
  delivered   \* the units a verifying reader obtains, << >> if none

Image(n) == [k \in 1..n |-> k - 1]

Init == status = "absent" /\ delivered = << >>

Begin ==
  /\ status = "absent"
  /\ status' = "building"
  /\ UNCHANGED delivered

Publish ==
  /\ status = "building"
  /\ status' = "published"
  /\ \E n \in ImageUnits : delivered' = Image(n)

Remove ==
  /\ status # "absent"
  /\ status' = "absent"
  /\ delivered' = << >>

Next == Begin \/ Publish \/ Remove

Spec == Init /\ [][Next]_<<status, delivered>>
================================================================================
