------------------------------ MODULE MCReboot ------------------------------
(***************************************************************************)
(* FiveThreads is the console: six hardware threads.  Two vectors let a    *)
(* jump be placed while another already works, three words let stores      *)
(* overtake one another.  Two secondaries are enough for the race with the *)
(* firmware's release: one announced and slow, one already polling.        *)
(***************************************************************************)
EXTENDS RebootProperties

CONSTANTS s1, s2, s3, s4, s5

TwoThreads == {s1, s2}
FiveThreads == {s1, s2, s3, s4, s5}
=============================================================================
