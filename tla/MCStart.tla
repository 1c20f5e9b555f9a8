------------------------------- MODULE MCStart -------------------------------
(***************************************************************************)
(* start() for TLC: all settings with one list, and all lists with one     *)
(* setting and an SMC that says nothing unasked.                           *)
(*                                                                         *)
(* Three buttons suffice for xellbutton, xellbutton2 and dualboot to be    *)
(* pairwise equal or different, with one that matches none of them; a tray *)
(* is open, closed or neither.                                             *)
(***************************************************************************)
EXTENDS StartCore, SequencesExt

(***************************************************************************)
(* All first lists of up to two patches over four words of low memory,     *)
(* overlapping or empty, with data that may equal the end marker; lists    *)
(* for the three slots that are empty, short or fill their slot.           *)
(***************************************************************************)
Patch(a, d) == [addr |-> a, data |-> d]
Data == {<< >>, <<"d">>, <<End>>, <<"d", "e">>, <<End, "d">>}
Patches == {p \in {Patch(a, d) : a \in 0..3, d \in Data} : p.addr + Len(p.data) <= 4}
FirstLists == {<< >>} \cup {<<p>> : p \in Patches} \cup {<<p, q>> : p \in Patches, q \in Patches}

(* How lists are stored. *)
PatchWords(p) == <<p.addr, Len(p.data)>> \o p.data
ListWords(ps) == FlattenSeq([k \in DOMAIN ps |-> PatchWords(ps[k])]) \o <<End>>
Area(ps, qs) ==
  LET ss == [s \in 1..Slots |-> ListWords(qs[s])]
      begin == [s \in 1..(Slots + 1) |->
                  1 + Len(ListWords(ps)) + Len(FlattenSeq(SubSeq(ss, 1, s - 1)))]
  IN  [words |-> ListWords(ps) \o FlattenSeq(ss), patches |-> ps, sections |-> ss,
       at |-> [k \in 1..(Len(ps) + 1) |-> Len(ListWords(SubSeq(ps, 1, k - 1)))],
       from |-> begin]

Sections == {<< >>, <<Patch(1, <<"x">>)>>, <<Patch(2, <<"x", "y">>)>>}

FittingLists ==
  {Area(ps, << <<Patch(1, <<"x">>)>>, << >>, <<Patch(2, <<"x", "y">>)>> >>) : ps \in FirstLists}
    \cup {Area(ps, <<a, b, c>>) : ps \in {<<Patch(0, <<End>>)>>, << >>},
                                 a \in Sections, b \in Sections, c \in Sections}
NoPatches == Area(<< >>, << << >>, << >>, << >> >>)

(* The tray decides, and it is closed. *)
TraySetting == [usepwr |-> FALSE, nodvd |-> FALSE, dual |-> Unset, pwrr1 |-> Unset, pwrr2 |-> Unset]

QuietSmc == [reason |-> Eject, tray |-> Closed]

MCInit ==
  /\ \/ flash = NoPatches /\ events = MaxEvents
     \/ options = TraySetting /\ smc = QuietSmc /\ events = 0
  /\ StartInit
MCSpec == MCInit /\ [][StartNext]_startVars /\ StartFairness
===============================================================================
