------------------------------ MODULE BarLayout ------------------------------
(***************************************************************************)
(* What a PCI function promises about its base address registers, whatever *)
(* the code that fills them: each BAR owns one register, or two            *)
(* consecutive ones when it is a 64-bit BAR; no register has two owners;   *)
(* once placed a BAR stays where it is until the whole layout is cleared.  *)
(***************************************************************************)
EXTENDS Integers

CONSTANT NSlots         \* number of base address registers of a function

VARIABLE layout         \* the set of extents in use, an extent is a set of registers

\* The extents a BAR may have: one register, or two consecutive ones.
Extents == { {s} : s \in 0 .. NSlots - 1 } \cup { {s, s + 1} : s \in 0 .. NSlots - 2 }

Init == layout = {}

Place(e) ==
  /\ \A f \in layout : e \cap f = {}
  /\ layout' = layout \cup {e}

Clear == layout' = {}

Next == Clear \/ \E e \in Extents : Place(e)

Spec == Init /\ [][Next]_layout
=============================================================================
