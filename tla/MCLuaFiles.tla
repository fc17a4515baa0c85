----------------------------- MODULE MCLuaFiles ------------------------------
(***************************************************************************)
(* The instance of LuaFiles for TLC.                                       *)
(***************************************************************************)
EXTENDS LuaFiles, TLC

\* The whole file, its second byte, and one byte from wherever a failed seek leaves it.
MCRanges == { <<0, 0>>, <<1, 1>>, <<-1, 1>> }

\* Processes, slots and handles are only compared with one another.
Symmetry == Permutations(Procs) \cup Permutations(Slots) \cup Permutations(Handles)
=============================================================================
