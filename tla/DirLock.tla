------------------------------- MODULE DirLock -------------------------------
(***************************************************************************)
(* What lfs.lock_dir promises: of all lock objects of all processes at     *)
(* most one holds the directory, from the call that returned it until it   *)
(* is freed or collected or its process ends.                              *)
(***************************************************************************)
CONSTANT Locks  \* identities of lock objects

VARIABLE holders  \* the lock objects whose scripts believe they hold the directory

Acquire(l) ==
  /\ holders = {}
  /\ holders' = {l}

Release ==
  /\ holders # {}
  /\ holders' = {}

Init == holders = {}

Next == Release \/ \E l \in Locks : Acquire(l)

Spec == Init /\ [][Next]_holders
=============================================================================
