---------------------------- MODULE HostedSystem -----------------------------
(***************************************************************************)
(* What a TestDrive object promises to the simulation system it hosts,     *)
(* whatever script runs: it hosts at most one system at a time, lets go of *)
(* one before it takes another, never takes back one it let go of, and     *)
(* takes none once it has closed.                                          *)
(***************************************************************************)
EXTENDS Integers

CONSTANT Systems      \* the systems that may be created, numbered in order

VARIABLES
  hosted,             \* the systems alive
  issued,             \* the last number used up, by a system or by a failed attempt
  closed              \* no system is taken any more

vars == <<hosted, issued, closed>>

Init ==
  /\ hosted = {}
  /\ issued = 0
  /\ closed = FALSE

Take(s) ==
  /\ hosted = {} /\ ~closed
  /\ s > issued
  /\ hosted' = {s}
  /\ issued' = s
  /\ UNCHANGED closed

Fail(s) ==
  /\ hosted = {} /\ ~closed
  /\ s > issued
  /\ issued' = s
  /\ UNCHANGED <<hosted, closed>>

LetGo ==
  /\ hosted' = {}
  /\ UNCHANGED <<issued, closed>>

Close ==
  /\ closed' = TRUE
  /\ UNCHANGED <<hosted, issued>>

Next ==
  \/ \E s \in Systems : Take(s) \/ Fail(s)
  \/ LetGo
  \/ Close

Spec == Init /\ [][Next]_vars
=============================================================================
