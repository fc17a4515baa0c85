---------------------------- MODULE SystemModule -----------------------------
(***************************************************************************)
(* The life of one TestDrive object (src/testdrive_device.cpp, and         *)
(* RunScript of src/testdrive_script.cpp): its constructor runs the setup  *)
(* script, the script loads simulation systems from dynamic libraries and  *)
(* takes pointers into their memory, then the device uses the system until *)
(* it is shut down or destroyed.                                           *)
(*                                                                         *)
(* LoadSystemModule and the destructor are split at every call they make   *)
(* into a library or a system, for a system runs threads of its own: what  *)
(* is alive between two of these calls is what such a thread can run into. *)
(* A system and the library it comes from carry the same number, the count *)
(* of LoadSystemModule calls so far; No stands for NULL.                   *)
(***************************************************************************)
EXTENDS Integers

CONSTANT MaxLoads      \* bound on the LoadSystemModule calls of the scripts

ASSUME MaxLoadsAssumption == MaxLoads \in Nat

Loads == 1 .. MaxLoads
No == 0

VARIABLES
  phase,       \* what the object is doing
  at,          \* the point reached in LoadSystemModule, "idle" outside of it
  loads,       \* LoadSystemModule calls so far
  lua,         \* m_pLua is open
  lib,         \* m_hSystemImpModule
  sys,         \* m_pSystem
  libs,        \* libraries mapped into the process
  systems,     \* systems created and not released
  wired,       \* systems whose interrupt service is registered and enabled
  direct,      \* systems into whose memory the pMem of a BAR points
  buffer       \* system into whose memory display.pBuffer points

vars == <<phase, at, loads, lua, lib, sys, libs, systems, wired, direct, buffer>>

Phases ==
  { "new", "setup", "simulation", "ready", "shut", "closing", "released", "deleted",
    "exited", "crashed" }

\* A script is running, and it is between two calls.
Scripting == phase \in {"setup", "simulation"} /\ at = "idle"

\* Mutant: the handle of the library is not initialized.
InitFromOne ==
  /\ phase = "new" /\ at = "idle"
  /\ loads = 0
  /\ lua = FALSE
  /\ lib = MaxLoads + 1 /\ sys = No
  /\ libs = {} /\ systems = {} /\ wired = {}
  /\ direct = {} /\ buffer = No

Init ==
  /\ phase = "new" /\ at = "idle"
  /\ loads = 0
  /\ lua = FALSE
  /\ lib = No /\ sys = No
  /\ libs = {} /\ systems = {} /\ wired = {} /\ direct = {} /\ buffer = No

-----------------------------------------------------------------------------
(* Constructor and RunScript. *)

\* SETUP_SCRIPT is empty: no script, no engine, no system.
SkipScript ==
  /\ phase = "new"
  /\ phase' = "ready"
  /\ UNCHANGED <<at, loads, lua, lib, sys, libs, systems, wired, direct, buffer>>

StartScript ==
  /\ phase = "new"
  /\ phase' = "setup"
  /\ lua' = TRUE
  /\ UNCHANGED <<at, loads, lib, sys, libs, systems, wired, direct, buffer>>

\* luaL_newstate fails: RunScript returns false and the constructor exits.
NoEngine ==
  /\ phase = "new"
  /\ phase' = "exited"
  /\ UNCHANGED <<at, loads, lua, lib, sys, libs, systems, wired, direct, buffer>>

\* The setup script returned; the simulation script is asked of m_pSystem, which
\* nothing compares with NULL.  An empty script is not run.
SetupReturns ==
  /\ phase = "setup" /\ at = "idle"
  /\ phase' \in IF sys = No THEN {"crashed"} ELSE {"simulation", "ready"}
  /\ UNCHANGED <<at, loads, lua, lib, sys, libs, systems, wired, direct, buffer>>

SimulationReturns ==
  /\ phase = "simulation" /\ at = "idle"
  /\ phase' = "ready"
  /\ UNCHANGED <<at, loads, lua, lib, sys, libs, systems, wired, direct, buffer>>

\* Either script raises an error: RunScript returns false and the constructor exits.
ScriptFails ==
  /\ Scripting
  /\ phase' = "exited"
  /\ UNCHANGED <<at, loads, lua, lib, sys, libs, systems, wired, direct, buffer>>

\* GetDescription asks m_pSystem without comparing it with NULL.
GetDescription ==
  /\ Scripting
  /\ phase' = IF sys = No THEN "crashed" ELSE phase
  /\ UNCHANGED <<at, loads, lua, lib, sys, libs, systems, wired, direct, buffer>>

\* CreateBAR takes a direct pointer when the BAR is bound inside the system's memory.
CreateDirectBAR ==
  /\ Scripting /\ sys # No
  /\ direct' = direct \cup {sys}
  /\ UNCHANGED <<phase, at, loads, lua, lib, sys, libs, systems, wired, buffer>>

\* CreateBAR(nil).
ResetBARs ==
  /\ Scripting
  /\ direct' = {}
  /\ UNCHANGED <<phase, at, loads, lua, lib, sys, libs, systems, wired, buffer>>

\* Rejected when there is no system.
EnableDisplay ==
  /\ Scripting /\ sys # No
  /\ buffer' = sys
  /\ UNCHANGED <<phase, at, loads, lua, lib, sys, libs, systems, wired, direct>>

\* EnableDisplay with a zero width or height.
DisableDisplay ==
  /\ Scripting
  /\ buffer' = No
  /\ UNCHANGED <<phase, at, loads, lua, lib, sys, libs, systems, wired, direct>>

-----------------------------------------------------------------------------
(* LoadSystemModule. *)

\* Mutant: the library goes before the system that runs its code.
LoadUnmapsFirst ==
  /\ Scripting /\ loads < MaxLoads
  /\ at' = "releasing"
  /\ loads' = loads + 1
  /\ lib' = No /\ libs' = libs \ {lib}
  /\ UNCHANGED <<phase, lua, sys, systems, wired, direct, buffer>>

\* Mutant: the old system is not released.
LoadReleasesNothing ==
  /\ Scripting /\ loads < MaxLoads
  /\ at' = "releasing"
  /\ loads' = loads + 1
  /\ UNCHANGED <<phase, lua, lib, sys, libs, systems, wired, direct, buffer>>

\* SAFE_RELEASE(m_pSystem).
LoadReleases ==
  /\ Scripting /\ loads < MaxLoads
  /\ at' = "releasing"
  /\ loads' = loads + 1
  /\ sys' = No /\ systems' = systems \ {sys} /\ wired' = wired \ {sys}
  /\ UNCHANGED <<phase, lua, lib, libs, direct, buffer>>

\* Mutant: the old library is forgotten without being freed.
LoadForgets ==
  /\ at = "releasing"
  /\ at' = "freed"
  /\ lib' = No
  /\ UNCHANGED <<phase, loads, lua, sys, libs, systems, wired, direct, buffer>>

\* FreeLibrary of the old library, if there is one.
LoadFrees ==
  /\ at = "releasing"
  /\ at' = "freed"
  /\ lib' = No /\ libs' = libs \ {lib}
  /\ UNCHANGED <<phase, loads, lua, sys, systems, wired, direct, buffer>>

\* LoadLibrary fails.
LoadFindsNoFile ==
  /\ at = "freed"
  /\ at' = "idle"
  /\ UNCHANGED <<phase, loads, lua, lib, sys, libs, systems, wired, direct, buffer>>

LoadOpens ==
  /\ at = "freed"
  /\ at' = "opened"
  /\ lib' = loads /\ libs' = libs \cup {loads}
  /\ UNCHANGED <<phase, loads, lua, sys, systems, wired, direct, buffer>>

\* The library exports no factory, or the factory returns NULL: it stays loaded.
LoadFindsNoSystem ==
  /\ at = "opened"
  /\ at' = "idle"
  /\ UNCHANGED <<phase, loads, lua, lib, sys, libs, systems, wired, direct, buffer>>

LoadCreates ==
  /\ at = "opened"
  /\ at' = "created"
  /\ sys' = loads /\ systems' = systems \cup {loads}
  /\ UNCHANGED <<phase, loads, lua, lib, libs, wired, direct, buffer>>

\* Mutant: a system that failed to initialize is wired like another.
LoadWiresFailure ==
  /\ at = "created"
  /\ at' = "idle"
  /\ sys' = No /\ systems' = systems \ {sys}
  /\ wired' = wired \cup {sys}
  /\ UNCHANGED <<phase, loads, lua, lib, libs, direct, buffer>>

\* Mutant: the object keeps the pointer to the system it released.
LoadKeepsFailure ==
  /\ at = "created"
  /\ at' = "idle"
  /\ systems' = systems \ {sys}
  /\ UNCHANGED <<phase, loads, lua, lib, sys, libs, wired, direct, buffer>>

\* InitializeSimulation fails and the system is released.
LoadFailsToInitialize ==
  /\ at = "created"
  /\ at' = "idle"
  /\ sys' = No /\ systems' = systems \ {sys}
  /\ UNCHANGED <<phase, loads, lua, lib, libs, wired, direct, buffer>>

\* InitializeSimulation succeeds: RegisterInterruptService and EnableInterrupt.
LoadWires ==
  /\ at = "created"
  /\ at' = "idle"
  /\ wired' = wired \cup {sys}
  /\ UNCHANGED <<phase, loads, lua, lib, sys, libs, systems, direct, buffer>>

LoadSystemModule ==
  \/ LoadReleases \/ LoadFrees \/ LoadFindsNoFile \/ LoadOpens
  \/ LoadFindsNoSystem \/ LoadCreates \/ LoadFailsToInitialize \/ LoadWires

-----------------------------------------------------------------------------
(* Shutdown and the destructor. *)

\* Mutant: the pointer is dropped and the system is not released.
ShutdownLeaks ==
  /\ phase \in {"ready", "shut"}
  /\ phase' = "shut"
  /\ sys' = No
  /\ UNCHANGED <<at, loads, lua, lib, libs, systems, wired, direct, buffer>>

\* Called when QEMU exits, and possibly again.
Shutdown ==
  /\ phase \in {"ready", "shut"}
  /\ phase' = "shut"
  /\ sys' = No /\ systems' = systems \ {sys} /\ wired' = wired \ {sys}
  /\ UNCHANGED <<at, loads, lua, lib, libs, direct, buffer>>

\* The destructor starts: lua_close.
Close ==
  /\ phase \in {"ready", "shut"}
  /\ phase' = "closing"
  /\ lua' = FALSE
  /\ UNCHANGED <<at, loads, lib, sys, libs, systems, wired, direct, buffer>>

CloseReleases ==
  /\ phase = "closing"
  /\ phase' = "released"
  /\ sys' = No /\ systems' = systems \ {sys} /\ wired' = wired \ {sys}
  /\ UNCHANGED <<at, loads, lua, lib, libs, direct, buffer>>

\* Mutant: the library stays mapped.
CloseForgets ==
  /\ phase = "released"
  /\ phase' = "deleted"
  /\ lib' = No
  /\ UNCHANGED <<at, loads, lua, sys, libs, systems, wired, direct, buffer>>

\* FreeLibrary; the BARs and the display go with the object, and their pointers.
CloseFrees ==
  /\ phase = "released"
  /\ phase' = "deleted"
  /\ lib' = No /\ libs' = libs \ {lib}
  /\ direct' = {} /\ buffer' = No
  /\ UNCHANGED <<at, loads, lua, sys, systems, wired>>

Next ==
  \/ SkipScript \/ StartScript \/ NoEngine
  \/ SetupReturns \/ SimulationReturns \/ ScriptFails
  \/ GetDescription \/ CreateDirectBAR \/ ResetBARs \/ EnableDisplay \/ DisableDisplay
  \/ LoadSystemModule
  \/ Shutdown \/ Close \/ CloseReleases \/ CloseFrees

\* The destructor makes its calls one after the other once started.
Fairness == WF_vars(CloseReleases \/ CloseFrees)

Spec == Init /\ [][Next]_vars /\ Fairness

-----------------------------------------------------------------------------
(* Properties. *)

TypeOK ==
  /\ phase \in Phases
  /\ at \in {"idle", "releasing", "freed", "opened", "created"}
  /\ loads \in 0 .. MaxLoads
  /\ lua \in BOOLEAN
  /\ lib \in Loads \cup {No} /\ sys \in Loads \cup {No}
  /\ libs \subseteq Loads /\ systems \subseteq Loads
  /\ wired \subseteq Loads /\ direct \subseteq Loads
  /\ buffer \in Loads \cup {No}

\* A system runs code of its library, on threads of its own: at every point, within
\* LoadSystemModule and the destructor too, the library of a live system is mapped.
LibraryCovers == systems \subseteq libs

\* The two handles are exact at every point, the failures of LoadSystemModule included:
\* they name what is alive, so that nothing is leaked and nothing is released twice.
HandlesExact ==
  /\ systems = {sys} \ {No}
  /\ libs = {lib} \ {No}

\* An interrupt service is registered with live systems only, and with the live one as
\* soon as it left LoadSystemModule: no script can leave a device with a mute system.
InterruptsWired ==
  /\ wired \subseteq systems
  /\ at = "idle" => wired = systems

\* The object implements the abstract host: the number of a call of LoadSystemModule is
\* used up when its system is created or the call fails.
Issued == IF at \in {"releasing", "freed", "opened"} THEN loads - 1 ELSE loads
Closed == phase \in {"closing", "released", "deleted", "exited", "crashed"}

Hosted == INSTANCE HostedSystem
  WITH Systems <- Loads, hosted <- systems, issued <- Issued, closed <- Closed

\* At most one system lives at a time, each is released before the next one is created,
\* none comes back, and none is taken once the object closes.
OneSystem == Hosted!Spec

\* A destructor that starts ends, with no system alive and no library mapped.
DestructorCompletes ==
  phase = "closing" ~> phase = "deleted" /\ ~lua /\ systems = {} /\ libs = {}

\* Every script a user may run leaves a process that runs: refuted by a setup script
\* that loads no system, or whose LoadSystemModule failed.
NoNullSystem == phase # "crashed"

\* A pointer that a BAR or the display took since the last call of LoadSystemModule leads
\* into the memory of a live system until the shutdown.  Older pointers dangle: a script
\* that loads again has to reset the BARs and enable the display anew.
PointersFresh ==
  phase \notin {"shut", "closing", "released"} =>
    \A p \in direct \cup {buffer} : p # No /\ p = loads => p \in systems
=============================================================================
