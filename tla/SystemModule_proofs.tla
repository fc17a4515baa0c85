------------------------- MODULE SystemModule_proofs -------------------------
(***************************************************************************)
(* Proofs about SystemModule, for any number of LoadSystemModule calls.    *)
(* HandlesExact and LibraryCovers are not inductive as they stand: what    *)
(* the handles are between two calls of LoadSystemModule and of the        *)
(* destructor, which Points states, has to be carried along.               *)
(***************************************************************************)
EXTENDS SystemModule, TLAPS

\* The handles at each point of LoadSystemModule and of the object's life.
Points ==
  /\ at # "idle" => phase \in {"setup", "simulation"} /\ loads \in Loads /\ wired = {}
  /\ at \in {"releasing", "freed", "opened"} => sys = No
  /\ at = "freed" => lib = No
  /\ at \in {"opened", "created"} => lib = loads
  /\ at = "created" => sys = loads
  /\ sys # No => lib = sys
  /\ phase = "new" => sys = No /\ lib = No
  /\ phase \in {"released", "deleted"} => sys = No
  /\ phase = "deleted" => lib = No

\* How old the pointers of the BARs and the display are.
Ages ==
  /\ sys <= loads /\ buffer <= loads
  /\ \A p \in direct : p <= loads
  /\ at # "idle" => buffer < loads /\ \A p \in direct : p < loads

Inv == TypeOK /\ HandlesExact /\ InterruptsWired /\ Points

ScriptStep ==
  \/ SkipScript \/ StartScript \/ NoEngine
  \/ SetupReturns \/ SimulationReturns \/ ScriptFails \/ GetDescription
PointerStep == CreateDirectBAR \/ ResetBARs \/ EnableDisplay \/ DisableDisplay
CloseStep == Shutdown \/ Close \/ CloseReleases \/ CloseFrees

LEMMA InitInv == Init => Inv
<1> SUFFICES ASSUME Init PROVE Inv
  OBVIOUS
<1> USE DEF Init, No
<1>1. 0 \in 0 .. MaxLoads
  BY MaxLoadsAssumption
<1>2. TypeOK
  BY <1>1 DEF TypeOK, Phases
<1>3. HandlesExact /\ InterruptsWired
  BY DEF HandlesExact, InterruptsWired
<1>4. Points
  BY DEF Points
<1> QED BY <1>2, <1>3, <1>4 DEF Inv

LEMMA ScriptInv == Inv /\ ScriptStep => Inv'
<1> SUFFICES ASSUME Inv, ScriptStep PROVE Inv'
  OBVIOUS
<1> USE DEF Inv, TypeOK, HandlesExact, InterruptsWired, Points, Phases, No, Scripting
<1>1. CASE SkipScript
  BY <1>1 DEF SkipScript
<1>2. CASE StartScript
  BY <1>2 DEF StartScript
<1>3. CASE NoEngine
  BY <1>3 DEF NoEngine
<1>4. CASE SetupReturns
  BY <1>4 DEF SetupReturns
<1>5. CASE SimulationReturns
  BY <1>5 DEF SimulationReturns
<1>6. CASE ScriptFails
  BY <1>6 DEF ScriptFails
<1>7. CASE GetDescription
  BY <1>7 DEF GetDescription
<1> QED BY <1>1, <1>2, <1>3, <1>4, <1>5, <1>6, <1>7 DEF ScriptStep

LEMMA PointerInv == Inv /\ PointerStep => Inv'
<1> SUFFICES ASSUME Inv, PointerStep PROVE Inv'
  OBVIOUS
<1> USE DEF Inv, TypeOK, HandlesExact, InterruptsWired, Points, Phases, No, Scripting
<1>1. CASE CreateDirectBAR
  BY <1>1 DEF CreateDirectBAR
<1>2. CASE ResetBARs
  BY <1>2 DEF ResetBARs
<1>3. CASE EnableDisplay
  BY <1>3 DEF EnableDisplay
<1>4. CASE DisableDisplay
  BY <1>4 DEF DisableDisplay
<1> QED BY <1>1, <1>2, <1>3, <1>4 DEF PointerStep

LEMMA LoadInv == Inv /\ LoadSystemModule => Inv'
<1> SUFFICES ASSUME Inv, LoadSystemModule PROVE Inv'
  OBVIOUS
<1> USE MaxLoadsAssumption
    DEF Inv, TypeOK, HandlesExact, InterruptsWired, Points, Phases, Loads, No, Scripting
<1>1. CASE LoadReleases
  BY <1>1 DEF LoadReleases
<1>2. CASE LoadFrees
  BY <1>2 DEF LoadFrees
<1>3. CASE LoadFindsNoFile
  BY <1>3 DEF LoadFindsNoFile
<1>4. CASE LoadOpens
  BY <1>4 DEF LoadOpens
<1>5. CASE LoadFindsNoSystem
  BY <1>5 DEF LoadFindsNoSystem
<1>6. CASE LoadCreates
  BY <1>6 DEF LoadCreates
<1>7. CASE LoadFailsToInitialize
  <2>1. sys = loads /\ lib = loads /\ sys # No /\ at' = "idle" /\ phase' = phase
    BY <1>7 DEF LoadFailsToInitialize
  <2>2. systems = {sys} /\ libs = {sys} /\ wired \subseteq {sys}
    BY <2>1
  <2>3. TypeOK'
    BY <1>7, <2>2 DEF LoadFailsToInitialize
  <2>4. HandlesExact' /\ InterruptsWired'
    <3>1. systems' = {} /\ sys' = No /\ libs' = libs /\ lib' = lib
      BY <1>7, <2>2 DEF LoadFailsToInitialize
    <3>2. wired' = {}
      BY <1>7, <2>1 DEF LoadFailsToInitialize
    <3> QED BY <3>1, <3>2
  <2>5. Points'
    BY <1>7, <2>1 DEF LoadFailsToInitialize
  <2> QED BY <2>3, <2>4, <2>5
<1>8. CASE LoadWires
  <2>1. sys = loads /\ lib = loads /\ sys # No /\ at' = "idle" /\ phase' = phase
    BY <1>8 DEF LoadWires
  <2>2. systems = {sys} /\ libs = {sys} /\ wired \subseteq {sys}
    BY <2>1
  <2>3. TypeOK'
    BY <1>8, <2>2 DEF LoadWires
  <2>4. HandlesExact' /\ InterruptsWired'
    BY <1>8, <2>1, <2>2 DEF LoadWires
  <2>5. Points'
    BY <1>8, <2>1 DEF LoadWires
  <2> QED BY <2>3, <2>4, <2>5
<1> QED BY <1>1, <1>2, <1>3, <1>4, <1>5, <1>6, <1>7, <1>8 DEF LoadSystemModule

LEMMA CloseInv == Inv /\ CloseStep => Inv'
<1> SUFFICES ASSUME Inv, CloseStep PROVE Inv'
  OBVIOUS
<1> USE DEF Inv, TypeOK, HandlesExact, InterruptsWired, Points, Phases, No
<1>1. CASE Shutdown
  BY <1>1 DEF Shutdown
<1>2. CASE Close
  BY <1>2 DEF Close
<1>3. CASE CloseReleases
  BY <1>3 DEF CloseReleases
<1>4. CASE CloseFrees
  BY <1>4 DEF CloseFrees
<1> QED BY <1>1, <1>2, <1>3, <1>4 DEF CloseStep

LEMMA StutterInv == Inv /\ UNCHANGED vars => Inv'
BY DEF vars, Inv, TypeOK, HandlesExact, InterruptsWired, Points

-----------------------------------------------------------------------------
(* Theorems. *)

\* The invariant holds of every script, every failure of LoadSystemModule and every
\* order of shutdown and destruction.
THEOREM InvHolds == Spec => []Inv
<1>1. Init => Inv
  BY InitInv
<1>2. Inv /\ [Next]_vars => Inv'
  BY ScriptInv, PointerInv, LoadInv, CloseInv, StutterInv
     DEF Next, ScriptStep, PointerStep, CloseStep
<1> QED BY <1>1, <1>2, PTL DEF Spec

\* The type invariant.
THEOREM TypeCorrect == Spec => []TypeOK
<1>1. Inv => TypeOK
  BY DEF Inv
<1> QED BY <1>1, InvHolds, PTL

\* The handles of the object name exactly what is alive, so that no failure of
\* LoadSystemModule and no order of Shutdown and destructor leaks or releases twice.
THEOREM HandlesCorrect == Spec => []HandlesExact
<1>1. Inv => HandlesExact
  BY DEF Inv
<1> QED BY <1>1, InvHolds, PTL

\* The library of a live system is mapped at every point.
THEOREM LibraryCorrect == Spec => []LibraryCovers
<1>1. Inv => LibraryCovers
  BY DEF Inv, HandlesExact, Points, LibraryCovers
<1> QED BY <1>1, InvHolds, PTL

\* No dead system has its interrupts enabled, and a live one has them once it is loaded.
THEOREM WiringCorrect == Spec => []InterruptsWired
<1>1. Inv => InterruptsWired
  BY DEF Inv
<1> QED BY <1>1, InvHolds, PTL

-----------------------------------------------------------------------------
(* The age of the pointers: what was taken since the last load is alive. *)

LEMMA AgesStep == Inv /\ Ages /\ [Next]_vars => Ages'
<1> SUFFICES ASSUME Inv, Ages, [Next]_vars PROVE Ages'
  OBVIOUS
<1>0. /\ loads \in Int /\ sys \in Int /\ buffer \in Int /\ direct \subseteq Int
      /\ at = "created" => sys = loads
      /\ at # "idle" => loads >= 1
      /\ Scripting => at = "idle"
  BY MaxLoadsAssumption DEF Inv, TypeOK, Points, Loads, No, Scripting
<1> USE <1>0 DEF Ages, No
<1>1. CASE ScriptStep
  BY <1>1 DEF ScriptStep, SkipScript, StartScript, NoEngine, SetupReturns, SimulationReturns,
              ScriptFails, GetDescription
<1>2. CASE PointerStep
  <2>1. at = "idle" /\ at' = at /\ loads' = loads /\ sys' = sys
    BY <1>2 DEF PointerStep, CreateDirectBAR, ResetBARs, EnableDisplay, DisableDisplay
  <2>2. buffer' \in {buffer, sys, 0} /\ direct' \subseteq direct \cup {sys} /\ loads >= 0
    BY <1>2, MaxLoadsAssumption
       DEF PointerStep, CreateDirectBAR, ResetBARs, EnableDisplay, DisableDisplay, Inv, TypeOK
  <2> QED BY <2>1, <2>2
<1>3. CASE LoadReleases
  <2>1. /\ at = "idle" /\ loads' = loads + 1 /\ sys' = 0 /\ buffer' = buffer
        /\ direct' = direct /\ loads >= 0
    BY <1>3, MaxLoadsAssumption DEF LoadReleases, Inv, TypeOK
  <2> QED BY <2>1
<1>4. CASE LoadSystemModule /\ ~LoadReleases
  <2>1. /\ at # "idle" /\ loads' = loads /\ buffer' = buffer /\ direct' = direct
        /\ sys' \in {sys, 0, loads}
    BY <1>4 DEF LoadSystemModule, LoadFrees, LoadFindsNoFile, LoadOpens, LoadFindsNoSystem,
                LoadCreates, LoadFailsToInitialize, LoadWires
  <2> QED BY <2>1
<1>5. CASE CloseStep
  <2>1. /\ at' = at /\ loads' = loads /\ sys' \in {sys, 0} /\ buffer' \in {buffer, 0}
        /\ direct' \subseteq direct /\ loads >= 0
    BY <1>5, MaxLoadsAssumption
       DEF CloseStep, Shutdown, Close, CloseReleases, CloseFrees, Inv, TypeOK
  <2> QED BY <2>1
<1>6. CASE UNCHANGED vars
  BY <1>6 DEF vars
<1> QED
  BY <1>1, <1>2, <1>3, <1>4, <1>5, <1>6 DEF Next, ScriptStep, PointerStep, CloseStep

LEMMA FreshStep == Inv /\ Ages /\ PointersFresh /\ [Next]_vars => PointersFresh'
<1> SUFFICES ASSUME Inv, Ages, PointersFresh, [Next]_vars PROVE PointersFresh'
  OBVIOUS
<1> USE MaxLoadsAssumption DEF Inv, TypeOK, HandlesExact, Points, Ages, PointersFresh, Loads, No
<1>1. CASE ScriptStep
  BY <1>1 DEF ScriptStep, SkipScript, StartScript, NoEngine, SetupReturns, SimulationReturns,
              ScriptFails, GetDescription, Scripting
<1>2. CASE PointerStep
  BY <1>2 DEF PointerStep, CreateDirectBAR, ResetBARs, EnableDisplay, DisableDisplay, Scripting
<1>3. CASE LoadReleases
  BY <1>3 DEF LoadReleases, Scripting
<1>4. CASE LoadFrees \/ LoadFindsNoFile \/ LoadOpens \/ LoadFindsNoSystem \/ LoadCreates
  BY <1>4 DEF LoadFrees, LoadFindsNoFile, LoadOpens, LoadFindsNoSystem, LoadCreates
<1>5. CASE LoadFailsToInitialize \/ LoadWires
  BY <1>5 DEF LoadFailsToInitialize, LoadWires
<1>6. CASE CloseStep
  BY <1>6 DEF CloseStep, Shutdown, Close, CloseReleases, CloseFrees
<1>7. CASE UNCHANGED vars
  BY <1>7 DEF vars
<1> QED
  BY <1>1, <1>2, <1>3, <1>4, <1>5, <1>6, <1>7
     DEF Next, ScriptStep, PointerStep, CloseStep, LoadSystemModule

\* A BAR or a display set up since the last load points into the memory of a live system
\* until the shutdown, whichever loads failed or succeeded before it.
THEOREM PointersCorrect == Spec => []PointersFresh
<1>1. Init => Ages /\ PointersFresh
  BY MaxLoadsAssumption DEF Init, Ages, PointersFresh, No
<1> QED BY <1>1, InvHolds, AgesStep, FreshStep, PTL DEF Spec

-----------------------------------------------------------------------------
(* The object implements the abstract host.  What it does, as the host sees it. *)

LEMMA ScriptMaps == Inv /\ (ScriptStep \/ PointerStep) => [Hosted!Next]_(Hosted!vars)
<1> SUFFICES ASSUME Inv, ScriptStep \/ PointerStep PROVE [Hosted!Next]_(Hosted!vars)
  OBVIOUS
<1> USE DEF Hosted!Next, Hosted!vars, Issued, Closed
<1>1. /\ at' = at /\ loads' = loads /\ systems' = systems
      /\ phase \in {"new", "setup", "simulation"}
  BY DEF ScriptStep, PointerStep, SkipScript, StartScript, NoEngine, SetupReturns,
         SimulationReturns, ScriptFails, GetDescription, CreateDirectBAR, ResetBARs,
         EnableDisplay, DisableDisplay, Scripting
<1>2. Issued' = Issued
  BY <1>1
<1>3. CASE Closed'
  BY <1>1, <1>2, <1>3 DEF Hosted!Close
<1>4. CASE ~Closed'
  BY <1>1, <1>2, <1>4
<1> QED BY <1>3, <1>4

LEMMA LoadMaps == Inv /\ LoadSystemModule => [Hosted!Next]_(Hosted!vars)
<1> SUFFICES ASSUME Inv, LoadSystemModule PROVE [Hosted!Next]_(Hosted!vars)
  OBVIOUS
<1> USE DEF Hosted!Next, Hosted!vars, Issued, Closed
<1>1. phase' = phase /\ phase \in {"setup", "simulation"} /\ loads \in Int
  BY MaxLoadsAssumption
     DEF LoadSystemModule, LoadReleases, LoadFrees, LoadFindsNoFile, LoadOpens,
         LoadFindsNoSystem, LoadCreates, LoadFailsToInitialize, LoadWires, Scripting,
         Inv, TypeOK, Points
<1>2. ~Closed /\ ~Closed'
  BY <1>1
<1>3. CASE LoadReleases
  <2>1. systems' = {}
    BY <1>3 DEF LoadReleases, Inv, HandlesExact
  <2>2. Issued' = Issued
    BY <1>1, <1>3 DEF LoadReleases, Scripting
  <2> QED BY <1>2, <2>1, <2>2 DEF Hosted!LetGo
<1>4. CASE LoadFrees \/ LoadOpens \/ LoadWires
  BY <1>1, <1>4 DEF LoadFrees, LoadOpens, LoadWires
<1>5. CASE LoadFindsNoFile \/ LoadFindsNoSystem
  <2>1. systems = {} /\ systems' = systems /\ loads \in Loads
    BY <1>5 DEF LoadFindsNoFile, LoadFindsNoSystem, Inv, HandlesExact, Points
  <2>2. Issued = loads - 1 /\ Issued' = loads
    BY <1>5 DEF LoadFindsNoFile, LoadFindsNoSystem
  <2> QED BY <1>1, <1>2, <2>1, <2>2 DEF Hosted!Fail
<1>6. CASE LoadCreates
  <2>1. systems = {} /\ systems' = {loads} /\ loads \in Loads
    BY <1>6 DEF LoadCreates, Inv, HandlesExact, Points
  <2>2. Issued = loads - 1 /\ Issued' = loads
    BY <1>6 DEF LoadCreates
  <2> QED BY <1>1, <1>2, <2>1, <2>2 DEF Hosted!Take
<1>7. CASE LoadFailsToInitialize
  <2>1. systems' = {}
    BY <1>7 DEF LoadFailsToInitialize, Inv, HandlesExact
  <2>2. Issued' = Issued
    BY <1>7 DEF LoadFailsToInitialize
  <2> QED BY <1>2, <2>1, <2>2 DEF Hosted!LetGo
<1> QED BY <1>3, <1>4, <1>5, <1>6, <1>7 DEF LoadSystemModule

LEMMA CloseMaps == Inv /\ CloseStep => [Hosted!Next]_(Hosted!vars)
<1> SUFFICES ASSUME Inv, CloseStep PROVE [Hosted!Next]_(Hosted!vars)
  OBVIOUS
<1> USE DEF Hosted!Next, Hosted!vars, Issued, Closed
<1>1. Issued' = Issued
  BY DEF CloseStep, Shutdown, Close, CloseReleases, CloseFrees
<1>2. CASE Shutdown \/ CloseReleases
  <2>1. systems' = {}
    BY <1>2 DEF Shutdown, CloseReleases, Inv, HandlesExact
  <2>2. Closed' = Closed
    BY <1>2 DEF Shutdown, CloseReleases
  <2> QED BY <1>1, <2>1, <2>2 DEF Hosted!LetGo
<1>3. CASE Close
  BY <1>1, <1>3 DEF Close, Hosted!Close
<1>4. CASE CloseFrees
  BY <1>1, <1>4 DEF CloseFrees
<1> QED BY <1>2, <1>3, <1>4 DEF CloseStep

\* Every behaviour of the object, whatever its scripts do, is one of the abstract host: at
\* most one system at a time, released before the next one, and none after closing.
THEOREM ImplementsHost == Spec => OneSystem
<1>1. Init => Hosted!Init
  BY DEF Init, Hosted!Init, Issued, Closed
<1>2. Inv /\ [Next]_vars => [Hosted!Next]_(Hosted!vars)
  <2>1. Inv /\ UNCHANGED vars => [Hosted!Next]_(Hosted!vars)
    BY DEF vars, Hosted!vars, Issued, Closed
  <2> QED BY <2>1, ScriptMaps, LoadMaps, CloseMaps
         DEF Next, ScriptStep, PointerStep, CloseStep
<1> QED BY <1>1, <1>2, InvHolds, PTL DEF Spec, OneSystem, Hosted!Spec

-----------------------------------------------------------------------------
(* What the destructor does, short of that it ends: that is DestructorCompletes. *)

Destructing == phase \in {"closing", "released"}

\* The engine is closed first, and what a deleted object pointed to is dropped.
Ended ==
  /\ Destructing \/ phase = "deleted" => ~lua
  /\ phase = "deleted" => direct = {} /\ buffer = No

EndInv == Inv /\ Ended

\* An object that is gone left nothing behind: no engine, no system, no library, no
\* interrupt service and no pointer into a system's memory.
Destructed ==
  phase = "deleted" =>
    /\ ~lua
    /\ systems = {} /\ libs = {} /\ wired = {}
    /\ direct = {} /\ buffer = No

\* The next call of the destructor.
DestructorCall ==
  \/ phase = "closing" /\ CloseReleases /\ phase' = "released"
  \/ phase = "released" /\ CloseFrees /\ phase' = "deleted"

\* Between the start of the destructor and its end its own calls happen and nothing else,
\* each of them once and in their order.
DestructorOrdered == [][Destructing => DestructorCall]_vars

LEMMA EndStep == EndInv /\ [Next]_vars => EndInv'
<1> SUFFICES ASSUME EndInv, [Next]_vars PROVE EndInv'
  OBVIOUS
<1>1. Inv'
  BY ScriptInv, PointerInv, LoadInv, CloseInv, StutterInv
     DEF EndInv, Next, ScriptStep, PointerStep, CloseStep
<1>2. Ended'
  <2> USE DEF EndInv, Inv, Ended, Destructing
  <2>1. CASE ScriptStep
    BY <2>1 DEF ScriptStep, SkipScript, StartScript, NoEngine, SetupReturns, SimulationReturns,
                ScriptFails, GetDescription, Scripting
  <2>2. CASE PointerStep
    BY <2>2 DEF PointerStep, CreateDirectBAR, ResetBARs, EnableDisplay, DisableDisplay, Scripting
  <2>3. CASE LoadSystemModule
    \* A load lies within a script, so that the object is not being destroyed.
    BY <2>3 DEF LoadSystemModule, LoadReleases, LoadFrees, LoadFindsNoFile, LoadOpens,
                LoadFindsNoSystem, LoadCreates, LoadFailsToInitialize, LoadWires, Scripting, Points
  <2>4. CASE CloseStep
    BY <2>4 DEF CloseStep, Shutdown, Close, CloseReleases, CloseFrees
  <2>5. CASE UNCHANGED vars
    BY <2>5 DEF vars
  <2> QED BY <2>1, <2>2, <2>3, <2>4, <2>5 DEF Next, ScriptStep, PointerStep, CloseStep
<1> QED BY <1>1, <1>2 DEF EndInv

\* The destructor, from whatever the scripts and Shutdown left, leaves nothing behind.
THEOREM DestructorCorrect == Spec => []Destructed
<1>1. Init => EndInv
  BY InitInv DEF EndInv, Ended, Destructing, Init
<1>2. EndInv => Destructed
  BY DEF EndInv, Inv, Ended, Destructed, HandlesExact, InterruptsWired, Points
<1> QED BY <1>1, <1>2, EndStep, PTL DEF Spec

\* Nothing comes between the calls of the destructor: no script, no load, no Shutdown.
\* With the fairness of its calls this is why it ends.
THEOREM NothingDuringDestructor == Spec => DestructorOrdered
<1>1. Inv /\ [Next]_vars => [Destructing => DestructorCall]_vars
  <2> SUFFICES ASSUME Inv, Next, Destructing PROVE DestructorCall
    OBVIOUS
  <2> USE DEF Destructing
  <2>1. ~ScriptStep
    BY DEF ScriptStep, SkipScript, StartScript, NoEngine, SetupReturns, SimulationReturns,
           ScriptFails, GetDescription, Scripting
  <2>2. ~PointerStep
    BY DEF PointerStep, CreateDirectBAR, ResetBARs, EnableDisplay, DisableDisplay, Scripting
  <2>3. ~LoadSystemModule
    BY DEF LoadSystemModule, LoadReleases, LoadFrees, LoadFindsNoFile, LoadOpens,
           LoadFindsNoSystem, LoadCreates, LoadFailsToInitialize, LoadWires, Scripting, Inv, Points
  <2>4. CASE Shutdown \/ Close
    BY <2>4 DEF Shutdown, Close
  <2>5. CASE CloseReleases \/ CloseFrees
    BY <2>5 DEF DestructorCall, CloseReleases, CloseFrees
  <2> QED BY <2>1, <2>2, <2>3, <2>4, <2>5 DEF Next, ScriptStep, PointerStep
<1> QED BY <1>1, InvHolds, PTL DEF DestructorOrdered, Spec
=============================================================================
