--------------------------- MODULE PciDevice_proofs --------------------------
(***************************************************************************)
(* Proofs about PciDevice, for any set of devices and of registers.  What  *)
(* is shared between the devices is correct for each of them because one   *)
(* device at a time is realized or left (Turns), because a script that     *)
(* covers what was placed before leaves no entry of another device         *)
(* (Covered, Placed), because the notify function is switched to MSI-X     *)
(* once for all (Routes), and because the settings stay those of every     *)
(* capability that no later script overruled (Capped): the invariant says  *)
(* what the shared tables hold at each stage of each device.               *)
(***************************************************************************)
EXTENDS PciDevice, TLAPS

Early == {"new", "setup", "loaded", "placed", "created", "notified", "mapped", "switching"}
Busy == (Early \ {"new"}) \cup {"capable", "leaving", "bare"}
Hosting ==
  { "created", "notified", "mapped", "switching", "capable", "realized", "leaving", "bare" }

\* The main thread is inside the device it works on and no other.
Turns == \A d \in Devices : pc[d] \in Busy <=> main = d

\* Between a script that covers the table and the regions the table is the device's, and
\* empty if there is no system.
Placed == \A d \in Devices \ careless : pc[d] \in {"placed", "created", "notified"} =>
            \A i \in Bars : pciBar[i] = NoDevice \/ (pciBar[i] = d /\ system[d] # "none")

\* Only registers that some script used have an entry.
Covered == \A i \in Bars : pciBar[i] # NoDevice => i \in used

\* Regions are there from setup to unplug, and lead to their own device and its system.
Mapped == \A d \in Devices :
  /\ regions[d] # {} => pc[d] \in {"mapped", "switching", "capable", "realized"}
  /\ d \notin careless => \A r \in regions[d] : r.owner = d /\ system[d] # "none"

\* A system is loaded by the script, and until QEMU exits stays from there to the
\* destruction of its device.
Alive == \A d \in Devices :
  /\ pc[d] \in {"new", "setup"} => system[d] = "none"
  /\ pc[d] \in {"loaded", "placed"} => system[d] # "none"
  /\ qemu = "running" /\ pc[d] # "gone" => system[d] # "released"
  /\ pc[d] = "gone" => system[d] # "live"

\* A capability comes with the setup, an MSI-X one with the notify function for it, which
\* stays; what strays after the setup is an interrupt of a device with MSI.
Routes == \A d \in Devices :
  /\ pc[d] \in Early \cup {"failed"} => "running" \notin stray[d]
  /\ pc[d] \in (Early \ {"switching"}) \cup {"failed"} => cap[d] = "none"
  /\ pc[d] = "switching" => cap[d] = "msix"
  /\ cap[d] = "msix" /\ pc[d] # "switching" => notify = "msix"
  /\ cap[d] = "msi" /\ "running" \in stray[d] => notify = "msix"
  /\ cap[d] = "msix" => "running" \notin stray[d]

\* As long as no later script made other settings, they are those of the capability.
Capped == \A d \in Devices \ overruled :
  /\ pc[d] \notin {"bare", "gone"} => cap[d] \in {"none", kind}
  /\ pc[d] \in {"bare", "gone"} => cap[d] = "none"

Inv ==
  TypeOK /\ Turns /\ Placed /\ Covered /\ Mapped /\ Alive /\ Routes /\ Capped

LEMMA InitInv == Init => Inv
<1> SUFFICES ASSUME Init PROVE Inv
  OBVIOUS
<1> USE DEF Init
<1>1. TypeOK
  BY KindsAssumption DEF TypeOK, Stages
<1>2. Turns
  BY NoDeviceAssumption DEF Turns, Busy, Early
<1>3. Placed /\ Covered /\ Mapped /\ Alive
  BY DEF Placed, Covered, Mapped, Alive
<1>4. Routes /\ Capped
  BY DEF Routes, Capped, Early
<1> QED BY <1>1, <1>2, <1>3, <1>4 DEF Inv

LEMMA ScriptInv ==
  ASSUME NEW d \in Devices, Inv,
         \/ Realize(d) \/ SkipScript(d) \/ ScriptCrashes(d) \/ ScriptLoads(d)
         \/ ScriptReturns(d) \/ ScriptFails(d)
  PROVE  Inv'
<1> USE NoDeviceAssumption, KindsAssumption
    DEF Inv, TypeOK, Stages, Turns, Busy, Placed, Covered, Mapped, Alive, Routes, Capped, Early,
        Step, others, scripts
<1>1. CASE Realize(d)
  BY <1>1 DEF Realize
<1>2. CASE SkipScript(d)
  <2>1. d \notin careless' => \A i \in Bars : pciBar[i] = NoDevice
    BY <1>2 DEF SkipScript
  <2>2. Placed'
    BY <1>2, <2>1 DEF SkipScript
  <2> QED BY <1>2, <2>2 DEF SkipScript
<1>3. CASE ScriptCrashes(d)
  BY <1>3 DEF ScriptCrashes
<1>4. CASE ScriptLoads(d)
  BY <1>4 DEF ScriptLoads
<1>5. CASE ScriptReturns(d)
  BY <1>5 DEF ScriptReturns
<1>6. CASE ScriptFails(d)
  BY <1>6 DEF ScriptFails
<1> QED BY <1>1, <1>2, <1>3, <1>4, <1>5, <1>6

LEMMA PlacingInv ==
  ASSUME NEW d \in Devices, NEW placed \in SUBSET Bars, NEW reset \in BOOLEAN, Inv,
         ScriptCreatesBARs(d, placed, reset)
  PROVE  Inv'
<1> USE NoDeviceAssumption, KindsAssumption
    DEF Inv, TypeOK, Stages, Turns, Busy, Placed, Covered, Mapped, Alive, Early, Step,
        Uncovered, ScriptCreatesBARs
<1>1. TypeOK' /\ Turns' /\ Covered' /\ Alive'
  OBVIOUS
<1>2. Mapped'
  OBVIOUS
<1>3. Placed'
  <2>1. d \notin careless' => \A i \in Bars : pciBar'[i] \in {d, NoDevice}
    OBVIOUS
  <2>2. system'[d] # "none"
    OBVIOUS
  <2>3. \A e \in Devices \ {d} : pc'[e] \notin {"placed", "created", "notified"}
    \* Every other device is outside of its script: the main thread is in this one.
    OBVIOUS
  <2> QED BY <2>1, <2>2, <2>3
<1>4. Routes' /\ Capped'
  BY DEF Routes, Capped
<1> QED BY <1>1, <1>2, <1>3, <1>4

LEMMA SettingInv ==
  ASSUME NEW d \in Devices, NEW k \in Kinds, Inv, ScriptSetsInterrupts(d, k)
  PROVE  Inv'
<1> USE NoDeviceAssumption, KindsAssumption
    DEF Inv, TypeOK, Stages, Turns, Busy, Placed, Covered, Mapped, Alive, Early, Step,
        ScriptSetsInterrupts
<1>1. TypeOK' /\ Turns' /\ Placed' /\ Covered' /\ Mapped' /\ Alive'
  OBVIOUS
<1>2. Routes'
  BY DEF Routes
<1>3. Capped'
  \* The devices whose capability is another one are overruled from here on.
  BY DEF Capped
<1> QED BY <1>1, <1>2, <1>3

LEMMA SetupInv ==
  ASSUME NEW d \in Devices, Inv,
         \/ AddExitNotifier(d) \/ SetupBARs(d)
         \/ SetupMsi(d) \/ SetupWithoutMsi(d) \/ SetupMsix(d) \/ SwitchNotify(d) \/ SetupFails(d)
         \/ \E hasDisplay \in BOOLEAN : SetupDisplay(d, hasDisplay)
  PROVE  Inv'
<1> USE NoDeviceAssumption, KindsAssumption
    DEF Inv, TypeOK, Stages, Turns, Busy, Placed, Covered, Mapped, Alive, Routes, Capped, Early,
        Step, others, scripts
<1>1. CASE AddExitNotifier(d)
  BY <1>1 DEF AddExitNotifier
<1>2. CASE SetupBARs(d)
  <2>1. \A r \in regions'[d] : /\ r \in [bar : Bars, owner : Devices]
                               /\ d \notin careless => r.owner = d /\ system[d] # "none"
    BY <1>2 DEF SetupBARs
  <2>2. TypeOK'
    BY <1>2, <2>1 DEF SetupBARs
  <2>3. Mapped'
    BY <1>2, <2>1 DEF SetupBARs
  <2> QED BY <1>2, <2>2, <2>3 DEF SetupBARs
<1>3. CASE SetupMsi(d)
  <2>1. TypeOK' /\ Turns' /\ Placed' /\ Covered' /\ Mapped' /\ Alive'
    BY <1>3 DEF SetupMsi
  <2>2. Routes'
    \* Nothing strayed yet while it could be counted as running.
    BY <1>3 DEF SetupMsi
  <2>3. Capped'
    BY <1>3 DEF SetupMsi
  <2> QED BY <2>1, <2>2, <2>3
<1>4. CASE SetupWithoutMsi(d)
  BY <1>4 DEF SetupWithoutMsi
<1>5. CASE SetupMsix(d)
  <2>1. TypeOK' /\ Turns' /\ Placed' /\ Covered' /\ Mapped' /\ Alive'
    BY <1>5 DEF SetupMsix
  <2>2. Routes'
    BY <1>5 DEF SetupMsix
  <2>3. Capped'
    BY <1>5 DEF SetupMsix
  <2> QED BY <2>1, <2>2, <2>3
<1>6. CASE SwitchNotify(d)
  BY <1>6 DEF SwitchNotify
<1>7. CASE SetupFails(d)
  BY <1>7 DEF SetupFails
<1>8. ASSUME NEW hasDisplay \in BOOLEAN, SetupDisplay(d, hasDisplay) PROVE Inv'
  BY <1>8 DEF SetupDisplay
<1> QED BY <1>1, <1>2, <1>3, <1>4, <1>5, <1>6, <1>7, <1>8

LEMMA UnplugInv == ASSUME NEW d \in Devices, Inv, UnplugStep(d) PROVE Inv'
<1> USE NoDeviceAssumption, KindsAssumption
    DEF Inv, TypeOK, Stages, Turns, Busy, Placed, Covered, Mapped, Alive, Routes, Capped, Early,
        Step, others, scripts
<1>1. CASE Unplug(d)
  BY <1>1 DEF Unplug
<1>2. CASE UninitInterrupts(d)
  <2>1. TypeOK' /\ Turns' /\ Placed' /\ Covered' /\ Mapped' /\ Alive'
    BY <1>2 DEF UninitInterrupts
  <2>2. Routes'
    BY <1>2 DEF UninitInterrupts
  <2>3. Capped'
    \* The settings are those of the capability, unless the device is overruled.
    BY <1>2 DEF UninitInterrupts
  <2> QED BY <2>1, <2>2, <2>3
<1>3. CASE Destroy(d)
  BY <1>3 DEF Destroy, Release
<1> QED BY <1>1, <1>2, <1>3 DEF UnplugStep

LEMMA OutsideInv ==
  ASSUME Inv,
         \/ \E d \in Devices : Interrupt(d) \/ RunExitNotifier(d)
         \/ RequestExit \/ Exit \/ UNCHANGED vars
  PROVE  Inv'
<1> USE DEF Inv, TypeOK, Stages, Turns, Busy, Placed, Covered, Mapped, Alive, Routes, Capped, Early,
        scripts
<1>1. ASSUME NEW d \in Devices, Interrupt(d) PROVE Inv'
  <2>1. stray' \in [Devices -> SUBSET {"early", "running", "late"}]
    BY <1>1 DEF Interrupt, When
  <2>2. "running" \in stray'[d] => "running" \in stray[d]
          \/ (pc[d] \in {"capable", "realized"} /\ cap[d] # notify)
    BY <1>1 DEF Interrupt, When
  <2>3. \A e \in Devices \ {d} : stray'[e] = stray[e]
    BY <1>1 DEF Interrupt
  <2>4. UNCHANGED <<scripts, pc, main, system, pciBar, kind, notify, regions, cap, notifiers, console,
                    qemu, touched>>
    BY <1>1 DEF Interrupt
  <2>5. Routes'
    BY <2>1, <2>2, <2>3, <2>4
  <2> QED BY <2>1, <2>4, <2>5
<1>2. ASSUME NEW d \in Devices, RunExitNotifier(d) PROVE Inv'
  BY <1>2 DEF RunExitNotifier, Release
<1>3. CASE RequestExit
  BY <1>3 DEF RequestExit
<1>4. CASE Exit
  BY <1>4 DEF Exit
<1>5. CASE UNCHANGED vars
  BY <1>5 DEF vars
<1> QED BY <1>1, <1>2, <1>3, <1>4, <1>5

LEMMA InvHolds == Spec => []Inv
<1>1. Inv /\ [Next]_vars => Inv'
  BY ScriptInv, PlacingInv, SettingInv, SetupInv, UnplugInv, OutsideInv DEF Next, RealizeStep
<1> QED BY InitInv, <1>1, PTL DEF Spec

\* The type invariant, for any devices, registers and settings.
THEOREM TypeCorrect == Spec => []TypeOK
<1>1. Inv => TypeOK
  BY DEF Inv
<1> QED BY <1>1, InvHolds, PTL

\* Whatever devices are realized and unplugged in between, the regions of a device lead
\* to its own TestDrive, whose system is alive while QEMU runs.
THEOREM OwnBarsCorrect == Spec => []OwnBars
<1>1. Inv => OwnBars
  BY DEF Inv, TypeOK, OwnBars, Mapped, Alive
<1> QED BY <1>1, InvHolds, PTL

\* In any mix of devices with MSI and MSI-X and whatever their scripts set, the interrupts a
\* realized device raises miss its capability in one case only: it has MSI and some device was
\* set up with MSI-X.
THEOREM RoutingCorrect == Spec => []RoutedWhenRealized
<1>1. Inv => RoutedWhenRealized
  BY DEF Inv, TypeOK, Routes, RoutedWhenRealized
<1> QED BY <1>1, InvHolds, PTL

\* A device that left keeps a capability in one case only: a later script made other
\* settings while it was there.
THEOREM UninitCorrect == Spec => []UninitComplete
<1>1. Inv => UninitComplete
  BY DEF Inv, Capped, UninitComplete
<1> QED BY <1>1, InvHolds, PTL

-----------------------------------------------------------------------------
(* What the exit of QEMU does, short of that it ends: that is ExitCompletes. *)

\* A device past its registration has its exit notifier until that has run.
Noted == \A d \in Devices :
  pc[d] \in Hosting \ {"created"} => d \in notifiers \/ system[d] # "live"

\* QEMU ends when every notifier has run, and calls none while it runs.  A device it stops
\* inside of is one whose script fails.
Drained ==
  /\ qemu = "exited" => notifiers = {}
  /\ qemu = "running" => touched = {}
  /\ qemu \in {"exiting", "exited"} =>
       \A d \in Devices : pc[d] \in {"new", "realized", "failed", "gone"} \cup Constructing

ExitInv == Inv /\ Noted /\ Drained

\* When QEMU is gone, the systems still alive are the one of the device whose script failed
\* and those of devices whose realize failed in msix_init.
ExitReleased ==
  qemu = "exited" => \A d \in Devices : system[d] = "live" => Leftover(d)

\* A step of an exit calls a notifier, ends QEMU, or is an interrupt of a live system.
ExitWay ==
  /\ UNCHANGED <<pc, main, regions, cap>>
  /\ \/ /\ qemu = "exiting" /\ qemu' = "exiting"
        /\ \E d \in notifiers : notifiers' = notifiers \ {d}
     \/ /\ qemu = "exiting" /\ qemu' = "exited"
        /\ notifiers = {} /\ notifiers' = {}
     \/ qemu = "exiting" /\ UNCHANGED <<qemu, notifiers, system>>

\* Once QEMU exits no device moves, no notifier comes back, and what is left to do only
\* shrinks; once it crashed nothing happens.
ExitOrdered == [][qemu # "running" => ExitWay]_vars

LEMMA ExitStep == ExitInv /\ [Next]_vars => ExitInv'
<1> SUFFICES ASSUME ExitInv, [Next]_vars PROVE ExitInv'
  OBVIOUS
<1>1. Inv'
  BY ScriptInv, PlacingInv, SettingInv, SetupInv, UnplugInv, OutsideInv
     DEF ExitInv, Next, RealizeStep
<1>2. Noted' /\ Drained'
  <2> USE DEF ExitInv, Inv, TypeOK, Stages, Noted, Drained, Hosting, Turns, Busy, Early, Alive,
              Constructing, Step, others, scripts
  <2>1. ASSUME NEW d \in Devices, SkipScript(d) PROVE Noted' /\ Drained'
    BY <2>1 DEF SkipScript
  <2>2. ASSUME NEW d \in Devices,
               \/ Realize(d) \/ ScriptLoads(d) \/ ScriptReturns(d)
               \/ \E placed \in SUBSET Bars, reset \in BOOLEAN :
                    ScriptCreatesBARs(d, placed, reset)
               \/ \E k \in Kinds : ScriptSetsInterrupts(d, k)
        PROVE  Noted' /\ Drained'
    BY <2>2 DEF Realize, ScriptLoads, ScriptReturns, ScriptCreatesBARs, ScriptSetsInterrupts
  <2>3. ASSUME NEW d \in Devices, ScriptFails(d) \/ ScriptCrashes(d) PROVE Noted' /\ Drained'
    <3>1. \A e \in Devices \ {d} : pc[e] \in {"new", "realized", "failed", "gone"}
      BY <2>3, NoDeviceAssumption DEF ScriptFails, ScriptCrashes
    <3> QED BY <2>3, <3>1 DEF ScriptFails, ScriptCrashes
  <2>4. ASSUME NEW d \in Devices, AddExitNotifier(d) PROVE Noted' /\ Drained'
    BY <2>4 DEF AddExitNotifier
  <2>5. ASSUME NEW d \in Devices,
               \/ SetupBARs(d) \/ SetupMsi(d) \/ SetupWithoutMsi(d) \/ SetupMsix(d)
               \/ SwitchNotify(d) \/ SetupFails(d)
               \/ \E hasDisplay \in BOOLEAN : SetupDisplay(d, hasDisplay)
        PROVE  Noted' /\ Drained'
    BY <2>5 DEF SetupBARs, SetupMsi, SetupWithoutMsi, SetupMsix, SwitchNotify, SetupFails,
                SetupDisplay
  <2>6. ASSUME NEW d \in Devices, UnplugStep(d) PROVE Noted' /\ Drained'
    BY <2>6 DEF UnplugStep, Unplug, UninitInterrupts, Destroy, Release
  <2>7. ASSUME NEW d \in Devices, Interrupt(d) PROVE Noted' /\ Drained'
    BY <2>7 DEF Interrupt
  <2>8. ASSUME NEW d \in Devices, RunExitNotifier(d) PROVE Noted' /\ Drained'
    \* The device a notifier is taken from is one whose system it released.
    BY <2>8 DEF RunExitNotifier, Release, Freed
  <2>9. CASE RequestExit
    <3>1. \A d \in Devices : pc[d] \in {"new", "realized", "failed", "gone"}
      BY <2>9, NoDeviceAssumption DEF RequestExit
    <3> QED BY <2>9, <3>1 DEF RequestExit
  <2>10. CASE Exit \/ UNCHANGED vars
    BY <2>10 DEF Exit, vars
  <2> QED BY <2>1, <2>2, <2>3, <2>4, <2>5, <2>6, <2>7, <2>8, <2>9, <2>10 DEF Next, RealizeStep
<1> QED BY <1>1, <1>2 DEF ExitInv

\* Whatever was plugged, unplugged, left to its settings or broken off, an exit that ended
\* leaves alive only the system of a device whose script failed, which has no notifier yet,
\* and of devices whose realize failed in msix_init, whose notifier finds freed memory.
THEOREM ExitCorrect == Spec => []ExitReleased
<1>1. Init => ExitInv
  BY InitInv DEF ExitInv, Noted, Drained, Hosting, Init
<1>2. ExitInv => ExitReleased
  <2> SUFFICES ASSUME ExitInv, qemu = "exited", NEW d \in Devices, system[d] = "live"
               PROVE  pc[d] \in Constructing \cup {"failed"}
    BY DEF ExitReleased, Leftover
  <2>1. pc[d] \in {"new", "realized", "failed", "gone"} \cup Constructing
    BY DEF ExitInv, Drained
  <2>2. pc[d] # "realized"
    BY DEF ExitInv, Drained, Noted, Hosting
  <2>3. pc[d] \notin {"new", "gone"}
    BY DEF ExitInv, Inv, Alive
  <2> QED BY <2>1, <2>2, <2>3
<1> QED BY <1>1, <1>2, ExitStep, PTL DEF Spec

\* The exit goes one way: with the fairness of its notifiers this is why it ends.
THEOREM NothingDuringExit == Spec => ExitOrdered
<1>1. Inv /\ [Next]_vars => [qemu # "running" => ExitWay]_vars
  <2> SUFFICES ASSUME Inv, Next, qemu # "running" PROVE ExitWay
    OBVIOUS
  <2>1. qemu \in {"exiting", "exited", "crashed"}
    BY DEF Inv, TypeOK
  <2>2. \A d \in Devices : ~RealizeStep(d) /\ ~UnplugStep(d)
    BY DEF RealizeStep, Realize, SkipScript, ScriptCrashes, ScriptLoads, ScriptCreatesBARs,
           ScriptReturns, ScriptSetsInterrupts, ScriptFails, AddExitNotifier, SetupBARs, SetupMsi,
           SetupWithoutMsi, SetupMsix, SwitchNotify, SetupFails, SetupDisplay, UnplugStep, Unplug,
           UninitInterrupts, Destroy, Step
  <2>3. ASSUME NEW d \in Devices, Interrupt(d) PROVE ExitWay
    BY <2>1, <2>3 DEF ExitWay, Interrupt
  <2>4. ASSUME NEW d \in Devices, RunExitNotifier(d) PROVE ExitWay
    BY <2>4 DEF ExitWay, RunExitNotifier
  <2>5. CASE RequestExit
    BY <2>5 DEF ExitWay, RequestExit
  <2>6. CASE Exit
    BY <2>6 DEF ExitWay, Exit
  <2> QED BY <2>2, <2>3, <2>4, <2>5, <2>6 DEF Next
<1> QED BY <1>1, InvHolds, PTL DEF ExitOrdered, Spec
=============================================================================
