------------------------------ MODULE PciDevice ------------------------------
(***************************************************************************)
(* The QEMU side of the TestDrive devices (src/testdrive.c): realize, hot  *)
(* unplug and the exit of QEMU, for several devices that share one         *)
(* testdrive_param and one testdrive_interrupt_notify.                     *)
(*                                                                         *)
(* Realize and exit of a device run on the main thread, one device at a    *)
(* time; between any two of their steps the threads of the simulation      *)
(* systems, which take no lock, may raise interrupts.  The setup script is *)
(* the one of SystemModule and BarTable reduced to what is shared: it      *)
(* loads a system, fills testdrive_param and may fail at any point, or no  *)
(* script is configured; the scripts of two devices may differ.  A member  *)
(* of Devices is one device object: it is freed after unplug or after a    *)
(* failed realize, as QEMU does, and a new plug is another member.         *)
(***************************************************************************)
EXTENDS Integers

CONSTANTS
  Devices,     \* the device objects QEMU creates
  NoDevice,    \* no device: a NULL entry, or a main thread that is free
  Bars,        \* registers a setup script may place BARs at
  Kinds        \* interrupt settings a script may make: "none" (no vector), "msi", "msix"

ASSUME NoDeviceAssumption == NoDevice \notin Devices
ASSUME KindsAssumption == Kinds \subseteq {"none", "msi", "msix"}

VARIABLES
  overruled,   \* history: devices whose capability a later script made other settings for
  used,        \* history: the registers that scripts placed BARs at so far
  careless,    \* history: devices set up with entries of the table left by another script
  pc,          \* where each device stands
  main,        \* the device realized or left by the main thread, or NoDevice
  system,      \* the system of each device's TestDrive: "none", "live" or "released"
  pciBar,      \* testdrive_param.pci.bar: the device whose m_BARs an entry points into
  kind,        \* testdrive_param.pci.interrupt
  notify,      \* testdrive_interrupt_notify
  regions,     \* regions registered for each device: [bar, owner of the opaque pointer]
  cap,         \* interrupt capability of each device
  notifiers,   \* exit notifiers registered
  console,     \* devices with a graphic console
  qemu,        \* "running", "exiting", "exited" or "crashed"
  stray,       \* stages at which a device's interrupt missed its capability
  touched      \* freed devices an exit notifier was called on

vars ==
  <<overruled, used, careless, pc, main, system, pciBar, kind, notify, regions, cap, notifiers,
    console, qemu, stray, touched>>

\* What the steps of one device leave alone.
scripts == <<overruled, used, careless>>
others == <<scripts, notifiers, console, qemu, stray, touched>>

Constructing == {"setup", "loaded", "placed"}
Freed == {"failed", "gone"}

\* Step of the main thread from stage a to stage b of device d.
Step(d, a, b) ==
  /\ qemu = "running" /\ main = d /\ pc[d] = a
  /\ pc' = [pc EXCEPT ![d] = b]

Init ==
  /\ overruled = {} /\ used = {} /\ careless = {}
  /\ pc = [d \in Devices |-> "new"]
  /\ main = NoDevice
  /\ system = [d \in Devices |-> "none"]
  /\ pciBar = [i \in Bars |-> NoDevice]
  /\ kind = "none"
  /\ notify = "msi"
  /\ regions = [d \in Devices |-> {}]
  /\ cap = [d \in Devices |-> "none"]
  /\ notifiers = {} /\ console = {}
  /\ qemu = "running"
  /\ stray = [d \in Devices |-> {}]
  /\ touched = {}

-----------------------------------------------------------------------------
(* device_realize. *)

\* testdrive_create: the constructor starts the setup script.
Realize(d) ==
  /\ qemu = "running" /\ main = NoDevice /\ pc[d] = "new"
  /\ main' = d
  /\ pc' = [pc EXCEPT ![d] = "setup"]
  /\ UNCHANGED <<system, pciBar, kind, notify, regions, cap>> /\ UNCHANGED others

\* No SETUP_SCRIPT is configured: the constructor makes neither a system nor a BAR, and
\* leaves the table to what others put there.
SkipScript(d) ==
  /\ Step(d, "setup", "created")
  /\ careless' = IF used # {} THEN careless \cup {d} ELSE careless
  /\ UNCHANGED <<overruled, used, main, system, pciBar, kind, notify, regions, cap, notifiers,
                 console, qemu, stray, touched>>

\* The script ends and has loaded no system: RunScript calls SimulationScript of none.
ScriptCrashes(d) ==
  /\ qemu = "running" /\ main = d /\ pc[d] = "setup"
  /\ qemu' = "crashed"
  /\ UNCHANGED <<scripts, pc, main, system, pciBar, kind, notify, regions, cap, notifiers,
                 console, stray, touched>>

\* LoadSystemModule: the system runs and its interrupts are enabled from here on.
ScriptLoads(d) ==
  /\ Step(d, "setup", "loaded")
  /\ system' = [system EXCEPT ![d] = "live"]
  /\ UNCHANGED <<main, pciBar, kind, notify, regions, cap>> /\ UNCHANGED others

Uncovered(d, placed, reset) == ~reset /\ ~(used \subseteq placed)

\* Mutant: an entry another device filled is kept.
ScriptFillsNullOnly(d, placed, reset) ==
  /\ Step(d, "loaded", "placed")
  /\ pciBar' = [i \in Bars |->
       IF i \in placed /\ (reset \/ pciBar[i] = NoDevice) THEN d
       ELSE IF reset THEN NoDevice ELSE pciBar[i]]
  /\ used' = used \cup placed
  /\ careless' = IF Uncovered(d, placed, reset) THEN careless \cup {d} ELSE careless
  /\ UNCHANGED <<overruled, main, system, kind, notify, regions, cap, notifiers, console, qemu,
                 stray, touched>>

\* CreateBAR: the entries placed point into the m_BARs of this device from here on; the
\* others keep pointing into those of an earlier one unless the script resets the table.
ScriptCreatesBARs(d, placed, reset) ==
  /\ Step(d, "loaded", "placed")
  /\ pciBar' = [i \in Bars |->
       IF i \in placed THEN d ELSE IF reset THEN NoDevice ELSE pciBar[i]]
  /\ used' = used \cup placed
  /\ careless' = IF Uncovered(d, placed, reset) THEN careless \cup {d} ELSE careless
  /\ UNCHANGED <<overruled, main, system, kind, notify, regions, cap, notifiers, console, qemu,
                 stray, touched>>

\* The script leaves the interrupt settings as an earlier one made them.
ScriptReturns(d) ==
  /\ Step(d, "placed", "created")
  /\ UNCHANGED <<main, system, pciBar, kind, notify, regions, cap>> /\ UNCHANGED others

\* EnableMSI or EnableMSIX, then the constructor returns.
ScriptSetsInterrupts(d, k) ==
  /\ Step(d, "placed", "created")
  /\ kind' = k
  /\ overruled' = overruled \cup { e \in Devices : cap[e] \notin {"none", k} }
  /\ UNCHANGED <<used, careless, main, system, pciBar, notify, regions, cap, notifiers,
                 console, qemu, stray, touched>>

\* The script raises an error: the constructor calls exit(1).
ScriptFails(d) ==
  /\ qemu = "running" /\ main = d /\ pc[d] \in Constructing
  /\ qemu' = "exiting"
  /\ UNCHANGED <<scripts, pc, main, system, pciBar, kind, notify, regions, cap, notifiers,
                 console, stray, touched>>

\* Mutant: the notifier is not registered.
ForgetExitNotifier(d) ==
  /\ Step(d, "created", "notified")
  /\ UNCHANGED <<main, system, pciBar, kind, notify, regions, cap>> /\ UNCHANGED others

AddExitNotifier(d) ==
  /\ Step(d, "created", "notified")
  /\ notifiers' = notifiers \cup {d}
  /\ UNCHANGED <<scripts, main, system, pciBar, kind, notify, regions, cap, console, qemu,
                 stray, touched>>

\* Mutant: the index of the region is off by one.
SetupNextBARs(d) ==
  /\ Step(d, "notified", "mapped")
  /\ regions' = [regions EXCEPT ![d] = { [bar |-> i + 1, owner |-> pciBar[i]] : i \in Bars }]
  /\ UNCHANGED <<main, system, pciBar, kind, notify, cap>> /\ UNCHANGED others

\* Every entry of testdrive_param.pci.bar is registered, with the entry for its handlers.
SetupBARs(d) ==
  /\ Step(d, "notified", "mapped")
  /\ regions' = [regions EXCEPT ![d] =
       { [bar |-> i, owner |-> pciBar[i]] : i \in {j \in Bars : pciBar[j] # NoDevice} }]
  /\ UNCHANGED <<main, system, pciBar, kind, notify, cap>> /\ UNCHANGED others

\* No vectors, or msi_init, by the global settings.
SetupMsi(d) ==
  /\ kind # "msix"
  /\ Step(d, "mapped", "capable")
  /\ cap' = [cap EXCEPT ![d] = kind]
  /\ UNCHANGED <<main, system, pciBar, kind, notify, regions>> /\ UNCHANGED others

\* msix_init, by the global settings.
SetupMsix(d) ==
  /\ kind = "msix"
  /\ Step(d, "mapped", "switching")
  /\ cap' = [cap EXCEPT ![d] = "msix"]
  /\ UNCHANGED <<main, system, pciBar, kind, notify, regions>> /\ UNCHANGED others

\* Mutant: the notify function stays with MSI.
ForgetNotify(d) ==
  /\ Step(d, "switching", "capable")
  /\ UNCHANGED <<main, system, pciBar, kind, notify, regions, cap>> /\ UNCHANGED others

\* The notify function of all devices is msix_notify from here on: nothing turns it back.
SwitchNotify(d) ==
  /\ Step(d, "switching", "capable")
  /\ notify' = "msix"
  /\ UNCHANGED <<main, system, pciBar, kind, regions, cap>> /\ UNCHANGED others

\* msi_init fails: its result is not looked at and the device goes on without.
SetupWithoutMsi(d) ==
  /\ kind = "msi"
  /\ Step(d, "mapped", "capable")
  /\ UNCHANGED <<main, system, pciBar, kind, notify, regions, cap>> /\ UNCHANGED others

\* msix_init fails: realize returns, QEMU frees the device; the TestDrive object and the
\* exit notifier stay.
SetupFails(d) ==
  /\ kind = "msix"
  /\ Step(d, "mapped", "failed")
  /\ main' = NoDevice
  /\ regions' = [regions EXCEPT ![d] = {}]
  /\ UNCHANGED <<system, pciBar, kind, notify, cap>> /\ UNCHANGED others

\* Bus master, and a console when the script enabled the display.
SetupDisplay(d, hasDisplay) ==
  /\ Step(d, "capable", "realized")
  /\ main' = NoDevice
  /\ console' = IF hasDisplay THEN console \cup {d} ELSE console
  /\ UNCHANGED <<scripts, system, pciBar, kind, notify, regions, cap, notifiers, qemu,
                 stray, touched>>

-----------------------------------------------------------------------------
(* Hot unplug: device_exit. *)

\* QEMU takes the regions of the device out of the address space and calls device_exit.
Unplug(d) ==
  /\ qemu = "running" /\ main = NoDevice /\ pc[d] = "realized"
  /\ main' = d
  /\ pc' = [pc EXCEPT ![d] = "leaving"]
  /\ regions' = [regions EXCEPT ![d] = {}]
  /\ UNCHANGED <<system, pciBar, kind, notify, cap>> /\ UNCHANGED others

\* SAFE_RELEASE of the system, if there is one.
Release(d) == [system EXCEPT ![d] = IF @ = "live" THEN "released" ELSE @]

\* Mutant: the capability is taken for MSI whatever the settings.
UninitMsiOnly(d) ==
  /\ Step(d, "leaving", "bare")
  /\ cap' = [cap EXCEPT ![d] = IF @ = "msi" THEN "none" ELSE @]
  /\ UNCHANGED <<main, system, pciBar, kind, notify, regions>> /\ UNCHANGED others

\* msi_uninit or msix_uninit by the global settings, each void on a device without it.
UninitInterrupts(d) ==
  /\ Step(d, "leaving", "bare")
  /\ cap' = [cap EXCEPT ![d] = IF @ = kind THEN "none" ELSE @]
  /\ UNCHANGED <<main, system, pciBar, kind, notify, regions>> /\ UNCHANGED others

\* testdrive_destroy, then QEMU frees the device.  The exit notifier and the console stay.
Destroy(d) ==
  /\ Step(d, "bare", "gone")
  /\ main' = NoDevice
  /\ system' = Release(d)
  /\ UNCHANGED <<pciBar, kind, notify, regions, cap>> /\ UNCHANGED others

-----------------------------------------------------------------------------
(* Simulation threads and the exit of QEMU. *)

\* When the capability a device has is not there: before, while or after it should be.
When(d) ==
  IF pc[d] \in {"capable", "realized"} THEN "running"
  ELSE IF pc[d] \in {"leaving", "bare"} THEN "late" ELSE "early"

\* __ISR__: the notify function of all devices is called for this one.
Interrupt(d) ==
  /\ system[d] = "live" /\ qemu \in {"running", "exiting"}
  /\ stray' = IF cap[d] = notify THEN stray ELSE [stray EXCEPT ![d] = @ \cup {When(d)}]
  /\ UNCHANGED <<scripts, pc, main, system, pciBar, kind, notify, regions, cap, notifiers, console,
                 qemu, touched>>

\* QEMU is asked to exit: no device is being realized or left any more.
RequestExit ==
  /\ qemu = "running" /\ main = NoDevice
  /\ qemu' = "exiting"
  /\ UNCHANGED <<scripts, pc, main, system, pciBar, kind, notify, regions, cap, notifiers, console,
                 stray, touched>>

\* __qemu_shutdown_callback: Shutdown of the device's TestDrive.  A notifier inside a
\* freed device is memory QEMU no longer owns; what follows from the read is left out.
RunExitNotifier(d) ==
  /\ qemu = "exiting" /\ d \in notifiers
  /\ notifiers' = notifiers \ {d}
  /\ IF pc[d] \in Freed
     THEN touched' = touched \cup {d} /\ UNCHANGED system
     ELSE system' = Release(d) /\ UNCHANGED touched
  /\ UNCHANGED <<scripts, pc, main, pciBar, kind, notify, regions, cap, console, qemu, stray>>

Exit ==
  /\ qemu = "exiting" /\ notifiers = {}
  /\ qemu' = "exited"
  /\ UNCHANGED <<scripts, pc, main, system, pciBar, kind, notify, regions, cap, notifiers, console,
                 stray, touched>>

RealizeStep(d) ==
  \/ Realize(d)
  \/ SkipScript(d) \/ ScriptCrashes(d) \/ ScriptLoads(d)
  \/ \E placed \in SUBSET Bars, reset \in BOOLEAN : ScriptCreatesBARs(d, placed, reset)
  \/ ScriptReturns(d) \/ \E k \in Kinds : ScriptSetsInterrupts(d, k)
  \/ ScriptFails(d)
  \/ AddExitNotifier(d) \/ SetupBARs(d)
  \/ SetupMsi(d) \/ SetupWithoutMsi(d) \/ SetupMsix(d) \/ SwitchNotify(d) \/ SetupFails(d)
  \/ \E hasDisplay \in BOOLEAN : SetupDisplay(d, hasDisplay)

UnplugStep(d) == Unplug(d) \/ UninitInterrupts(d) \/ Destroy(d)

Next ==
  \/ \E d \in Devices :
       RealizeStep(d) \/ UnplugStep(d) \/ Interrupt(d) \/ RunExitNotifier(d)
  \/ RequestExit
  \/ Exit

\* Once QEMU exits it calls every notifier and ends: this is its own thread of control.
Fairness == WF_vars(Exit \/ \E d \in Devices : RunExitNotifier(d))

Spec == Init /\ [][Next]_vars /\ Fairness

-----------------------------------------------------------------------------
(* Properties. *)

Stages ==
  { "new", "setup", "loaded", "placed", "created", "notified", "mapped", "switching",
    "capable", "realized", "failed", "leaving", "bare", "gone" }

TypeOK ==
  /\ overruled \subseteq Devices /\ used \subseteq Bars /\ careless \subseteq Devices
  /\ pc \in [Devices -> Stages]
  /\ main \in Devices \cup {NoDevice}
  /\ system \in [Devices -> {"none", "live", "released"}]
  /\ pciBar \in [Bars -> Devices \cup {NoDevice}]
  /\ kind \in {"none", "msi", "msix"} /\ notify \in {"msi", "msix"}
  /\ regions \in [Devices -> SUBSET [bar : Bars, owner : Devices]]
  /\ cap \in [Devices -> {"none", "msi", "msix"}]
  /\ notifiers \subseteq Devices /\ console \subseteq Devices
  /\ qemu \in {"running", "exiting", "exited", "crashed"}
  /\ stray \in [Devices -> SUBSET {"early", "running", "late"}]
  /\ touched \subseteq Devices

\* The handlers of a device's regions lead to its own TestDrive, with its system alive,
\* whatever other devices the shared testdrive_param was filled for in the meantime and
\* whichever of them were unplugged, provided its script resets the table or places a BAR
\* at every register any script used before; else a region leads to an earlier device.
OwnBars ==
  qemu = "running" =>
    \A d \in Devices \ careless : \A r \in regions[d] : r.owner = d /\ system[d] = "live"

\* Interrupts, raised at any time, of a realized device reach it through the capability it
\* has, although all devices share one notify function, in any mix of MSI and MSI-X, save
\* one case: a device with MSI once some device was set up with MSI-X.
RoutedWhenRealized ==
  \A d \in Devices :
    cap[d] # "none" /\ "running" \in stray[d] => cap[d] = "msi" /\ notify = "msix"

\* A device that left keeps no capability, although device_exit goes by the settings all
\* devices share, save one whose capability a later script made other settings for.
UninitComplete ==
  \A d \in Devices \ overruled : pc[d] \in {"bare", "gone"} => cap[d] = "none"

\* The systems alive when QEMU is gone: that of the device whose script failed, which has no
\* notifier yet, and those of devices whose realize failed in msix_init, which are freed.
Leftover(d) == pc[d] \in Constructing \cup {"failed"}

\* An exit that starts ends, and by then every other system that was loaded is released.
ExitCompletes ==
  qemu = "exiting" ~>
    qemu = "exited" /\ \A d \in Devices : system[d] = "live" => Leftover(d)

\* "register callback of qemu exit": the callback is called on devices that exist.
\* Refuted: neither device_exit nor a failing device_realize takes it back.
ExitCallbackOnLiveDevice == touched = {}
=============================================================================
