# Formal model of the TestDrive device for QEMU

This directory models the `testdrive` PCI device of this repository in TLA+: a
QEMU device whose behaviour comes from a *simulation system*, a dynamic library
that a Lua setup script loads. It keeps the specifications, the TLC
configurations that check them on small instances and the TLAPS proofs of what
holds for every instance.

## The system

| part | state | operations | works with |
|---|---|---|---|
| BAR and interrupt table (`src/src/testdrive_script.cpp` 432-541) | `m_BARs`, `testdrive_param.pci.bar`, `.interrupt` | `CreateBAR`, `CreateBAR(nil)`, `EnableMSI`, `EnableMSIX` | called by the script; read by `device_realize` |
| TestDrive object (`src/src/testdrive_device.cpp`, `RunScript`) | `m_pSystem`, `m_hSystemImpModule`, `m_pLua`, pointers into the system's memory | constructor, `LoadSystemModule`, `Shutdown`, destructor | system modules, which run threads and call `__ISR__` and `dma_master` back |
| QEMU device (`src/src/testdrive.c`) | regions, capability, exit notifier, console, `testdrive_interrupt_notify` | `device_realize`, `device_exit`, `__qemu_shutdown_callback`, `testdrive_display_update` | QEMU's main thread, vCPU threads, simulation threads |
| BAR data path (`testdrive_bar_read`, `testdrive_bar_write`, `MemIO`, DMA) | none of its own | direct copy through `pMem` or a 32-bit access of the system | guest accesses under QEMU's lock |
| display (`EnableDisplay`, `testdrive_display_update`) | `TESTDRIVE_DISPLAY`, console surface | enable, disable, set up, refresh | script, QEMU console |
| PCI parameters (`src/src/testdrive_params.cpp`, `GetConfiguration*`) | `testdrive_param` | `testdrive_init`, class registration | environment of the process |
| Lua classes (`lua_cstring`, `lua_int64`) | a string and a token cursor; a 64-bit value | the methods the script sees | every script |
| log (`LOG`) | warning and error counters, suppression | `LOG`, `LOG_Suppress` | everything |
| Lua file system (`src/src/Lualfs.cpp`) | directory iterators, directory locks, locked byte ranges | `dir`, `lock_dir`, `lock`, `unlock`, finalizers | scripts of several processes |
| build scripts (`src/scripts`) | the `.qemu` tree, the source list | install, reconfigure | run by hand, may be interrupted |

What makes it hard: the setup script may call anything in any order; tables are
shared by all devices of the process (`testdrive_param`,
`testdrive_interrupt_notify`); pointers are taken out of objects that can go
away (`m_BARs`, the memory of a system); `LoadSystemModule` and
`device_realize` fail half-way; simulation threads raise interrupts at any time
without a lock; devices are unplugged, and QEMU exits, at any point.

What makes each part correct is stated as properties of the modules below;
`PROJECT.json` lists the hazards, each at its line, with the properties that
cover it.

## Modules

* **BarLayout** is the abstract promise: each BAR owns one register or two
  consecutive ones, no register has two owners, nothing moves until all is
  cleared.
* **BarTable** is the layout of the PCI resources, one step per accepted call.
  `bars` is `m_BARs` (a partial function from the register of a BAR to whether it
  takes two), `pciBar` the array of pointers `testdrive_param.pci.bar`,
  `interrupt` its interrupt settings, with the count a script asked for kept
  beside the eight bits stored: `VectorsKept` says that the two differ exactly
  after an MSI-X count from 256 on, which is accepted and cut. A rejected call
  returns false and changes nothing: its action is disabled.
* **PciNumbers** follows the numbers of the device: the texts of the environment
  through `testdrive_init` (one step per setting) into `testdrive_param` and into
  QEMU's class, and the arguments of `CreateBAR` through `lua_int64::GET` into the
  size, the alignment warning and the direct access of a BAR. A text is what
  `std::stoull` makes of it. `given` and `warned` in a BAR, and `env`, are kept
  for the properties.
* **HostedSystem** is the abstract host of a simulation system, and
  **SystemModule** the life of one TestDrive object that implements it: the
  constructor and its scripts, `LoadSystemModule` split at each of its calls into
  a library or a system, `Shutdown` and the destructor. `libs`, `systems` and
  `wired` are what is really mapped, alive and wired to interrupts; `lib` and
  `sys` are what the object believes.
* **PciDevice** is the QEMU side for several devices: one program counter `pc`
  per device runs through `device_realize` and `device_exit`, `main` is the
  device the main thread works on, and `Interrupt` is a step of a simulation
  thread, enabled as soon as the device's system is alive. The setup script of
  each device does what it likes with the shared tables: it resets the BARs or
  does not, places some of them, and sets the interrupts or leaves them as they
  are. It may be missing (`SkipScript`), raise an error (`ScriptFails`, QEMU
  exits) or load no system (`ScriptCrashes`, QEMU dies). `msix_init` and the
  switch of the notify function are two steps (stage `switching`), for an
  interrupt may come between them. `overruled`, `used` and `careless` are
  history: the devices whose capability a later script made other settings for,
  the registers used so far, and the devices that left a register as an earlier
  script had filled it.
* **GuestBus** is the abstract address space of a device, and **GuestView** the
  device that is set up and put to work on it: `LoadSystem`, `CreateBAR` and
  `ResetBARs` are the setup script, in any order, which decides for each BAR in
  `bars` whether it has direct access (a system must be loaded by then);
  `ReadMemory` to `WriteInvalid` are the branches
  of `testdrive_bar_read` and `testdrive_bar_write`, `DmaWrite` and `DmaRead`
  the two directions of `testdrive_dma_master`, `Draw` anything the system does
  by itself; `EnableDisplay`, `DisableDisplay`, `Realize` and `Refresh` follow a
  display from the script to `testdrive_display_update`. `cells` is what the
  system holds, in lanes of 16 bits; `call` is the last request, kept for the
  refinement; `display` is `TESTDRIVE_DISPLAY` with its fields as wide as in the
  code, `surface` the console's surface, `copied` the bytes of the last `memcpy`.
* **LogConsole** is `LOG` called by several threads without a lock: `pc` is
  where each thread stands, `ReadCount` and `StoreCount` are the two halves of
  `g_log_..._count++`, `Paint`, `PrintLine` and `Reset` the three calls that
  reach the console. `logged`, `loggers` and `kept` record what happened, for
  the properties.
* **BuildScript** is `build_qemu.bat` with `touch_project.lua` as a sequential
  program `pc` over what it leaves on the disk (`tree`, `done`, `list`,
  `touched`, `conf`, `built`, `date`, `commit`): each command is a step, may
  fail where nothing looks at its result, and the run may be interrupted before
  it. `Edit`, `Publish` and `Tomorrow` are the developer, the public repository
  and the calendar. `skew`, `edited` and `known` are kept for the properties.
* **LuaString** is the `String` class of the scripts: `text` and the cursor
  `iTokenizePos`, one action per method that moves either; methods of `cstring`
  that the class only forwards to are grouped by what happens to the cursor.
  Characters are numbered so that one can be told from a copy of it; `given`,
  `behind` and `wild` say what the tokens so far were made of.
* **DirLock** is the abstract lock of a directory: at most one lock object of
  all processes holds it. **LuaFiles** implements it with what the file system
  library keeps: `object` is the slot of a script's iterator, directory lock or
  file, `opened` what the operating system has open under each handle number of
  a process (a number is reused after it is closed), `locked` the byte ranges of
  one file with the handles that own them. Steps, `close`, `free`, finalizers
  and the end of a process come in any order.
* **MCBarTable**, **MCGuestView**, **MCPciNumbers** and **MCLuaFiles** hold the
  values of the constants that a configuration cannot write down, and the
  **..._proofs** modules the theorems.

How they compose: `BarTable` refines `BarLayout`, `SystemModule` refines
`HostedSystem`, `GuestView` refines `GuestBus`, `LuaFiles` refines `DirLock`, each
by an `INSTANCE` whose specification is a property of a run. The components meet
at narrow interfaces, which the neighbours keep as a set of possible values: the
memory of the loaded system (an action of `SystemModule`, the argument `mem` of
`PciNumbers!CreateBAR`, the constant `Memory` of `GuestView`, whose variable
`system` says whether it is there), the finished
`testdrive_param` (all of `BarTable`, the variables `pciBar` and `kind` of
`PciDevice`, the constant `Windows` of `GuestView`, whose entries are sized and
placed as `PciNumbers` does), and the life of a TestDrive (`SystemModule`, one
variable per device in `PciDevice`).

Operators marked *Mutant* are wrong versions of the definition that follows
them, each a plausible slip in that code. They are used in no specification:
put in the place of that definition they make TLC refute the property they are
listed with in `PROJECT.json`, which shows that the property depends on the code.

## What TLC checks

| run | module, configuration | shows |
|---|---|---|
| `bar_layout` | MCBarTable, `BarTable_layout.cfg` | over every sequence of calls on six registers, BARs tile the registers, `m_BARs` and `testdrive_param` agree, `BarLayout` is implemented, the stored count of vectors is the one asked for but after an MSI-X count from 256 on, only `CreateBAR(nil)` takes the BAR of the MSI-X table away |
| `settings` | MCPciNumbers, `PciNumbers.cfg` | the class has a vendor and each identifier as configured where the field holds it; sizes are corrected to the covering power of two in whatever form a script gives them, direct access stays within the memory, a power-of-two BAR is reported exactly when misaligned |
| `system_life` | SystemModule | a live system has its library mapped, the handles leak nothing and release nothing twice through every failure, interrupts are wired to the live system, fresh pointers lead to it, one system lives at a time, a destructor ends with nothing left |
| `pci_life` | PciDevice | regions of a device lead to its own system unless its script left an entry of an earlier one; interrupts of a realized device use its capability but for MSI after some device switched to MSI-X; unplug leaves no capability behind but one that a later script overruled; an exit releases every system but those of devices that failed |
| `guest_view` | MCGuestView | whatever the order of BARs and system in the script, all paths of the guest and of DMA reach one address space, and a narrow access is refused only by a BAR outside of the memory or older than the system; a refresh stays within the surface |
| `log_console` | LogConsole | counters lose increments at worst and are exact while one thread logs alone; the console gets its colour back |
| `build_runs` | BuildScript | an interrupted installation is never built, a finished build is up to date save two windows, the recorded date vouches for the recorded commit but after an answer that is no commit |
| `lua_string` | LuaString | a token loop over a text edited meanwhile repeats and skips nothing |
| `lua_files` | MCLuaFiles, `LuaFiles.cfg` | no handle leaks or is closed under another object, a lock of a whole file keeps its bytes, `DirLock` is implemented, all over several processes that may crash |

Three runs refute what the code says of itself; each checks one property:

| run | refuted | the code |
|---|---|---|
| `system_null` | a setup script may return without a system (`EnableDisplay` warns and goes on) | `RunScript` asks the missing system for its simulation script |
| `pci_notifier` | the exit callback is called on devices that exist | a `device_realize` that fails in `msix_init`, which the trace shows, leaves the notifier of the freed device registered; so does `device_exit`, which TLC meets in more steps |
| `display_format` | an unknown display format is rejected ("Invalid display format.") | the result is assigned to eight bits before it is compared with -1; 255 is kept and indexes a table of thirteen |

### Bounds, and why they are enough

* *BarTable.* Six registers as in PCI, so that every mixture of one- and
  two-register BARs that fills or overfills them occurs. The counts are the
  values around each limit, and the first that loses a bit in eight.
* *PciNumbers.* Numbers of four bits, identifiers of two and a revision of one:
  every narrowing loses bits. The texts of the vendor, the one that is checked,
  hold numbers that fit, that wrap to zero and to another number, and that do
  not parse, with and without prefix and sign; another identifier and the
  revision vary in what could differ for them. Every size and address of four
  bits, which holds every order of the ends of a BAR and of a memory, with sums
  that wrap; memories at the bottom, inside and at the top. One BAR: no number
  of a BAR depends on another.
* *SystemModule.* Three loads: one that is replaced, the one that replaces it
  and may fail, and one after the failure. The object forgets all but the last.
* *PciDevice.* Two devices, for what they share is a single table and a single
  function pointer; one register, which a script may or may not place and may or
  may not reset: registers do not depend on each other. Devices with MSI and
  MSI-X, and one with none beside them, are all among the settings.
* *GuestView.* Five lanes: a register below the memory, a memory of two, two
  registers above; `MaxBars` is two, of BARs at three places that overlap (within
  the memory, across its end, around it) with or without direct access, so that
  direct, indirect and refused accesses to the same lane alternate; two BARs at a
  time are what it takes. `FieldSpan` is 16 so that widths on both sides of the
  wrap of the stride are small numbers. One format in `guest_view`, for the copy
  does not depend on it; an unknown one in `display_format`.
* *LogConsole.* Two threads and three calls: a lost increment takes two calls
  at once and is seen by a third.
* *BuildScript.* Two files, two changes, two interruptions, two days, two
  commits: each window needs one interruption or change, a second one hits the
  run that recovers. Every answer may also be one that is no commit (`Odd`).
* *LuaString.* Texts of four characters hold two tokens, the delimiters around
  them and an insertion; `MaxLetter` bounds the insertions between two rewinds.
* *LuaFiles.* Two processes with two objects and two handle numbers each: a
  number can be closed by one object while another owns it, a lock can be wanted
  by either process. A file of at most two bytes and three ranges (all of it, its
  second byte, one byte from wherever a negative start leaves the stream) can be
  locked as a whole, in part, beyond its end, and can grow under a lock.
  Processes, slots and handles are symmetric: no formula distinguishes them, and
  no property of the run is a liveness property.

### Fairness

Most of what is checked is safety and assumes none. Two liveness properties:

* `DestructorCompletes` assumes `WF_vars(CloseReleases \/ CloseFrees)`: once the
  destructor runs, straight-line code on one thread, it goes on. It assumes that
  `Release` of a system returns.
* `ExitCompletes` assumes weak fairness of the exit notifiers and of the end of
  QEMU: `qemu_run_exit_notifiers` is a loop that nothing interrupts. Interrupts
  of simulation threads may come between any two of its steps.

Deadlock is checked except where the system really stops: `SystemModule` (the
object is deleted, the process exits or crashes), `PciDevice` (QEMU ends or
crashes) and `PciNumbers` (the device is refused, the process aborts, or the one
BAR is there).

## What is proved

For every value of the constants that satisfies the named assumptions (all of
them are evaluated in the runs):

* `BarTable_proofs`: `TypeCorrect`, `TilingCorrect`, `PointersCorrect`,
  `VectorsCorrect`, `MsixBarKept`, `ImplementsLayout`. The inductive invariant
  is `TypeOK`, `SlotsTiled`, `PointersBound` and `VectorsKept` together: that
  the next register is free follows from the tiling by a lemma on the sum of the
  widths, and the tiling of the new table from where `CreateBAR` places the BAR.
  A count is kept if and only if it fits the field (`StoredCountKeeps`), and all
  counts of MSI do. Assumptions: `NSlotsAssumption`, `NullBarAssumption`,
  `CountAssumption`.
* `PciNumbers_proofs`: `TypeCorrect`, `ClassCorrect`, `SizesCorrect`,
  `DirectCorrect`, `WarningCorrect`. `Read` says that the settings read so far
  are the stored values of their texts, `Made` that a BAR is one `CreateBAR`
  made. The lemmas on the correction come first: the loop ends, at the least
  power it stops at, and that is less than twice the size. For the warning, the
  bits of a number below a power of two are its remainder (`LowBits`), so that
  masking an address with a size less one tells whether the size divides it.
  `LeastElement` and `BoundedInduction` are induction over a set of numbers,
  which the provers can use where they cannot use induction over a formula.
  Assumptions: `WidthAssumption`, `InputAssumption`, and `PowerAssumption`, the
  recursion of powers of two that the provers do not know.
* `SystemModule_proofs`: `TypeCorrect`, `HandlesCorrect`, `LibraryCorrect`,
  `WiringCorrect`, `PointersCorrect`, `ImplementsHost`. The handles alone are
  not inductive: `Points` says which of library and system exist at each point
  within `LoadSystemModule` and the destructor. `Ages` (no pointer is newer than
  the last load, and a load being made has none yet) carries `PointersFresh`.
  The refinement has one step for each point. Assumption: `MaxLoadsAssumption`.
* `PciDevice_proofs`: `TypeCorrect`, `OwnBarsCorrect`, `RoutingCorrect`,
  `UninitCorrect`. `Turns` (the main thread works on one device) makes the
  shared table private to the device being realized (`Placed`, which needs
  `Covered`: entries are only in registers that some script used), from which
  its regions (`Mapped`) follow. `Routes` says that once a device got its MSI-X
  and made the switch the notify function is `msix_notify`, and that an
  interrupt of one with MSI goes astray only then; `Capped` that a capability is
  the one of the present settings unless they were overruled, both for any mix
  of settings; `Alive` says which stages have a system. Assumptions:
  `NoDeviceAssumption`, `KindsAssumption`.
* `LogConsole_proofs`: `TypeCorrect`, `CountsCorrect`, `ColourCorrect`. `Pending`
  bounds what a thread read by what was logged at its level, `Painted` says that a
  console in another colour than its own has a thread about to reset it or a
  message that asked to keep it. Assumptions: `ColourAssumption`,
  `MaxCallsAssumption`.
* `BuildScript_proofs`: `TypeCorrect`, `CompleteCorrect`, `CurrentCorrect`,
  `DateCorrect`, for any files, days, commits and number of interruptions.
  `DateVouches` excepts the answers that are no commit (`Odd`). `Ordered` says
  which commands of the installation are done when one runs, `Seen` that a run
  which nobody disturbs works on the files it found, `Configured` that the
  configuration is of the recorded list unless a touch is due, `Recorded` that
  the commit of an answer is recorded before its date. Assumptions:
  `NoneAssumption`, `BoundsAssumption`.
* `LuaLibraries_proofs`, about LuaFiles: `TypeCorrect`, `HandlesCorrect`,
  `WholeFileCorrect`, `ImplementsLock`. As far as handles are concerned every
  step opens one for a slot that owns none (`Opening`), closes what its slot
  owns (`Closing`), ends a process, or does nothing, and each of these kinds
  preserves `HandlesOwned`. The directory lock follows from `LockfileOnce` (the
  file is opened without sharing) and from `HandlesOwned`, without which a freed
  object could still believe it holds; the whole-file lock from `Regions`
  (locked ranges are disjoint). Assumptions: `HandleAssumption`,
  `FreeAssumption`, `NoObjectAssumption`, `RegionAssumption`.
* `LuaLibraries_proofs`, about LuaString: `StringTypeCorrect`,
  `RepetitionCorrect`, `SkippingCorrect`. `Unique` says that no character stands
  twice in a text, so that a token given out is told from what lies ahead by its
  positions; `Fresh` that what a script puts in is new; `Repeats` and `Skips`
  state the two properties position by position. `append` and `insert` are one
  case, a text put in at a position (`Spliced`), and so are `erase` and the
  variable that is taken out (`Excised`). Assumption: `BoundsAssumption` (the
  bounds hold the texts a script starts with).
* `GuestView_proofs`: `TypeCorrect`, `CopyCorrect`, `ImplementsBus`. The lemmas
  on addresses come first: the test of `CreateBAR`, made modulo the span, is
  exact for windows below the top, and a lane has one place in an access. With
  them each branch of the two BAR handlers is a step of `GuestBus`.
  `DirectLoaded` says that a BAR with direct access has it from a system that is
  still loaded. `Strides` relates settings, surface and the last copy.
  Assumptions: `SpanAssumption`, `WindowsAssumption`, `ValuesAssumption`,
  `DisplayAssumption`.

Only model-checked: `DestructorCompletes` and `ExitCompletes`, which are liveness.
What they rest on besides fairness is proved, for every value of the constants:

* `SystemModule_proofs`: `DestructorCorrect`, that a deleted object left no
  engine, system, library, interrupt service or pointer, and
  `NothingDuringDestructor`, that between its start and its end only the
  destructor's own calls happen, each once and in order. That a load cannot lie
  within it is `Points` again; `Ended` adds that the engine goes first.
* `PciDevice_proofs`: `ExitCorrect`, that when QEMU has exited only two kinds of
  systems are alive: that of a device whose script failed, which has no notifier
  yet, and those of devices that failed in `msix_init`, which are freed and whose
  notifier is the finding `ExitCallbackOnLiveDevice`; and `NothingDuringExit`,
  that after the request no device moves and the notifiers only become fewer.
  `Noted` (a device that registered has its notifier until that has released its
  system) and `Drained` are what the exit adds to the invariant.

Left to TLC is the step from there: that the fair action is enabled until the end.

## Where the properties stop

The conditions of the properties name behaviour that is outside of them, and
that a user of the code should know:

* A BAR that ends at 2^64 gets direct access whatever the memory (its end wraps
  to 0); alignment is tested before the size is corrected.
* `lua_int64::GET` reads texts in base 10, where `GetConfigurationValue` knows a
  prefix: a size of "0x1000" is 0, and "-1" is the largest number, in both. A
  text in the environment that is no number ends the process: nothing catches
  the exception of `stoull`.
* Of a configured identifier the low sixteen bits are kept. The message "need to
  run from TestDrive environment" (`src/src/testdrive.c:253`) is for a vendor of
  0, yet without any configuration the default vendor 0x1234
  (`src/src/testdrive_params.cpp:57`) registers the device.
* A count of vectors from 256 to 2047 is stored in eight bits: 256 vectors
  become 0 and no MSI-X is set up, 257 become one.
* `CreateBAR(nil)` drops the BARs and keeps the MSI-X settings, whose table then
  lies in a BAR that is gone or in another one; `EnableMSIX` itself refuses that.
* From a width of 16384 on the stride wraps; a width that is a multiple of
  65536 is stored as 0; 16- and 24-bit formats get a stride and a copy of four
  bytes per pixel.
* Pointers of BARs and of the display that are older than the last
  `LoadSystemModule` dangle; a script has to reset and set them up again.
  `GuestView` leaves a further load out while such a pointer is held.
* Direct access is decided when a BAR is created: one created before the system
  is loaded reaches the same addresses through the system only, and refuses
  accesses narrower than 32 bits.
* Interrupts before the capability is set up, between `msix_init` and the switch
  of the notify function, and after the capability is removed go astray. Once
  one device was set up with MSI-X, the interrupts of devices with MSI are sent
  through `msix_notify`, for good. A device whose capability a later script made
  other settings for keeps it at its unplug. A script that neither resets the
  BARs nor places all that earlier scripts did, or a device without a script,
  gets regions of an earlier device's BARs, which that device frees at its unplug.
* The day counts as asked after any answer that ends with HEAD, also one that is
  not 40 characters long: `DATE@QEMU` is then set and `COMMIT@QEMU` stays.
* `exit(1)` in the constructor leaves a live system, and the console is not
  closed by an unplug.
* A tree whose installation was interrupted has to be deleted by hand, and one
  on which a command failed does get built; the two windows of `BuiltCurrent`
  are an interruption between the list and the touch, and a change of `src/`
  between the list and the configuration.
* `erase` before the cursor, a failed `insert`, a change of the whole text and
  an assignment of `TokenizePos` strand the cursor of a token loop.
* Two processes may both lock an empty file as a whole; a file that grew can only
  be unlocked by closing it (the length is measured anew, and the system gives up
  only the range that was locked); `lock` moves the position of the stream, and
  its shared mode locks exclusively. A negative start, whose failed seek nobody
  looks at, locks from wherever the stream was. `lock_dir` leaks its handle if
  `lua_newuserdata` raises. A directory is listed relative to the working
  directory at the first step of its iterator, not at `dir`.

## Not modelled

* The rest of `Lualfs.cpp`: attributes, links, times, `chdir`, `mkdir` and `rmdir`
  are one call into the system each, and `setmode` one into the C library; they
  keep no state. What a reader may trip over: `push_link_target` returns two values
  where `CreateFile` fails (`src/src/Lualfs.cpp:1050-1100`) although its comment
  promises none (1047-1048). Shared locks and lock files of the POSIX build are
  not part of the Windows build.
* `dir_close` on an object that is no iterator: it takes `lua_touserdata` as it
  comes (`src/src/Lualfs.cpp:674`), so that a script that calls it by its field with
  a lock or a file has that object read and written as an iterator, and one that
  calls it with no object dereferences NULL. What follows is undefined; `Close` is
  called on objects of its own kind.
* The branch of `testdrive_display_update` that resizes the console
  (`src/src/testdrive.c:111-116`): settings do not change after the script, so that
  the surface always has the size of the settings.
* A system that goes away under the guest: QEMU stops the guest before it shuts
  the system down. The test of `m_pSystem` in `MemIO` is in `GuestView`, where it
  always succeeds: a device that is realized with BARs of its own has a system.
* `HEX_STRING`, `BYTE_STRING` and `BOOL_STRING` format numbers for messages of the
  log; the accessors of `lua_int64` get and set halves of a number and print it.
  Nothing in the program depends on them.
* The keyboard hook of `build_qemu.diff` is a single global handle: creating a
  second window overwrites it (157-159), and destroying any window unhooks it
  before looking whether the window exists (172-179). With several consoles the
  hook is lost or leaks; with one, nothing can go wrong, and no promise about
  more is made anywhere.
* `SetDpiAwareness` and the console handler are one call into Windows each; the
  name of the ROM file is passed on unread; `GetConfigurationBoolean` is never
  called.
* What a simulation system does inside, what `cstring`, Lua, QEMU and Windows do
  inside: taken from how the code calls them, and external in the map.

## Plan

The order so far was: the table (what everything reads), the life of a system
and of a device (where failures and threads meet), the data path, the peripheral
parts, then the numbers at startup, scripts that differ between devices and the
file system library, each with its proofs. What is left:

1. *PciDevice* with the console kept over an unplug. The code makes no promise
   there: `graphic_console_close` is never called, and a refresh of an unplugged
   device's console reads a freed object. With a fix the property is that no
   refresh follows an unplug.
2. *GuestView* over a system that is replaced while the device runs. `SystemModule`
   has the stale pointers, `GuestView` keeps one system; their composition adds
   that a guest access between the two loads meets neither.
