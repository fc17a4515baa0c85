------------------------------ MODULE GuestView ------------------------------
(***************************************************************************)
(* A device at work: its setup script loads a system and creates BARs, in  *)
(* any order, then the guest accesses the BARs (testdrive_bar_read,        *)
(* testdrive_bar_write and MemIO of src/testdrive_device.cpp) beside the   *)
(* DMA of the system; and its display, from EnableDisplay over             *)
(* device_realize to the refresh (src/testdrive.c).                        *)
(*                                                                         *)
(* One step is one call of a handler: QEMU splits the accesses of the      *)
(* guest into aligned ones of at most 32 bits and runs them under its      *)
(* lock, the threads of the system run in between.  Data is counted in     *)
(* lanes of 16 bits: an access of one lane stands for 8 and 16 bits, one   *)
(* of two lanes for 32.  A BAR is what the data path sees of it (see       *)
(* BarTable for the rest), the system behind io_slave and GetMemoryPointer *)
(* is external: both reach the same lanes.  QEMU stops the guest before it *)
(* shuts the system down.                                                  *)
(***************************************************************************)
EXTENDS Integers, FiniteSets

CONSTANTS
  Span,        \* size of the address space, in lanes
  Memory,      \* the memory of the system, as [base, size]
  Windows,     \* where a script may bind a BAR, as [bind, size]
  MaxBars,     \* bound on the BARs, of the six a device has
  Values,      \* values of a lane
  Ones,        \* a lane of ones, among Values
  FieldSpan,   \* values of a uint16_t field of TESTDRIVE_DISPLAY
  ByteSpan,    \* values of its uint8_t format
  Widths, Heights, Formats  \* arguments of EnableDisplay; format -1 is an unknown name

ASSUME SpanAssumption == Span \in Nat /\ Span > 1

\* A window or a memory that ends at the top of the address space is left out: the test of
\* CreateBAR compares ends that have wrapped to zero then (see PciNumbers).
ASSUME WindowsAssumption ==
  /\ Memory \in [base : Nat, size : Nat] /\ Memory.base + Memory.size < Span
  /\ Windows \subseteq [bind : Nat, size : Nat]
  /\ \A w \in Windows : w.bind + w.size < Span
ASSUME ValuesAssumption == Ones \in Values
ASSUME DisplayAssumption ==
  /\ FieldSpan \in Nat \ {0} /\ ByteSpan \in Nat \ {0}
  /\ Widths \subseteq Int /\ Heights \subseteq Int /\ Formats \subseteq Int

VARIABLES
  stage,       \* "script" while the setup script runs, then "running"
  display,     \* TESTDRIVE_DISPLAY; buffer is whether pBuffer is set
  surface,     \* the surface of the console, NoDisplay without one
  copied,      \* bytes the last refresh copied
  system,      \* a system is loaded (m_pSystem)
  bars,        \* the BARs, as [bind, size, direct]; direct is whether pMem is set
  cells,       \* the lanes of the system
  call         \* the last request of the guest or of the system, with its data

screen == <<stage, display, surface, copied>>
table == <<system, bars>>
vars == <<screen, table, cells, call>>

Word == 2
Lanes == 0 .. Span - 1
Pieces(n) == [0 .. n - 1 -> Values]
Bar(w, direct) == [bind |-> w.bind, size |-> w.size, direct |-> direct]
Bars == { Bar(w, direct) : w \in Windows, direct \in BOOLEAN }
Whole == Bar([bind |-> 0, size |-> Span], FALSE)
Request(op, w, off, v) == [op |-> op, window |-> w, off |-> off, data |-> v]

NoDisplay == [buffer |-> FALSE, width |-> 0, height |-> 0, stride |-> 0, format |-> 0]

Init ==
  /\ stage = "script"
  /\ display = NoDisplay /\ surface = NoDisplay
  /\ copied = 0
  /\ system = FALSE /\ bars = {}
  /\ cells \in [Lanes -> Values]
  /\ call = Request("none", Whole, 0, <<>>)

-----------------------------------------------------------------------------
(* The setup script. *)

\* LoadSystemModule releases the system there is and makes another one, or fails and leaves
\* none.  Pointers into the memory of an earlier system are left out: it is called again
\* only while no BAR and no display holds one (see PointersFresh of SystemModule).
LoadSystem ==
  /\ stage = "script"
  /\ ~display.buffer /\ \A w \in bars : ~w.direct
  /\ system' \in BOOLEAN
  /\ UNCHANGED <<screen, bars, cells, call>>

\* The test of CreateBAR before pMem is taken; both ends are computed modulo the span.
Direct(w) ==
  /\ system
  /\ w.bind >= Memory.base
  /\ (w.bind + w.size) % Span <= (Memory.base + Memory.size) % Span

\* The test is made once: a BAR created before the system is loaded never has direct access.
CreateBAR(w) ==
  /\ stage = "script" /\ Cardinality(bars) < MaxBars
  /\ bars' = bars \cup {Bar(w, Direct(w))}
  /\ UNCHANGED <<screen, system, cells, call>>

\* CreateBAR(nil).
ResetBARs ==
  /\ stage = "script"
  /\ bars' = {}
  /\ UNCHANGED <<screen, system, cells, call>>

-----------------------------------------------------------------------------
(* The data path. *)

\* The accesses QEMU passes on: aligned, and within the region.
Passed(w, off, n) == off % n = 0 /\ off + n <= w.size

\* The lanes from address a on, and what they are after v is put there.
Held(a, n) == [i \in 0 .. n - 1 |-> cells[(a + i) % Span]]
Put(a, n, v) == [b \in Lanes |-> IF (b - a) % Span < n THEN v[(b - a) % Span] ELSE cells[b]]

\* Mutant: the address of the BAR is not added.
OffsetOnly(w, off) == off

\* offset + bind_address, which wraps.
BusAddress(w, off) == (off + w.bind) % Span

\* What a read returns that nothing answers.
Unanswered(n) == [i \in 0 .. n - 1 |-> Ones]

\* memcpy to or from pMem + offset.
ReadMemory(w, off, n) ==
  /\ w.direct
  /\ call' = Request("read", w, off, Held(w.bind + off, n))
  /\ UNCHANGED <<cells, table, screen>>

WriteMemory(w, off, n, v) ==
  /\ w.direct
  /\ call' = Request("write", w, off, v)
  /\ cells' = Put(w.bind + off, n, v)
  /\ UNCHANGED <<table, screen>>

\* MemIO: io_slave of the system, if there is one.
ReadSlave(w, off, n) ==
  /\ ~w.direct /\ n = Word
  /\ call' = Request("read", w, off,
                     IF system THEN Held(BusAddress(w, off), n) ELSE Unanswered(n))
  /\ UNCHANGED <<cells, table, screen>>

WriteSlave(w, off, n, v) ==
  /\ ~w.direct /\ n = Word
  /\ call' = Request("write", w, off, v)
  /\ cells' = IF system THEN Put(BusAddress(w, off), n, v) ELSE cells
  /\ UNCHANGED <<table, screen>>

\* Narrow accesses do not reach a system: a read returns ones, a write is dropped.
ReadInvalid(w, off, n) ==
  /\ ~w.direct /\ n < Word
  /\ call' = Request("read", w, off, Unanswered(n))
  /\ UNCHANGED <<cells, table, screen>>

WriteInvalid(w, off, n, v) ==
  /\ ~w.direct /\ n < Word
  /\ call' = Request("write", w, off, v)
  /\ UNCHANGED <<cells, table, screen>>

Guest ==
  /\ stage = "running"
  /\ \E w \in bars : \E off \in 0 .. w.size - 1 : \E n \in 1 .. Word :
       /\ Passed(w, off, n)
       /\ \/ ReadMemory(w, off, n) \/ ReadSlave(w, off, n) \/ ReadInvalid(w, off, n)
          \/ \E v \in Pieces(n) :
               WriteMemory(w, off, n, v) \/ WriteSlave(w, off, n, v) \/ WriteInvalid(w, off, n, v)

-----------------------------------------------------------------------------
(* The system's own threads, from the moment the script has loaded it. *)

\* The system draws, or changes a register.
Draw ==
  /\ \E a \in Lanes, x \in Values : cells' = [cells EXCEPT ![a] = x]
  /\ UNCHANGED <<call, table, screen>>

\* testdrive_dma_master: bWrite is DMADirection 1, from the device to the guest; else the
\* system puts what it got from the guest where it asked for it.
DmaWrite(a) ==
  /\ call' = Request("to guest", Whole, a, Held(a, Word))
  /\ UNCHANGED <<cells, table, screen>>

DmaRead(a, v) ==
  /\ call' = Request("from guest", Whole, a, v)
  /\ cells' = Put(a, Word, v)
  /\ UNCHANGED <<table, screen>>

\* A transfer that fails is logged and moves nothing: it is no step.
System ==
  /\ system
  /\ \/ Draw
     \/ \E a \in Lanes : DmaWrite(a) \/ \E v \in Pieces(Word) : DmaRead(a, v)

-----------------------------------------------------------------------------
(* The display. *)

\* Mutant: the fields hold what the script gave.
WideField(n) == n

\* Conversions to the uint16_t and uint8_t fields.
Field(n) == n % FieldSpan
FormatField(f) == f % ByteSpan

\* Mutant: 16-bit formats have a stride of two bytes for each pixel.
StrideByFormat(width, f) == Field(width * (IF f >= 10 THEN 2 ELSE 4))

\* byte_stride = width * 4, of the width as stored and whatever the format.
Stride(width, f) == Field(width * 4)

\* The address may lead nowhere: GetMemoryPointer decides.  The stored format is compared
\* with -1, which eight bits never hold: an unknown name is stored like another.
EnableDisplay(w, h, f) ==
  /\ stage = "script" /\ system /\ w # 0 /\ h # 0
  /\ IF FormatField(f) = -1 THEN display' = NoDisplay
     ELSE \E found \in BOOLEAN :
       display' = [ buffer |-> found, width |-> Field(w), height |-> Field(h),
                    stride |-> Stride(Field(w), f), format |-> FormatField(f) ]
  /\ UNCHANGED <<stage, surface, copied, table, cells, call>>

DisableDisplay ==
  /\ stage = "script"
  /\ display' = NoDisplay
  /\ UNCHANGED <<stage, surface, copied, table, cells, call>>

\* Entries of the table of pixel formats, which device_realize indexes with the stored one.
FormatCount == 13

\* device_realize: the surface is made of the settings as they are.  A script that leaves no
\* system crashes (see NoNullSystem of SystemModule); a device without a script, which has
\* no BAR and no display, is left out.
Realize ==
  /\ stage = "script" /\ system
  /\ stage' = "running"
  /\ surface' = IF display.buffer THEN display ELSE NoDisplay
  /\ UNCHANGED <<display, copied, table, cells, call>>

\* testdrive_display_update: the settings follow the surface, four bytes for each pixel.
\* They already do: nothing sets the display once the script is over, and the branch that
\* resizes the console is never taken.
Refresh ==
  /\ stage = "running" /\ surface.buffer
  /\ display' = [display EXCEPT !.width = surface.width, !.height = surface.height]
  /\ copied' = surface.width * surface.height * 4
  /\ UNCHANGED <<stage, surface, table, cells, call>>

Next ==
  \/ Guest \/ System
  \/ \E w \in Widths, h \in Heights, f \in Formats : EnableDisplay(w, h, f)
  \/ DisableDisplay \/ Realize \/ Refresh
  \/ LoadSystem \/ ResetBARs
  \/ \E w \in Windows : CreateBAR(w)

Spec == Init /\ [][Next]_vars

-----------------------------------------------------------------------------
(* Properties. *)

Displays ==
  [ buffer : BOOLEAN, width : 0 .. FieldSpan - 1, height : 0 .. FieldSpan - 1,
    stride : 0 .. FieldSpan - 1, format : 0 .. ByteSpan - 1 ]

TypeOK ==
  /\ stage \in {"script", "running"}
  /\ display \in Displays /\ surface \in Displays
  /\ copied \in Nat
  /\ system \in BOOLEAN /\ bars \subseteq Bars
  /\ cells \in [Lanes -> Values]
  /\ call.window \in Bars \cup {Whole} /\ call.off \in Lanes
  /\ call.op = "none" \/ \E n \in 1 .. Word : call.data \in Pieces(n)

\* A refresh copies no more than the surface holds, for every width whose stride fits its
\* field: from 16384 pixels on the stride wraps.
CopyFits ==
  surface.width * 4 < FieldSpan => copied <= surface.stride * surface.height

\* A surface has a format of the table ("Invalid display format."): refuted by a name that
\* EnableDisplay does not know.
FormatKnown == surface.buffer => surface.format < FormatCount

Bus == INSTANCE GuestBus

\* Whichever BAR an access comes through, and whether it goes straight to the memory or to
\* the system, it reaches the one address bound there.  Only narrow accesses are refused,
\* and only by a BAR that is not within the memory or was created before the system was
\* loaded; DMA takes what is at its address or puts there what it got.
OneAddressSpace == Bus!Spec
=============================================================================
