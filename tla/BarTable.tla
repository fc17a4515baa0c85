------------------------------ MODULE BarTable -------------------------------
(***************************************************************************)
(* The PCI side of the setup script: TestDrive::CreateBAR, EnableMSI and   *)
(* EnableMSIX of src/testdrive_script.cpp, called in any order by the Lua  *)
(* script before the device is realized.                                   *)
(*                                                                         *)
(* One step is one call of the script that is accepted; a call the code    *)
(* rejects returns false and changes nothing, so its action is disabled.   *)
(* The vector count is kept in a field of CountSpan values as uint8_t      *)
(* does.  The sizes and addresses of a BAR are the subject of PciNumbers;  *)
(* its type and prefetchable bit, the per-vector mask and the offsets of   *)
(* the MSI-X table are only copied by these calls and are left out.        *)
(***************************************************************************)
EXTENDS Integers, FiniteSets

CONSTANTS
  NSlots,      \* entries of testdrive_param.pci.bar (6 in the code)
  NullBar,     \* a NULL entry of testdrive_param.pci.bar
  Counts,      \* iVectorCount arguments the script may give
  MsiLimit,    \* EnableMSI rejects counts from here (32 in the code)
  MsixLimit,   \* EnableMSIX rejects counts from here (2048 in the code)
  CountSpan    \* values of interrupt.vector_count, a uint8_t (256 in the code)

ASSUME NSlotsAssumption == NSlots \in Nat \ {0}

ASSUME NullBarAssumption == NullBar \notin 0 .. NSlots - 1

ASSUME CountAssumption ==
  /\ Counts \subseteq Int
  /\ MsiLimit \in Nat
  /\ MsixLimit \in Nat
  /\ CountSpan \in Nat \ {0}
  /\ MsiLimit <= CountSpan

VARIABLES
  bars,        \* m_BARs: from the register of a BAR to whether it is a 64-bit BAR
  pciBar,      \* testdrive_param.pci.bar: the key of the m_BARs entry pointed to
  interrupt    \* testdrive_param.pci.interrupt; asked is the count the script gave

vars == <<bars, pciBar, interrupt>>

Slots == 0 .. NSlots - 1

Width(wide) == IF wide THEN 2 ELSE 1

\* Mutant: every BAR counts for one register, as if none were 64-bit.
NextBarCountsEntries == Cardinality(DOMAIN bars)

\* The first free register: the sum over m_BARs of 2 for a 64-bit BAR and 1 for another.
NextBar == Cardinality(DOMAIN bars) + Cardinality({i \in DOMAIN bars : bars[i]})

\* Mutant: a field wide enough for every count.
WideCount(n) == n

\* vector_count = iVectorCount: the conversion to uint8_t.
StoredCount(n) == n % CountSpan

NoBars == [i \in {} |-> FALSE]
NoPointers == [i \in Slots |-> NullBar]

-----------------------------------------------------------------------------
(* The calls. *)

CreateBAR(wide) ==
  /\ NextBar + Width(wide) <= NSlots
  /\ bars' = [i \in DOMAIN bars \cup {NextBar} |-> IF i = NextBar THEN wide ELSE bars[i]]
  /\ pciBar' = [pciBar EXCEPT ![NextBar] = NextBar]
  /\ UNCHANGED interrupt

\* Mutant: m_BARs is cleared and testdrive_param is not.
ResetKeepsPointers ==
  /\ bars' = NoBars
  /\ UNCHANGED <<pciBar, interrupt>>

\* CreateBAR(nil): every BAR is dropped, the interrupt settings are not.
ResetBARs ==
  /\ bars' = NoBars
  /\ pciBar' = NoPointers
  /\ UNCHANGED interrupt

\* Mutant: only the upper end of the range is tested.
EnableMSIBelowLimit(n) ==
  /\ n < MsiLimit
  /\ interrupt' = [interrupt EXCEPT !.msix = FALSE, !.count = StoredCount(n), !.asked = n]
  /\ UNCHANGED <<bars, pciBar>>

EnableMSI(n) ==
  /\ n >= 0 /\ n < MsiLimit
  /\ interrupt' = [interrupt EXCEPT !.msix = FALSE, !.count = StoredCount(n), !.asked = n]
  /\ UNCHANGED <<bars, pciBar>>

\* Mutant: the BAR is not looked up.
EnableMSIXAnywhere(n, iBar) ==
  /\ n >= 0 /\ n < MsixLimit
  /\ interrupt' = [msix |-> TRUE, count |-> StoredCount(n), iBar |-> iBar, asked |-> n]
  /\ UNCHANGED <<bars, pciBar>>

EnableMSIX(n, iBar) ==
  /\ pciBar[iBar] # NullBar
  /\ n >= 0 /\ n < MsixLimit
  /\ interrupt' = [msix |-> TRUE, count |-> StoredCount(n), iBar |-> iBar, asked |-> n]
  /\ UNCHANGED <<bars, pciBar>>

\* testdrive_param is zero until the script runs.
Init ==
  /\ bars = NoBars
  /\ pciBar = NoPointers
  /\ interrupt = [msix |-> FALSE, count |-> 0, iBar |-> 0, asked |-> 0]

Next ==
  \/ \E wide \in BOOLEAN : CreateBAR(wide)
  \/ ResetBARs
  \/ \E n \in Counts : EnableMSI(n)
  \/ \E n \in Counts, iBar \in Slots : EnableMSIX(n, iBar)

Spec == Init /\ [][Next]_vars

-----------------------------------------------------------------------------
(* Properties. *)

\* Type invariant; the stored vector count fits its field.
TypeOK ==
  /\ bars \in UNION { [S -> BOOLEAN] : S \in SUBSET Slots }
  /\ pciBar \in [Slots -> Slots \cup {NullBar}]
  /\ interrupt \in [msix : BOOLEAN, count : 0 .. CountSpan - 1, iBar : Slots,
                    asked : Counts \cup {0}]

\* The registers of the BAR placed at i.
Extent(i) == i .. i + Width(bars[i]) - 1

\* Registers are handed out without gap, overlap or overflow: the BARs placed so far
\* occupy exactly the registers below the next free one, each register once, and all of
\* them exist.  CreateBAR computes a BAR's register from the widths of the others, and
\* bar_id indexes testdrive_param.pci.bar with no further check.
SlotsTiled ==
  /\ NextBar <= NSlots
  /\ UNION { Extent(i) : i \in DOMAIN bars } = 0 .. NextBar - 1
  /\ \A i, j \in DOMAIN bars : i # j => Extent(i) \cap Extent(j) = {}

\* testdrive_param.pci.bar and m_BARs agree: an entry points to the BAR of its own
\* index, and it is NULL exactly where no BAR starts (the upper half of a 64-bit BAR
\* included).  device_realize and EnableMSIX read the former, CreateBAR the latter.
PointersBound ==
  \A i \in Slots : pciBar[i] = IF i \in DOMAIN bars THEN i ELSE NullBar

\* A device gets the number of vectors its script asked for but in one case: a count from
\* CountSpan on (256 in the code), which EnableMSIX accepts, for it tests the int against
\* 2048, and whose upper bits the uint8_t loses: 256 vectors become none and 257 become
\* one.  The calls before, accepted or refused, leave nothing behind of another count.
VectorsKept ==
  interrupt.count # interrupt.asked <=> interrupt.msix /\ interrupt.asked >= CountSpan

Layout == INSTANCE BarLayout WITH layout <- { Extent(i) : i \in DOMAIN bars }

\* The calls implement the abstract layout: a BAR is placed on free registers only and
\* never moves or grows until CreateBAR(nil) drops them all.
LayoutRefined == Layout!Spec

\* The BAR that holds the MSI-X table exists; CreateBAR(nil) after EnableMSIX breaks this.
MsixBarPresent == interrupt.msix => pciBar[interrupt.iBar] # NullBar

\* Nothing but CreateBAR(nil) takes the BAR away from under the MSI-X table: enabling it
\* again, switching to MSI and back, or creating BARs cannot.
MsixBarLostOnlyByReset ==
  [][MsixBarPresent /\ DOMAIN bars' # {} => MsixBarPresent']_vars
=============================================================================
