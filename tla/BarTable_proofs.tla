--------------------------- MODULE BarTable_proofs ---------------------------
(***************************************************************************)
(* Proofs about BarTable, for every number of registers and every set of   *)
(* vector counts.  The invariant of all of them is Inv: a register is      *)
(* computed from the widths of the BARs placed so far, so that it is free, *)
(* and exists, only because these are tiled.                               *)
(***************************************************************************)
EXTENDS BarTable, FiniteSetTheorems, TLAPS

Inv == TypeOK /\ SlotsTiled /\ PointersBound /\ VectorsKept

WideBars == { i \in DOMAIN bars : bars[i] }

-----------------------------------------------------------------------------
(* What the type invariant says of the BARs, and the first free register. *)

\* The BARs are finitely many, on registers that exist.
LEMMA BarsTyped ==
  ASSUME TypeOK
  PROVE  /\ DOMAIN bars \subseteq Slots
         /\ bars \in [DOMAIN bars -> BOOLEAN]
         /\ IsFiniteSet(DOMAIN bars)
         /\ IsFiniteSet(WideBars)
<1>1. PICK S \in SUBSET Slots : bars \in [S -> BOOLEAN]
  BY DEF TypeOK
<1>2. DOMAIN bars = S
  BY <1>1
<1>3. IsFiniteSet(Slots)
  BY NSlotsAssumption, FS_Interval DEF Slots
<1>4. IsFiniteSet(DOMAIN bars)
  BY <1>1, <1>2, <1>3, FS_Subset
<1>5. WideBars \subseteq DOMAIN bars
  BY DEF WideBars
<1>6. IsFiniteSet(WideBars)
  BY <1>4, <1>5, FS_Subset
<1> QED BY <1>1, <1>2, <1>4, <1>6

\* The next register is a natural number.
LEMMA NextBarNat == ASSUME TypeOK PROVE NextBar \in Nat
<1>1. Cardinality(DOMAIN bars) \in Nat /\ Cardinality(WideBars) \in Nat
  BY BarsTyped, FS_CardinalityType
<1> QED BY <1>1 DEF NextBar, WideBars

\* The registers in use are those below the next one, which is therefore free.
LEMMA NextBarFree ==
  ASSUME TypeOK, SlotsTiled
  PROVE  /\ NextBar \notin DOMAIN bars
         /\ \A i \in DOMAIN bars : Extent(i) \subseteq 0 .. NextBar - 1
<1>1. \A i \in DOMAIN bars : Extent(i) \subseteq 0 .. NextBar - 1
  BY DEF SlotsTiled
<1>2. \A i \in DOMAIN bars : i \in Extent(i)
  BY BarsTyped, NSlotsAssumption DEF Extent, Width, Slots
<1>3. NextBar \notin 0 .. NextBar - 1
  BY NextBarNat
<1> QED BY <1>1, <1>2, <1>3

\* Dropping the BARs makes register 0 the next one.
LEMMA NextBarReset == ASSUME bars' = NoBars PROVE NextBar' = 0
<1>1. DOMAIN bars' = {} /\ WideBars' = {}
  BY DEF NoBars, WideBars
<1>2. NextBar' = Cardinality(DOMAIN bars') + Cardinality(WideBars')
  BY DEF NextBar, WideBars
<1> QED BY <1>1, <1>2, FS_EmptySet

\* A step that places a BAR changes the table as follows.
LEMMA Placed ==
  ASSUME TypeOK, SlotsTiled,
         NEW wide \in BOOLEAN,
         CreateBAR(wide)
  PROVE  /\ NextBar \in Slots
         /\ DOMAIN bars' = DOMAIN bars \cup {NextBar}
         /\ \A i \in DOMAIN bars : bars'[i] = bars[i]
         /\ bars'[NextBar] = wide
         /\ NextBar' = NextBar + Width(wide)
<1>1. NextBar \in Slots
  BY NextBarNat, NSlotsAssumption DEF CreateBAR, Slots, Width
<1>2. DOMAIN bars' = DOMAIN bars \cup {NextBar}
  BY DEF CreateBAR
<1>3. \A i \in DOMAIN bars : bars'[i] = bars[i]
  BY NextBarFree DEF CreateBAR
<1>5. bars'[NextBar] = wide
  BY DEF CreateBAR
<1>6. WideBars' = IF wide THEN WideBars \cup {NextBar} ELSE WideBars
  BY <1>2, <1>3, <1>5, NextBarFree DEF WideBars
<1>7. NextBar \notin WideBars
  BY NextBarFree DEF WideBars
<1>8. Cardinality(DOMAIN bars') = Cardinality(DOMAIN bars) + 1
  BY <1>2, NextBarFree, BarsTyped, FS_AddElement
<1>9. Cardinality(WideBars') = Cardinality(WideBars) + Width(wide) - 1
  <2>1. Cardinality(WideBars) \in Nat
    BY BarsTyped, FS_CardinalityType
  <2>2. CASE wide
    <3>1. WideBars' = WideBars \cup {NextBar}
      BY <2>2, <1>6
    <3>2. Cardinality(WideBars \cup {NextBar}) = Cardinality(WideBars) + 1
      BY <1>7, BarsTyped, FS_AddElement
    <3>3. Width(wide) = 2
      BY <2>2 DEF Width
    <3> QED BY <2>1, <3>1, <3>2, <3>3
  <2>3. CASE ~wide
    BY <2>1, <2>3, <1>6 DEF Width
  <2> QED BY <2>2, <2>3
<1>10. /\ NextBar = Cardinality(DOMAIN bars) + Cardinality(WideBars)
       /\ NextBar' = Cardinality(DOMAIN bars') + Cardinality(WideBars')
  BY DEF NextBar, WideBars
<1>11. NextBar' = NextBar + Width(wide)
  <2>1. Cardinality(DOMAIN bars) \in Nat /\ Cardinality(WideBars) \in Nat /\ Width(wide) \in Nat
    BY BarsTyped, FS_CardinalityType DEF Width
  <2> QED BY <2>1, <1>8, <1>9, <1>10
<1> QED BY <1>1, <1>2, <1>3, <1>5, <1>11

-----------------------------------------------------------------------------
(* Inv holds initially and every call keeps it. *)

\* The conversion to eight bits keeps a count that fits and no other.
LEMMA StoredCountKeeps ==
  ASSUME NEW n \in Nat
  PROVE  /\ StoredCount(n) \in 0 .. CountSpan - 1
         /\ StoredCount(n) = n <=> n < CountSpan
<1>1. n % CountSpan \in 0 .. CountSpan - 1
  BY CountAssumption
<1>2. n < CountSpan => n % CountSpan = n
  BY CountAssumption
<1> QED BY <1>1, <1>2, CountAssumption DEF StoredCount

LEMMA InitInv == Init => Inv
<1> SUFFICES ASSUME Init PROVE Inv
  OBVIOUS
<1>1. DOMAIN bars = {} /\ bars \in [{} -> BOOLEAN] /\ NextBar = 0
  BY FS_EmptySet DEF Init, NoBars, NextBar
<1>2. TypeOK
  <2>1. bars \in UNION { [S -> BOOLEAN] : S \in SUBSET Slots }
    BY <1>1
  <2>2. interrupt \in [msix : BOOLEAN, count : 0 .. CountSpan - 1, iBar : Slots,
                       asked : Counts \cup {0}]
    BY NSlotsAssumption, CountAssumption DEF Init, Slots
  <2> QED BY <2>1, <2>2 DEF Init, NoPointers, TypeOK
<1>3. SlotsTiled
  BY <1>1, NSlotsAssumption DEF SlotsTiled
<1>4. PointersBound
  BY <1>1 DEF Init, NoPointers, PointersBound
<1>5. VectorsKept
  BY CountAssumption DEF Init, VectorsKept
<1> QED BY <1>2, <1>3, <1>4, <1>5 DEF Inv

\* A step that leaves the BARs alone leaves the tiling alone.
LEMMA SlotsTiledUnchanged ==
  ASSUME SlotsTiled, UNCHANGED bars PROVE SlotsTiled'
BY DEF SlotsTiled, NextBar, Extent

LEMMA CreateBARInv ==
  ASSUME Inv, NEW wide \in BOOLEAN,
         CreateBAR(wide)
  PROVE  Inv'
<1> USE DEF Inv
<1>1. TypeOK'
  <2>2. bars' \in [DOMAIN bars \cup {NextBar} -> BOOLEAN]
    BY BarsTyped DEF CreateBAR
  <2>3. DOMAIN bars \cup {NextBar} \in SUBSET Slots
    BY BarsTyped, Placed
  <2>4. pciBar' \in [Slots -> Slots \cup {NullBar}]
    BY Placed DEF CreateBAR, TypeOK
  <2> QED BY <2>2, <2>3, <2>4 DEF CreateBAR, TypeOK
<1>2. SlotsTiled'
  <2>1. NextBar' <= NSlots
    BY Placed DEF CreateBAR
  <2>2. PICK n : n = NextBar
    OBVIOUS
  <2>3. \A i \in DOMAIN bars : Extent(i)' = Extent(i)
    BY Placed DEF Extent
  <2>4. Extent(n)' = n .. n + Width(wide) - 1
    <3>1. bars'[n] = wide
      BY <2>2, Placed
    <3> QED BY <3>1 DEF Extent
  <2>5. DOMAIN bars' = DOMAIN bars \cup {n}
    BY <2>2, Placed
  <2>6. UNION { Extent(i) : i \in DOMAIN bars }' = 0 .. NextBar' - 1
    <3>1. UNION { Extent(i) : i \in DOMAIN bars }'
            = (UNION { Extent(i) : i \in DOMAIN bars }) \cup (n .. n + Width(wide) - 1)
      BY <2>3, <2>4, <2>5
    <3>2. (0 .. n - 1) \cup (n .. n + Width(wide) - 1) = 0 .. n + Width(wide) - 1
      BY <2>2, NextBarNat DEF Width
    <3>3. UNION { Extent(i) : i \in DOMAIN bars } = 0 .. n - 1
      BY <2>2 DEF SlotsTiled
    <3>4. NextBar' = n + Width(wide) /\ n \in Nat /\ Width(wide) \in Nat
      BY <2>2, Placed, NextBarNat DEF Width
    <3> QED BY <3>1, <3>2, <3>3, <3>4
  <2>7. ASSUME NEW i \in DOMAIN bars', NEW j \in DOMAIN bars', i # j
        PROVE  Extent(i)' \cap Extent(j)' = {}
    <3>1. \A k \in DOMAIN bars : Extent(k)' \cap Extent(n)' = {}
      <4>1. (0 .. n - 1) \cap (n .. n + Width(wide) - 1) = {}
        BY <2>2, NextBarNat DEF Width
      <4> QED BY <4>1, <2>2, <2>3, <2>4, NextBarFree
    <3>2. CASE i \in DOMAIN bars /\ j \in DOMAIN bars
      BY <2>3, <2>7, <3>2 DEF SlotsTiled
    <3>3. CASE i = n \/ j = n
      BY <2>5, <2>7, <3>1, <3>3
    <3> QED BY <2>5, <3>2, <3>3
  <2> QED BY <2>1, <2>6, <2>7 DEF SlotsTiled
<1>3. PointersBound'
  BY Placed DEF CreateBAR, PointersBound, TypeOK
<1>4. VectorsKept'
  BY DEF CreateBAR, VectorsKept
<1> QED BY <1>1, <1>2, <1>3, <1>4

LEMMA ResetBARsInv == ASSUME Inv, ResetBARs PROVE Inv'
<1> USE DEF Inv, ResetBARs
<1>1. bars' \in [{} -> BOOLEAN] /\ DOMAIN bars' = {}
  BY DEF NoBars
<1>2. TypeOK'
  <2>1. bars' \in UNION { [S -> BOOLEAN] : S \in SUBSET Slots }
    BY <1>1
  <2> QED BY <2>1 DEF TypeOK, NoPointers
<1>3. SlotsTiled'
  BY <1>1, NextBarReset, NSlotsAssumption DEF SlotsTiled
<1>4. PointersBound'
  BY <1>1 DEF PointersBound, NoPointers
<1>5. VectorsKept'
  BY DEF VectorsKept
<1> QED BY <1>2, <1>3, <1>4, <1>5

LEMMA NextInv == Inv /\ [Next]_vars => Inv'
<1> SUFFICES ASSUME Inv, [Next]_vars PROVE Inv'
  OBVIOUS
<1> USE DEF Inv
<1>1. ASSUME NEW wide \in BOOLEAN,
             CreateBAR(wide)
      PROVE  Inv'
  BY <1>1, CreateBARInv
<1>2. CASE ResetBARs
  BY <1>2, ResetBARsInv
<1>3. ASSUME NEW n \in Counts, EnableMSI(n) PROVE Inv'
  <2>1. StoredCount(n) \in 0 .. CountSpan - 1
    BY CountAssumption DEF StoredCount
  <2>2. TypeOK'
    BY <1>3, <2>1 DEF EnableMSI, TypeOK
  <2>3. VectorsKept'
    <3>1. n \in Nat
      BY <1>3, CountAssumption DEF EnableMSI
    <3>2. StoredCount(n) = n
      BY <1>3, <3>1, StoredCountKeeps, CountAssumption DEF EnableMSI
    <3>3. interrupt'.count = StoredCount(n) /\ interrupt'.asked = n /\ ~interrupt'.msix
      BY <1>3 DEF EnableMSI, TypeOK
    <3> QED BY <3>2, <3>3 DEF VectorsKept
  <2> QED BY <1>3, <2>2, <2>3, SlotsTiledUnchanged DEF EnableMSI, PointersBound
<1>4. ASSUME NEW n \in Counts, NEW iBar \in Slots, EnableMSIX(n, iBar) PROVE Inv'
  <2>1. StoredCount(n) \in 0 .. CountSpan - 1
    BY CountAssumption DEF StoredCount
  <2>2. TypeOK'
    BY <1>4, <2>1 DEF EnableMSIX, TypeOK
  <2>3. VectorsKept'
    <3>1. n \in Nat
      BY <1>4, CountAssumption DEF EnableMSIX
    <3>2. StoredCount(n) = n <=> n < CountSpan
      BY <3>1, StoredCountKeeps
    <3>3. interrupt'.count = StoredCount(n) /\ interrupt'.asked = n /\ interrupt'.msix
      BY <1>4 DEF EnableMSIX, TypeOK
    <3> QED BY <3>1, <3>2, <3>3, CountAssumption DEF VectorsKept
  <2> QED BY <1>4, <2>2, <2>3, SlotsTiledUnchanged DEF EnableMSIX, PointersBound
<1>6. CASE UNCHANGED vars
  BY <1>6, SlotsTiledUnchanged DEF vars, PointersBound, VectorsKept, TypeOK
<1> QED BY <1>1, <1>2, <1>3, <1>4, <1>6 DEF Next

-----------------------------------------------------------------------------
(* The theorems. *)

\* The invariant holds of every run of the setup script: the table is well typed (the
\* stored vector count always fits its uint8_t), the registers of the BARs tile, and
\* testdrive_param.pci.bar points to the BARs of m_BARs and to nothing else.
THEOREM InvHolds == Spec => []Inv
<1>1. Init => Inv
  BY InitInv
<1>2. Inv /\ [Next]_vars => Inv'
  BY NextInv
<1> QED BY <1>1, <1>2, PTL DEF Spec

\* The type invariant of the table.
THEOREM TypeCorrect == Spec => []TypeOK
<1>1. Inv => TypeOK
  BY DEF Inv
<1> QED BY <1>1, InvHolds, PTL

\* CreateBAR hands out registers without gap, overlap or overflow.
THEOREM TilingCorrect == Spec => []SlotsTiled
<1>1. Inv => SlotsTiled
  BY DEF Inv
<1> QED BY <1>1, InvHolds, PTL

\* testdrive_param.pci.bar and m_BARs agree.
THEOREM PointersCorrect == Spec => []PointersBound
<1>1. Inv => PointersBound
  BY DEF Inv
<1> QED BY <1>1, InvHolds, PTL

\* A device gets the vectors its script asked for, but for the MSI-X counts from 256 on,
\* each of which loses its upper bits.
THEOREM VectorsCorrect == Spec => []VectorsKept
<1>1. Inv => VectorsKept
  BY DEF Inv
<1> QED BY <1>1, InvHolds, PTL

\* The BAR of the MSI-X table is lost to CreateBAR(nil) only.
THEOREM MsixBarKept == Spec => MsixBarLostOnlyByReset
<1> DEFINE Kept == MsixBarPresent /\ DOMAIN bars' # {} => MsixBarPresent'
<1>1. Inv /\ [Next]_vars => [Kept]_vars
  <2> SUFFICES ASSUME Inv, Next, MsixBarPresent, DOMAIN bars' # {} PROVE MsixBarPresent'
    OBVIOUS
  <2>1. ASSUME NEW wide \in BOOLEAN,
               CreateBAR(wide)
        PROVE  MsixBarPresent'
    <3>1. NextBar \in Slots /\ NextBar # NullBar
      BY <2>1, Placed, NullBarAssumption DEF Inv, Slots
    <3>2. \A i \in Slots : pciBar[i] # NullBar => pciBar'[i] # NullBar
      BY <2>1, <3>1 DEF CreateBAR, Inv, TypeOK
    <3> QED BY <2>1, <3>2 DEF CreateBAR, MsixBarPresent, Inv, TypeOK
  <2>2. CASE ResetBARs
    BY <2>2 DEF ResetBARs, NoBars
  <2>3. ASSUME NEW n \in Counts, EnableMSI(n) PROVE MsixBarPresent'
    BY <2>3 DEF EnableMSI, MsixBarPresent, Inv, TypeOK
  <2>4. ASSUME NEW n \in Counts, NEW iBar \in Slots, EnableMSIX(n, iBar) PROVE MsixBarPresent'
    BY <2>4 DEF EnableMSIX, MsixBarPresent
  <2> QED BY <2>1, <2>2, <2>3, <2>4 DEF Next
<1> QED BY <1>1, InvHolds, PTL DEF Spec, MsixBarLostOnlyByReset

\* Every call is a step of the abstract layout, or none: BARs are placed on free
\* registers that exist and stay there until all are dropped.
THEOREM ImplementsLayout == Spec => LayoutRefined
<1> DEFINE Used == { Extent(i) : i \in DOMAIN bars }
<1>1. Init => Layout!Init
  BY DEF Init, NoBars, Layout!Init
<1>2. Inv /\ [Next]_vars => [Layout!Next]_Used
  <2> SUFFICES ASSUME Inv, [Next]_vars PROVE Layout!Next \/ Used' = Used
    OBVIOUS
  <2>1. ASSUME NEW wide \in BOOLEAN,
               CreateBAR(wide)
        PROVE  Layout!Next
    <3>1. PICK n : n = NextBar
      OBVIOUS
    <3>2. n \in Nat /\ n + Width(wide) <= NSlots
      BY <2>1, <3>1, NextBarNat DEF Inv, CreateBAR
    <3>3. DOMAIN bars' = DOMAIN bars \cup {n} /\ \A i \in DOMAIN bars : Extent(i)' = Extent(i)
      BY <2>1, <3>1, Placed DEF Inv, Extent
    <3>4. Extent(n)' = n .. n + Width(wide) - 1
      <4>1. bars'[n] = wide
        BY <2>1, <3>1, Placed DEF Inv
      <4> QED BY <4>1 DEF Extent
    <3>5. Extent(n)' \in Layout!Extents
      <4>1. n .. n + Width(wide) - 1 = IF wide THEN {n, n + 1} ELSE {n}
        <5>1. CASE wide
          BY <3>2, <5>1 DEF Width
        <5>2. CASE ~wide
          BY <3>2, <5>2 DEF Width
        <5> QED BY <5>1, <5>2
      <4> QED BY <3>2, <3>4, <4>1, NSlotsAssumption DEF Layout!Extents, Width
    <3>6. \A f \in Used : Extent(n)' \cap f = {}
      <4>1. (0 .. n - 1) \cap (n .. n + Width(wide) - 1) = {}
        BY <3>2 DEF Width
      <4> QED BY <4>1, <3>1, <3>4, NextBarFree DEF Inv
    <3>7. Used' = Used \cup {Extent(n)'}
      BY <3>3
    <3>8. Layout!Place(Extent(n)')
      BY <3>6, <3>7 DEF Layout!Place
    <3> QED BY <3>5, <3>8 DEF Layout!Next
  <2>2. CASE ResetBARs
    BY <2>2 DEF ResetBARs, NoBars, Layout!Next, Layout!Clear
  <2>3. ASSUME UNCHANGED bars PROVE Used' = Used
    BY <2>3 DEF Extent
  <2> QED BY <2>1, <2>2, <2>3 DEF Next, EnableMSI, EnableMSIX, vars
<1> QED BY <1>1, <1>2, InvHolds, PTL DEF Spec, LayoutRefined, Layout!Spec
=============================================================================
