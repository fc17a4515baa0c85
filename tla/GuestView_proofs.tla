-------------------------- MODULE GuestView_proofs ---------------------------
(***************************************************************************)
(* Proofs about GuestView, for any address space, memory, BARs below its   *)
(* top and any settings of the display.  The arithmetic of addresses comes *)
(* first: a lane is reached through one place of an access only, and the   *)
(* test of CreateBAR, which compares ends modulo the span, is exact.       *)
(***************************************************************************)
EXTENDS GuestView, TLAPS

-----------------------------------------------------------------------------
(* Addresses. *)

LEMMA Below == ASSUME NEW x \in Int, 0 <= x, x < Span PROVE x % Span = x
BY SpanAssumption

LEMMA Above == ASSUME NEW x \in Int, Span <= x, x < 2 * Span PROVE x % Span = x - Span
BY SpanAssumption

LEMMA Negative == ASSUME NEW x \in Int, -Span <= x, x < 0 PROVE x % Span = x + Span
BY SpanAssumption

LEMMA InLanes == ASSUME NEW x \in Int PROVE x % Span \in Lanes
BY SpanAssumption DEF Lanes

\* An access within a window starts at an address of the space, the same on both paths.
LEMMA AccessAddress ==
  ASSUME NEW w \in Bars, NEW off \in 0 .. w.size - 1
  PROVE /\ w.bind + off \in Lanes /\ off \in Lanes
        /\ BusAddress(w, off) = w.bind + off
<1>1. w.bind \in Nat /\ w.size \in Nat /\ w.bind + w.size < Span /\ Span \in Nat
  BY WindowsAssumption, SpanAssumption DEF Bars, Bar
<1>2. off + w.bind \in Int /\ 0 <= off + w.bind /\ off + w.bind < Span
  BY <1>1
<1>3. (off + w.bind) % Span = off + w.bind
  BY <1>2, Below
<1> QED BY <1>1, <1>2, <1>3 DEF Lanes, BusAddress

\* The test of CreateBAR is exact for the windows considered.
LEMMA DirectExact == ASSUME NEW w \in Windows PROVE Direct(w) <=> system /\ Bus!Within(w)
<1>1. /\ w.bind \in Nat /\ w.size \in Nat /\ w.bind + w.size < Span
      /\ Memory.base \in Nat /\ Memory.size \in Nat /\ Memory.base + Memory.size < Span
  BY WindowsAssumption
<1>2. (w.bind + w.size) % Span = w.bind + w.size
  BY <1>1, Below
<1>3. (Memory.base + Memory.size) % Span = Memory.base + Memory.size
  BY <1>1, Below
<1> QED BY <1>2, <1>3 DEF Direct, Bus!Within

\* Lane b is lane (b - a) % Span of an access at address a, and no other one.
LEMMA Place ==
  ASSUME NEW a \in Lanes, NEW b \in Lanes, NEW i \in Lanes
  PROVE b = (a + i) % Span <=> (b - a) % Span = i
<1>1. Span \in Nat /\ a \in 0 .. Span - 1 /\ b \in 0 .. Span - 1 /\ i \in 0 .. Span - 1
  BY SpanAssumption DEF Lanes
<1>2. (a + i) % Span = IF a + i < Span THEN a + i ELSE a + i - Span
  BY <1>1, Below, Above
<1>3. (b - a) % Span = IF b >= a THEN b - a ELSE b - a + Span
  BY <1>1, Below, Negative
<1> QED BY <1>1, <1>2, <1>3

\* What Put does: the lanes of the access take the data, the others stay.
LEMMA PutPuts ==
  ASSUME cells \in [Lanes -> Values], NEW a \in Lanes, NEW n \in 1 .. Word, NEW v \in Pieces(n)
  PROVE /\ Put(a, n, v) \in [Lanes -> Values]
        /\ \A i \in 0 .. n - 1 : Put(a, n, v)[(a + i) % Span] = v[i]
        /\ \A b \in Lanes :
             (\A i \in 0 .. n - 1 : b # (a + i) % Span) => Put(a, n, v)[b] = cells[b]
<1>1. a \in Int /\ n \in 1 .. 2 /\ 0 .. n - 1 \subseteq Lanes /\ Lanes \subseteq Int
  BY SpanAssumption DEF Lanes, Word
<1>2. \A b \in Lanes : (b - a) % Span \in Lanes
  BY <1>1, InLanes
<1>3. \A b \in Lanes : (b - a) % Span < n => (b - a) % Span \in 0 .. n - 1
  BY <1>1, <1>2 DEF Lanes
<1>4. Put(a, n, v) \in [Lanes -> Values]
  BY <1>3 DEF Put, Pieces
<1>5. ASSUME NEW i \in 0 .. n - 1 PROVE Put(a, n, v)[(a + i) % Span] = v[i]
  <2>1. (a + i) % Span \in Lanes
    BY <1>1, InLanes
  <2>2. (((a + i) % Span) - a) % Span = i
    BY <1>1, <2>1, Place
  <2> QED BY <2>1, <2>2 DEF Put
<1>6. ASSUME NEW b \in Lanes, \A i \in 0 .. n - 1 : b # (a + i) % Span
      PROVE Put(a, n, v)[b] = cells[b]
  <2>1. ~((b - a) % Span < n)
    BY <1>2, <1>3, <1>6, Place
  <2> QED BY <2>1 DEF Put
<1> QED BY <1>4, <1>5, <1>6

LEMMA HeldTyped ==
  ASSUME cells \in [Lanes -> Values], NEW a \in Int, NEW n \in 1 .. Word
  PROVE Held(a, n) \in Pieces(n)
BY InLanes DEF Held, Pieces, Word

-----------------------------------------------------------------------------
(* Types. *)

\* What a read returns is typed.
LEMMA UnansweredTyped == ASSUME NEW n \in Nat PROVE Unanswered(n) \in Pieces(n)
BY ValuesAssumption DEF Unanswered, Pieces

\* An access of the guest goes through a BAR there is, and either takes or puts the data at
\* its address, with a system or the memory of one behind it, or is not answered.
Answered(w, off, n) ==
  /\ w.direct \/ system
  /\ \/ call' = Request("read", w, off, Held(w.bind + off, n)) /\ cells' = cells
     \/ \E v \in Pieces(n) : call' = Request("write", w, off, v) /\ cells' = Put(w.bind + off, n, v)

Refused(w, off, n) ==
  /\ ~w.direct /\ (system => n < Word)
  /\ cells' = cells
  /\ \/ call' = Request("read", w, off, Unanswered(n))
     \/ \E v \in Pieces(n) : call' = Request("write", w, off, v)

LEMMA GuestSteps ==
  ASSUME TypeOK, Guest
  PROVE  /\ UNCHANGED <<table, screen>>
         /\ \E w \in bars : \E off \in 0 .. w.size - 1 : \E n \in 1 .. Word :
              Answered(w, off, n) \/ Refused(w, off, n)
<1>1. PICK w \in bars : \E off \in 0 .. w.size - 1 : \E n \in 1 .. Word :
        /\ Passed(w, off, n)
        /\ \/ ReadMemory(w, off, n) \/ ReadSlave(w, off, n) \/ ReadInvalid(w, off, n)
           \/ \E v \in Pieces(n) : \/ WriteMemory(w, off, n, v) \/ WriteSlave(w, off, n, v)
                                   \/ WriteInvalid(w, off, n, v)
  BY DEF Guest
<1>2. PICK off \in 0 .. w.size - 1, n \in 1 .. Word :
        \/ ReadMemory(w, off, n) \/ ReadSlave(w, off, n) \/ ReadInvalid(w, off, n)
        \/ \E v \in Pieces(n) : \/ WriteMemory(w, off, n, v) \/ WriteSlave(w, off, n, v)
                                \/ WriteInvalid(w, off, n, v)
  BY <1>1
<1>3. w \in Bars
  BY DEF TypeOK
<1>4. BusAddress(w, off) = w.bind + off
  BY <1>3, AccessAddress
<1>5. CASE ReadMemory(w, off, n)
  BY <1>5 DEF ReadMemory, Answered
<1>6. CASE ReadSlave(w, off, n)
  BY <1>4, <1>6 DEF ReadSlave, Answered, Refused
<1>7. CASE ReadInvalid(w, off, n)
  BY <1>7 DEF ReadInvalid, Refused
<1>8. ASSUME NEW v \in Pieces(n), WriteMemory(w, off, n, v)
      PROVE  UNCHANGED <<table, screen>> /\ Answered(w, off, n)
  BY <1>8 DEF WriteMemory, Answered
<1>9. ASSUME NEW v \in Pieces(n), WriteSlave(w, off, n, v)
      PROVE  UNCHANGED <<table, screen>> /\ (Answered(w, off, n) \/ Refused(w, off, n))
  BY <1>4, <1>9 DEF WriteSlave, Answered, Refused
<1>10. ASSUME NEW v \in Pieces(n), WriteInvalid(w, off, n, v)
       PROVE  UNCHANGED <<table, screen>> /\ Refused(w, off, n)
  BY <1>10 DEF WriteInvalid, Refused
<1> QED BY <1>2, <1>5, <1>6, <1>7, <1>8, <1>9, <1>10

\* A transfer or a change of the system needs one.
LEMMA SystemSteps == ASSUME System PROVE system /\ UNCHANGED <<table, screen>>
BY DEF System, Draw, DmaWrite, DmaRead

\* Every step of the guest or the system asks for a request that is well typed.
LEMMA DataTyped ==
  ASSUME TypeOK, Guest \/ System
  PROVE /\ cells' \in [Lanes -> Values]
        /\ call'.window \in Bars \cup {Whole} /\ call'.off \in Lanes
        /\ call'.op = "none" \/ \E n \in 1 .. Word : call'.data \in Pieces(n)
        /\ UNCHANGED <<table, screen>>
<1> USE DEF Request
<1>0. cells \in [Lanes -> Values] /\ bars \subseteq Bars
  BY DEF TypeOK
<1>1. CASE Guest
  <2>0. PICK w \in bars : \E off \in 0 .. w.size - 1 : \E n \in 1 .. Word :
          Answered(w, off, n) \/ Refused(w, off, n)
    BY <1>1, GuestSteps
  <2>1. PICK off \in 0 .. w.size - 1, n \in 1 .. Word :
          Answered(w, off, n) \/ Refused(w, off, n)
    BY <2>0
  <2>2. UNCHANGED <<table, screen>>
    BY <1>1, GuestSteps
  <2>3. w \in Bars /\ w.bind + off \in Lanes /\ off \in Lanes /\ Lanes \subseteq Int /\ n \in Nat
    BY <1>0, AccessAddress DEF Lanes
  <2>4. CASE Answered(w, off, n)
    <3>1. Held(w.bind + off, n) \in Pieces(n)
      BY <1>0, <2>3, HeldTyped
    <3>2. ASSUME NEW v \in Pieces(n) PROVE Put(w.bind + off, n, v) \in [Lanes -> Values]
      BY <1>0, <2>3, PutPuts
    <3> QED BY <1>0, <2>2, <2>3, <2>4, <3>1, <3>2 DEF Answered
  <2>5. CASE Refused(w, off, n)
    <3>1. Unanswered(n) \in Pieces(n)
      BY <2>3, UnansweredTyped
    <3> QED BY <1>0, <2>2, <2>3, <2>5, <3>1 DEF Refused
  <2> QED BY <2>1, <2>4, <2>5
<1>2. CASE System
  <2>1. UNCHANGED <<table, screen>>
    BY <1>2, SystemSteps
  <2>2. CASE Draw
    BY <2>1, <2>2 DEF Draw, TypeOK
  <2>3. Word \in 1 .. Word /\ \A a \in Lanes : Held(a, Word) \in Pieces(Word)
    BY <1>0, HeldTyped DEF Word, Lanes
  <2>4. ASSUME NEW a \in Lanes, DmaWrite(a)
        PROVE  /\ cells' = cells /\ call'.window = Whole /\ call'.off = a
               /\ call'.data = Held(a, Word)
    BY <2>4 DEF DmaWrite
  <2>5. ASSUME NEW a \in Lanes, NEW v \in Pieces(Word), DmaRead(a, v)
        PROVE  /\ cells' \in [Lanes -> Values] /\ call'.window = Whole /\ call'.off = a
               /\ call'.data = v
    <3>1. Put(a, Word, v) \in [Lanes -> Values]
      BY <1>0, <2>3, PutPuts
    <3> QED BY <2>5, <3>1 DEF DmaRead
  <2> QED BY <1>0, <1>2, <2>1, <2>2, <2>3, <2>4, <2>5 DEF System
<1> QED BY <1>1, <1>2

\* The setup script loads a system and makes BARs; nothing else changes.
LEMMA ScriptTyped ==
  ASSUME TypeOK, LoadSystem \/ ResetBARs \/ \E w \in Windows : CreateBAR(w)
  PROVE  system' \in BOOLEAN /\ bars' \subseteq Bars /\ UNCHANGED <<screen, cells, call>>
<1>1. CASE LoadSystem \/ ResetBARs
  BY <1>1 DEF LoadSystem, ResetBARs, TypeOK
<1>2. ASSUME NEW w \in Windows, CreateBAR(w)
      PROVE  system' \in BOOLEAN /\ bars' \subseteq Bars /\ UNCHANGED <<screen, cells, call>>
  <2>1. Direct(w) \in BOOLEAN
    BY DEF Direct
  <2>2. Bar(w, Direct(w)) \in Bars
    BY <2>1 DEF Bars
  <2> QED BY <1>2, <2>2 DEF CreateBAR, TypeOK
<1> QED BY <1>1, <1>2

LEMMA FieldTyped ==
  /\ \A n \in Int : Field(n) \in 0 .. FieldSpan - 1
  /\ \A f \in Int : FormatField(f) \in 0 .. ByteSpan - 1
  /\ NoDisplay \in Displays
BY DisplayAssumption DEF Field, FormatField, NoDisplay, Displays

LEMMA ScreenTyped ==
  ASSUME TypeOK,
         \/ \E w \in Widths, h \in Heights, f \in Formats : EnableDisplay(w, h, f)
         \/ DisableDisplay \/ Realize \/ Refresh
  PROVE  /\ stage' \in {"script", "running"}
         /\ display' \in Displays /\ surface' \in Displays /\ copied' \in Nat
         /\ UNCHANGED <<table, cells, call>>
<1>1. ASSUME NEW w \in Widths, NEW h \in Heights, NEW f \in Formats, EnableDisplay(w, h, f)
      PROVE  display' \in Displays
  <2>1. w \in Int /\ h \in Int /\ f \in Int /\ FieldSpan \in Nat
    BY DisplayAssumption
  <2>2. Stride(Field(w), f) \in 0 .. FieldSpan - 1
    BY <2>1, FieldTyped DEF Stride
  <2> QED BY <1>1, <2>1, <2>2, FieldTyped DEF EnableDisplay, Displays
<1>2. CASE \E w \in Widths, h \in Heights, f \in Formats : EnableDisplay(w, h, f)
  BY <1>1, <1>2 DEF EnableDisplay, TypeOK
<1>3. CASE DisableDisplay \/ Realize
  BY <1>3, FieldTyped DEF DisableDisplay, Realize, TypeOK
<1>4. CASE Refresh
  <2>1. surface.width \in Nat /\ surface.height \in Nat
    BY DEF TypeOK, Displays
  <2>2. surface.width * surface.height * 4 \in Nat
    BY <2>1
  <2> QED BY <1>4, <2>2 DEF Refresh, TypeOK, Displays
<1> QED BY <1>2, <1>3, <1>4

\* The type invariant, for any BARs below the top and any arguments of EnableDisplay.
THEOREM TypeCorrect == Spec => []TypeOK
<1>1. Init => TypeOK
  <2>1. 0 \in Lanes
    BY SpanAssumption DEF Lanes
  <2> SUFFICES ASSUME Init PROVE TypeOK
    OBVIOUS
  <2>2. call.op = "none" /\ call.window = Whole /\ call.off = 0
    BY DEF Init, Request
  <2>3. bars \subseteq Bars /\ system \in BOOLEAN /\ cells \in [Lanes -> Values]
    BY DEF Init
  <2>4. display \in Displays /\ surface \in Displays /\ copied \in Nat /\ stage = "script"
    BY FieldTyped DEF Init
  <2> QED BY <2>1, <2>2, <2>3, <2>4 DEF TypeOK
<1>2. TypeOK /\ [Next]_vars => TypeOK'
  <2> SUFFICES ASSUME TypeOK, [Next]_vars PROVE TypeOK'
    OBVIOUS
  <2>1. CASE Guest \/ System
    BY <2>1, DataTyped DEF TypeOK, screen, table
  <2>2. CASE \/ \E w \in Widths, h \in Heights, f \in Formats : EnableDisplay(w, h, f)
             \/ DisableDisplay \/ Realize \/ Refresh
    BY <2>2, ScreenTyped DEF TypeOK, table
  <2>3. CASE LoadSystem \/ ResetBARs \/ \E w \in Windows : CreateBAR(w)
    BY <2>3, ScriptTyped DEF TypeOK, screen
  <2>4. CASE UNCHANGED vars
    BY <2>4 DEF TypeOK, vars, screen, table
  <2> QED BY <2>1, <2>2, <2>3, <2>4 DEF Next
<1> QED BY <1>1, <1>2, PTL DEF Spec

-----------------------------------------------------------------------------
(* The display. *)

\* What the settings and the surface are at any time: a width in its field has the stride
\* of four bytes for each pixel, as long as that fits; the copy is the last one.
Strides ==
  /\ \A d \in {display, surface} : d.width * 4 < FieldSpan => d.stride = d.width * 4
  /\ stage = "script" => surface = NoDisplay
  /\ copied \in {0, surface.width * surface.height * 4}
  /\ stage = "running" /\ surface.buffer =>
       display.width = surface.width /\ display.height = surface.height

LEMMA StridesStep == TypeOK /\ Strides /\ [Next]_vars => Strides'
<1> SUFFICES ASSUME TypeOK, Strides, [Next]_vars PROVE Strides'
  OBVIOUS
<1>1. CASE Guest \/ System \/ LoadSystem \/ ResetBARs \/ \E w \in Windows : CreateBAR(w)
  <2>1. UNCHANGED screen
    BY <1>1, DataTyped, ScriptTyped
  <2> QED BY <2>1 DEF Strides, screen
<1>2. ASSUME NEW w \in Widths, NEW h \in Heights, NEW f \in Formats, EnableDisplay(w, h, f)
      PROVE  Strides'
  <2>1. Field(w) \in Nat /\ FieldSpan \in Nat \ {0}
    BY FieldTyped, DisplayAssumption
  <2>2. Field(w) * 4 < FieldSpan => Field(Field(w) * 4) = Field(w) * 4
    <3>1. ASSUME NEW x \in Nat, x < FieldSpan PROVE x % FieldSpan = x
      BY <2>1, <3>1
    <3> QED BY <2>1, <3>1 DEF Field
  <2>3. NoDisplay.width * 4 < FieldSpan => NoDisplay.stride = NoDisplay.width * 4
    BY DEF NoDisplay
  <2>4. display'.width * 4 < FieldSpan => display'.stride = display'.width * 4
    BY <1>2, <2>2, <2>3 DEF EnableDisplay, Stride
  <2> QED BY <1>2, <2>4 DEF EnableDisplay, Strides
<1>3. CASE DisableDisplay
  BY <1>3 DEF DisableDisplay, Strides, NoDisplay
<1>4. CASE Realize
  <2>1. copied = 0
    BY <1>4 DEF Realize, Strides, NoDisplay
  <2> QED BY <1>4, <2>1 DEF Realize, Strides, NoDisplay
<1>5. CASE Refresh
  BY <1>5 DEF Refresh, Strides, TypeOK, Displays
<1>6. CASE UNCHANGED vars
  BY <1>6 DEF Strides, vars, screen
<1> QED BY <1>1, <1>2, <1>3, <1>4, <1>5, <1>6 DEF Next

\* A refresh copies within the surface, whatever display the script asked for, as long as
\* four bytes for each pixel of a line fit the field of the stride.
THEOREM CopyCorrect == Spec => []CopyFits
<1>1. Init => Strides
  BY DEF Init, Strides, NoDisplay
<1>2. TypeOK /\ Strides => CopyFits
  <2> SUFFICES ASSUME TypeOK, Strides, surface.width * 4 < FieldSpan
               PROVE  copied <= surface.stride * surface.height
    BY DEF CopyFits
  <2>1. surface.width \in Nat /\ surface.height \in Nat /\ surface.stride = surface.width * 4
    BY DEF TypeOK, Displays, Strides
  <2>2. \A x, y \in Nat : x * y * 4 = (x * 4) * y /\ x * y * 4 >= 0
    OBVIOUS
  <2> QED BY <2>1, <2>2 DEF Strides
<1> QED BY <1>1, <1>2, StridesStep, TypeCorrect, PTL DEF Spec

-----------------------------------------------------------------------------
(* One address space. *)

\* A request whose data is what the lanes from its address hold is taken.
LEMMA TakeServed ==
  ASSUME NEW a \in Lanes, NEW n \in 1 .. Word, call'.window.bind + call'.off = a,
         call'.op \in {"read", "to guest"}, call'.data = Held(a, n), cells' = cells, system
  PROVE  Bus!Take(call')
<1>1. \A i : Bus!Lane(call', i) = (a + i) % Span
  BY DEF Bus!Lane
<1>2. DOMAIN Held(a, n) = 0 .. n - 1
      /\ \A i \in 0 .. n - 1 : Held(a, n)[i] = cells[(a + i) % Span]
  BY DEF Held
<1> QED BY <1>1, <1>2 DEF Bus!Take

\* A request that puts its data in the lanes from its address is put.
LEMMA PutServed ==
  ASSUME cells \in [Lanes -> Values], NEW a \in Lanes, NEW n \in 1 .. Word,
         call'.window.bind + call'.off = a, call'.op \in {"write", "from guest"},
         NEW v \in Pieces(n), call'.data = v, cells' = Put(a, n, v), system
  PROVE  Bus!Put(call')
<1>1. \A i : Bus!Lane(call', i) = (a + i) % Span
  BY DEF Bus!Lane
<1>2. DOMAIN v = 0 .. n - 1
  BY DEF Pieces
<1>3. Bus!Lanes = Lanes
  BY DEF Bus!Lanes, Lanes
<1>4. /\ cells' \in [Lanes -> Values]
      /\ \A i \in 0 .. n - 1 : cells'[(a + i) % Span] = v[i]
      /\ \A b \in Lanes : (\A i \in 0 .. n - 1 : b # (a + i) % Span) => cells'[b] = cells[b]
  BY PutPuts
<1>5. \A i \in DOMAIN call'.data : cells'[Bus!Lane(call', i)] = call'.data[i]
  BY <1>1, <1>2, <1>4
<1>6. ASSUME NEW b \in Bus!Lanes, \A i \in DOMAIN call'.data : b # Bus!Lane(call', i)
      PROVE  cells'[b] = cells[b]
  <2>1. call'.data = v /\ b \in Lanes
    BY <1>3
  <2>2. \A i \in 0 .. n - 1 : b # (a + i) % Span
    BY <1>1, <1>2, <1>6, <2>1
  <2> QED BY <1>4, <2>1, <2>2
<1> QED BY <1>3, <1>4, <1>5, <1>6 DEF Bus!Put

\* A BAR that has direct access has it from a system that is still there: a load is only
\* made while no BAR has it.
DirectLoaded == \A w \in bars : w.direct => system

LEMMA DirectStep == TypeOK /\ DirectLoaded /\ [Next]_vars => DirectLoaded'
<1> SUFFICES ASSUME TypeOK, DirectLoaded, [Next]_vars PROVE DirectLoaded'
  OBVIOUS
<1>1. CASE LoadSystem \/ ResetBARs
  BY <1>1 DEF LoadSystem, ResetBARs, DirectLoaded
<1>2. ASSUME NEW w \in Windows, CreateBAR(w) PROVE DirectLoaded'
  <2>1. Bar(w, Direct(w)).direct => system
    BY DEF Bar, Direct
  <2> QED BY <1>2, <2>1 DEF CreateBAR, DirectLoaded
<1>3. CASE UNCHANGED table
  BY <1>3 DEF table, DirectLoaded
<1>4. CASE UNCHANGED vars
  BY <1>3, <1>4 DEF vars
<1> QED BY <1>1, <1>2, <1>3, <1>4, DataTyped, ScreenTyped DEF Next

LEMMA GuestServed == ASSUME TypeOK, DirectLoaded, Guest PROVE Bus!Next
<1>0. cells \in [Lanes -> Values]
  BY DEF TypeOK
<1> PICK w \in bars : \E off \in 0 .. w.size - 1 : \E n \in 1 .. Word :
        Answered(w, off, n) \/ Refused(w, off, n)
  BY GuestSteps
<1>1. PICK off \in 0 .. w.size - 1, n \in 1 .. Word :
        Answered(w, off, n) \/ Refused(w, off, n)
  OBVIOUS
<1>2. UNCHANGED <<system, bars>>
  BY GuestSteps DEF table
<1>3. w.bind + off \in Lanes /\ off \in Lanes /\ Lanes \subseteq Int /\ n \in Nat
  BY AccessAddress DEF Lanes, TypeOK
<1>4. ASSUME NEW op \in {"read", "write"}, NEW v \in Pieces(n), call' = Request(op, w, off, v)
      PROVE  /\ call' \in Bus!Requests
             /\ call'.op = op /\ call'.data = v /\ call'.window = w
             /\ call'.window.bind + call'.off = w.bind + off
  <2>1. v \in Bus!Pieces
    BY DEF Bus!Pieces, Pieces
  <2> QED BY <1>3, <1>4, <2>1 DEF Bus!Requests, Request, Bus!Lanes, Lanes
<1>5. CASE Answered(w, off, n)
  <2>1. system
    BY <1>5 DEF Answered, DirectLoaded
  <2>2. Held(w.bind + off, n) \in Pieces(n)
    BY <1>0, <1>3, HeldTyped
  <2>3. CASE call' = Request("read", w, off, Held(w.bind + off, n)) /\ cells' = cells
    <3>1. Bus!Take(call')
      BY <1>0, <1>3, <1>4, <2>1, <2>2, <2>3, TakeServed
    <3> QED BY <1>2, <1>4, <2>2, <2>3, <3>1 DEF Bus!Next, Bus!Answer
  <2>4. ASSUME NEW v \in Pieces(n), call' = Request("write", w, off, v),
               cells' = Put(w.bind + off, n, v)
        PROVE  Bus!Next
    <3>1. Bus!Put(call')
      BY <1>0, <1>3, <1>4, <2>1, <2>4, PutServed
    <3> QED BY <1>2, <1>4, <2>4, <3>1 DEF Bus!Next, Bus!Answer
  <2> QED BY <1>5, <2>3, <2>4 DEF Answered
<1>6. CASE Refused(w, off, n)
  <2>1. ASSUME NEW v \in Pieces(n) PROVE system => v \notin Bus!Words
    <3>1. n < Word => 0 .. n - 1 # 0 .. Word - 1
      BY <1>3 DEF Word
    <3> QED BY <1>6, <3>1 DEF Pieces, Bus!Words, Refused
  <2>2. CASE call' = Request("read", w, off, Unanswered(n))
    <3>1. Unanswered(n) \in Pieces(n) /\ \A i \in DOMAIN Unanswered(n) : Unanswered(n)[i] = Ones
      BY <1>3, UnansweredTyped DEF Unanswered
    <3>2. Bus!Refuse(call')
      BY <1>4, <1>6, <2>1, <2>2, <3>1 DEF Bus!Refuse, Refused
    <3> QED BY <1>2, <1>4, <2>2, <3>1, <3>2 DEF Bus!Next, Bus!Answer
  <2>3. ASSUME NEW v \in Pieces(n), call' = Request("write", w, off, v)
        PROVE  Bus!Next
    <3>1. Bus!Refuse(call')
      BY <1>4, <1>6, <2>1, <2>3 DEF Bus!Refuse, Refused
    <3> QED BY <1>2, <1>4, <2>3, <3>1 DEF Bus!Next, Bus!Answer
  <2> QED BY <1>6, <2>2, <2>3 DEF Refused
<1> QED BY <1>1, <1>5, <1>6

LEMMA SystemServed == ASSUME TypeOK, System PROVE Bus!Next
<1>0. cells \in [Lanes -> Values] /\ Word \in 1 .. Word /\ \A x \in Lanes : 0 + x = x
  BY DEF TypeOK, Word, Lanes
<1>1. system /\ UNCHANGED <<system, bars>>
  BY SystemSteps DEF table
<1>2. CASE Draw
  BY <1>1, <1>2 DEF Draw, Bus!Next, Bus!Change, Bus!Lanes, Lanes
<1>3. ASSUME NEW a \in Lanes, NEW v \in Pieces(Word), NEW op \in {"to guest", "from guest"},
             call' = Request(op, Whole, a, v)
      PROVE  /\ call' \in Bus!Requests
             /\ call'.op = op /\ call'.data = v
             /\ call'.window.bind + call'.off = a
  <2>1. v \in Bus!Words
    BY DEF Bus!Words, Pieces
  <2>2. Whole \in {Bus!Whole} /\ Whole.bind = 0
    BY DEF Whole, Bus!Whole, Bar
  <2>3. a \in Bus!Lanes
    BY DEF Bus!Lanes, Lanes
  <2>4. call' \in [op : {"to guest", "from guest"}, window : {Bus!Whole}, off : Bus!Lanes,
                   data : Bus!Words]
    BY <1>3, <2>1, <2>2, <2>3 DEF Request
  <2>5. call'.op = op /\ call'.data = v /\ call'.window = Whole /\ call'.off = a
    BY <1>3 DEF Request
  <2> QED BY <1>0, <2>2, <2>4, <2>5 DEF Bus!Requests
<1>4. ASSUME NEW a \in Lanes, DmaWrite(a) PROVE Bus!Next
  <2>1. call' = Request("to guest", Whole, a, Held(a, Word)) /\ cells' = cells
    BY <1>4 DEF DmaWrite
  <2>2. Held(a, Word) \in Pieces(Word)
    BY <1>0, HeldTyped DEF Lanes
  <2>3. Bus!Take(call')
    BY <1>0, <1>1, <1>3, <2>1, <2>2, TakeServed
  <2> QED BY <1>1, <1>3, <2>1, <2>2, <2>3 DEF Bus!Next, Bus!Answer
<1>5. ASSUME NEW a \in Lanes, NEW v \in Pieces(Word), DmaRead(a, v) PROVE Bus!Next
  <2>1. call' = Request("from guest", Whole, a, v) /\ cells' = Put(a, Word, v)
    BY <1>5 DEF DmaRead
  <2>2. Bus!Put(call')
    BY <1>0, <1>1, <1>3, <2>1, PutServed
  <2> QED BY <1>1, <1>3, <2>1, <2>2 DEF Bus!Next, Bus!Answer
<1> QED BY <1>2, <1>4, <1>5 DEF System

\* The script loads a system, binds BARs and takes them away.
LEMMA ScriptServed ==
  ASSUME LoadSystem \/ ResetBARs \/ \E w \in Windows : CreateBAR(w)
  PROVE  Bus!Next
<1>1. CASE LoadSystem \/ ResetBARs
  BY <1>1 DEF LoadSystem, ResetBARs, Bus!Next, Bus!Load, Bus!Unbind
<1>2. ASSUME NEW w \in Windows, CreateBAR(w) PROVE Bus!Bind(w)
  <2>1. Direct(w) = (system /\ Bus!Within(w))
    BY DirectExact DEF Direct, Bus!Within
  <2>2. Bar(w, Direct(w)) = [bind |-> w.bind, size |-> w.size, direct |-> system /\ Bus!Within(w)]
    BY <2>1 DEF Bar
  <2> QED BY <1>2, <2>2 DEF CreateBAR, Bus!Bind
<1> QED BY <1>1, <1>2 DEF Bus!Next

\* The device implements the one address space, in whatever order its script loads the system
\* and creates the BARs: through whichever BAR and on whichever path an access goes, it takes
\* or puts what is at the address bound there, and only a narrow one to a BAR that is not
\* within the memory, or was created before there was a system, is refused.
THEOREM ImplementsBus == Spec => OneAddressSpace
<1>1. Init => Bus!Init /\ DirectLoaded
  BY DEF Init, Bus!Init, Request, Whole, Bus!Whole, Bar, Lanes, Bus!Lanes, DirectLoaded
<1>2. TypeOK /\ DirectLoaded /\ [Next]_vars => [Bus!Next]_(Bus!vars)
  <2> SUFFICES ASSUME TypeOK, DirectLoaded, [Next]_vars PROVE [Bus!Next]_(Bus!vars)
    OBVIOUS
  <2>1. CASE Guest \/ System
    BY <2>1, GuestServed, SystemServed
  <2>2. CASE \/ \E w \in Widths, h \in Heights, f \in Formats : EnableDisplay(w, h, f)
             \/ DisableDisplay \/ Realize \/ Refresh
    BY <2>2, ScreenTyped DEF Bus!vars, table
  <2>3. CASE LoadSystem \/ ResetBARs \/ \E w \in Windows : CreateBAR(w)
    BY <2>3, ScriptServed
  <2>4. CASE UNCHANGED vars
    BY <2>4 DEF vars, table, Bus!vars
  <2> QED BY <2>1, <2>2, <2>3, <2>4 DEF Next
<1> QED BY <1>1, <1>2, DirectStep, TypeCorrect, PTL DEF Spec, OneAddressSpace, Bus!Spec
=============================================================================
