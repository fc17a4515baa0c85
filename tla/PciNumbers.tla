----------------------------- MODULE PciNumbers ------------------------------
(***************************************************************************)
(* How numbers reach the PCI device.  testdrive_init reads the identifiers *)
(* from the environment of the process, device_class_init copies them into *)
(* the class registered with QEMU; then the setup script gives the size    *)
(* and the address of a BAR through lua_int64::GET.  Numbers are read with *)
(* Bits bits and stored in fields of fewer; every sum wraps.               *)
(*                                                                         *)
(* A text is abstracted to what std::stoull makes of it: whether it starts *)
(* with "0x", whether it has a minus sign, and the number its digits name, *)
(* in the base the prefix says (NoDigits for a text that is no number).    *)
(* The name of the ROM file is only passed on and is left out.             *)
(***************************************************************************)
EXTENDS Integers, Sequences

CONSTANTS
  Bits,           \* width of uint64_t (64 in the code)
  IdBits,         \* width of vendor, device and class identifiers (16 in the code)
  RevisionBits,   \* width of the revision (8 in the code)
  NumberBits,     \* width a Lua number must fit when a script gives it (32 in the code)
  DefaultVendor,  \* vendor identifier when none is configured (0x1234 in the code)
  Unset,          \* a variable that is not set, or empty
  NoDigits,       \* the digits of a text that is no number
  Environment,    \* for each setting the texts its variable may have, or Unset
  LuaValues,      \* arguments a script may give: what a text is, with the kind of value
  Memories,       \* the memories a system module may expose, as [base, size]
  NoMemory        \* no system loaded: m_pSystem = NULL

Span == 2^Bits
Nil == [kind |-> "nil", hex |-> FALSE, minus |-> FALSE, digits |-> 0]

Text == [hex : BOOLEAN, minus : BOOLEAN, digits : Nat \cup {NoDigits}]

\* The values of Lua: an int64 object and a number have digits only, others none.
LuaValue ==
  [kind : {"int64"}, hex : {FALSE}, minus : {FALSE}, digits : 0 .. Span - 1]
    \cup [kind : {"number"}, hex : {FALSE}, minus : {FALSE}, digits : Nat]
    \cup [kind : {"string"}, hex : BOOLEAN, minus : BOOLEAN, digits : Nat \cup {NoDigits}]
    \cup {Nil}

\* The settings, in the order testdrive_init reads them.
Order == << "MAIN_VENDOR_ID", "MAIN_DEVICE_ID", "SUB_VENDOR_ID", "SUB_DEVICE_ID",
            "CLASS_ID", "REVISION" >>
Fields == { Order[i] : i \in 1 .. Len(Order) }

ASSUME WidthAssumption ==
  /\ Bits \in Nat \ {0}
  /\ \A k \in 0 .. Bits : 2^k \in Nat \ {0}
  /\ {IdBits, RevisionBits, NumberBits} \subseteq 0 .. Bits
  /\ DefaultVendor \in 1 .. 2^IdBits - 1

\* What the proofs need to know of powers of two.
ASSUME PowerAssumption ==
  /\ 2^0 = 1 /\ \A k \in 1 .. Bits : 2^k = 2 * 2^(k - 1)
  /\ 2^NumberBits <= 2^Bits

ASSUME InputAssumption ==
  /\ NoDigits \notin Nat
  /\ Unset \notin Text
  /\ \A f \in Fields : Environment[f] \subseteq Text \cup {Unset}
  /\ LuaValues \subseteq LuaValue
  /\ Memories \subseteq [base : 0 .. Span - 1, size : 0 .. Span - 1]
  /\ NoMemory \notin Memories

Texts == UNION { Environment[f] : f \in Fields }

VARIABLES
  stage,   \* "init" | "aborted" | "refused" | "registered" | "class"
  next,    \* how many settings testdrive_init has read, plus one
  env,     \* the text of each setting, as far as read
  pci,     \* the identifiers in testdrive_param.pci
  class,   \* the identifiers in QEMU's PCIDeviceClass
  bar      \* the entry CreateBAR filled, or NoBar

vars == <<stage, next, env, pci, class, bar>>

-----------------------------------------------------------------------------
(* Texts and Lua values. *)

\* std::stoull takes a prefix for a number in base 16 only: in base 10 it stops at the x.
Digits(t, base) == IF t.hex /\ (base = 10 \/ t.digits = NoDigits) THEN 0 ELSE t.digits

\* std::invalid_argument or std::out_of_range.
Throws(t, base) == Digits(t, base) \notin 0 .. Span - 1

Stoull(t, base) == IF t.minus THEN (Span - Digits(t, base)) % Span ELSE Digits(t, base)

Base(t) == IF t.hex THEN 16 ELSE 10

Default(f) == IF f = "MAIN_VENDOR_ID" THEN DefaultVendor ELSE 0

ValueThrows(t) == t # Unset /\ Throws(t, Base(t))

\* GetConfigurationValue.
Value(f, t) == IF t = Unset THEN Default(f) ELSE Stoull(t, Base(t))

FieldSpan(f) == 2^(IF f = "REVISION" THEN RevisionBits ELSE IdBits)

\* Mutant: a field as wide as the number.
WideField(f, n) == n

\* The conversion to uint16_t or uint8_t.
Stored(f, n) == n % FieldSpan(f)

\* Mutant: the number is tested before it is stored.
NumberIsZero(t) == Value("MAIN_VENDOR_ID", t) = 0

\* !testdrive_param.pci.main.vendor_id
VendorIsZero(t) == Stored("MAIN_VENDOR_ID", Value("MAIN_VENDOR_ID", t)) = 0

\* The conversion ends in a Lua error.
GetFails(v) ==
  \/ v.kind = "string" /\ Throws(v, 10)
  \/ v.kind = "number" /\ v.digits >= 2^NumberBits

\* Mutant: every number of a script goes through 32 bits.
GetNarrow(v) ==
  (IF v.kind = "string" THEN Stoull(v, 10) ELSE v.digits) % 2^NumberBits

\* lua_int64::GET: a text in base 10, the value of an int64 object, a number; else 0.
Get(v) == IF v.kind = "string" THEN Stoull(v, 10) ELSE v.digits

-----------------------------------------------------------------------------
(* The arithmetic of CreateBAR. *)

Powers == { 2^k : k \in 0 .. Bits - 1 }
TopPower == 2^(Bits - 1)

\* Mutant: the loop goes on at a size that is a power of two already.
StopsBeyond(p, size) == p > size \/ p = TopPower

\* The correction loop stops at a power of two that covers the size, or at the top one.
Stops(p, size) == p >= size \/ p = TopPower

\* The loop runs through the powers upwards: it ends at the least one it stops at.
CorrectSize(size) ==
  IF size = 0 THEN 0
  ELSE CHOOSE p \in Powers : Stops(p, size) /\ \A q \in Powers : Stops(q, size) => p <= q

Bit(n, k) == (n \div 2^k) % 2

\* Mutant: the size itself is taken for the mask.
MisalignedBySize(size, bind) ==
  \E k \in 0 .. Bits - 1 : Bit(size, k) = 1 /\ Bit(bind, k) = 1

\* ((byte_size - 1) & bind_address) != 0, on the size as the script gave it.
MisalignedByMask(size, bind) ==
  \E k \in 0 .. Bits - 1 : Bit((size - 1) % Span, k) = 1 /\ Bit(bind, k) = 1

\* Mutant: only the first byte of the window is compared with the memory.
StartInMemory(mem, size, bind) ==
  /\ mem # NoMemory
  /\ bind >= mem.base
  /\ bind <= (mem.base + mem.size) % Span

\* The test before pMem is taken; both ends are computed modulo 2^64.
InSystemMemory(mem, size, bind) ==
  /\ mem # NoMemory
  /\ bind >= mem.base
  /\ (bind + size) % Span <= (mem.base + mem.size) % Span

\* The entry CreateBAR fills.  given (the size argument) and warned (the alignment
\* warning was logged) are kept for the properties; direct is the memory pMem points into.
NewBar(given, size, bind, mem) ==
  [ given  |-> given,
    size   |-> CorrectSize(size),
    bind   |-> bind,
    warned |-> MisalignedByMask(size, bind),
    direct |-> IF InSystemMemory(mem, CorrectSize(size), bind) THEN mem ELSE NoMemory ]

NoBar == [given |-> Nil, size |-> 0, bind |-> 0, warned |-> FALSE, direct |-> NoMemory]

-----------------------------------------------------------------------------
(* Startup. *)

Reading(t) == stage = "init" /\ next <= Len(Order) /\ t \in Environment[Order[next]]

\* One GetConfigurationValue of testdrive_init and the assignment of its result.
ReadSetting(t) ==
  LET f == Order[next] IN
  /\ Reading(t)
  /\ ~ValueThrows(t)
  /\ f = "MAIN_VENDOR_ID" => ~VendorIsZero(t)
  /\ env' = [env EXCEPT ![f] = t]
  /\ pci' = [pci EXCEPT ![f] = Stored(f, Value(f, t))]
  /\ next' = next + 1
  /\ UNCHANGED <<stage, class, bar>>

\* testdrive_init returns false; the type is never registered.
RefuseVendor(t) ==
  /\ Reading(t)
  /\ Order[next] = "MAIN_VENDOR_ID"
  /\ ~ValueThrows(t)
  /\ VendorIsZero(t)
  /\ env' = [env EXCEPT !["MAIN_VENDOR_ID"] = t]
  /\ pci' = [pci EXCEPT !["MAIN_VENDOR_ID"] = 0]
  /\ stage' = "refused"
  /\ UNCHANGED <<next, class, bar>>

\* Nothing catches the exception of stoull: the process ends.
ReadThrows(t) ==
  /\ Reading(t)
  /\ ValueThrows(t)
  /\ env' = [env EXCEPT ![Order[next]] = t]
  /\ stage' = "aborted"
  /\ UNCHANGED <<next, pci, class, bar>>

\* testdrive_init returns true: type_register_static.
Register ==
  /\ stage = "init" /\ next > Len(Order)
  /\ stage' = "registered"
  /\ UNCHANGED <<next, env, pci, class, bar>>

\* QEMU initializes the class when it is first asked for.
ClassInit ==
  /\ stage = "registered"
  /\ stage' = "class"
  /\ class' = pci
  /\ UNCHANGED <<next, env, pci, bar>>

\* A call of the script of a device of that class, its system loaded or not.  One call is
\* enough: no number of a BAR depends on another BAR.
CreateBAR(size, bind, mem) ==
  /\ stage = "class" /\ bar = NoBar
  /\ ~GetFails(size) /\ ~GetFails(bind)
  /\ bar' = NewBar(size, Get(size), Get(bind), mem)
  /\ UNCHANGED <<stage, next, env, pci, class>>

\* testdrive_param is zero until testdrive_init.
Init ==
  /\ stage = "init" /\ next = 1
  /\ env = [f \in Fields |-> Unset]
  /\ pci = [f \in Fields |-> 0]
  /\ class = [f \in Fields |-> 0]
  /\ bar = NoBar

Next ==
  \/ \E t \in Texts : ReadSetting(t) \/ RefuseVendor(t) \/ ReadThrows(t)
  \/ Register
  \/ ClassInit
  \/ \E size, bind \in LuaValues, mem \in Memories \cup {NoMemory} : CreateBAR(size, bind, mem)

Spec == Init /\ [][Next]_vars

-----------------------------------------------------------------------------
(* Properties. *)

Identifiers == { a \in [Fields -> Nat] : \A f \in Fields : a[f] < FieldSpan(f) }

\* Type invariant; every identifier fits its field.
TypeOK ==
  /\ stage \in {"init", "aborted", "refused", "registered", "class"}
  /\ next \in 1 .. Len(Order) + 1
  /\ env \in [Fields -> Text \cup {Unset}]
  /\ pci \in Identifiers
  /\ class \in Identifiers
  /\ bar \in [ given : LuaValues \cup {Nil}, size : Powers \cup {0}, bind : 0 .. Span - 1,
              warned : BOOLEAN, direct : Memories \cup {NoMemory} ]

\* A text that names a number its field holds.
Fits(f, t) == t # Unset /\ ~t.minus /\ t.digits # NoDigits /\ t.digits < FieldSpan(f)

\* The device that QEMU offers to a guest has a vendor, also when the configured number is
\* a multiple of 65536, and it has each identifier as configured whenever the field holds
\* it: testdrive_init, device_class_init, in either base.
ClassAsConfigured ==
  stage = "class" =>
    /\ class["MAIN_VENDOR_ID"] # 0
    /\ \A f \in Fields :
         /\ env[f] = Unset => class[f] = Default(f)
         /\ Fits(f, env[f]) => class[f] = env[f].digits

\* A script may give numbers as int64 objects, texts or Lua numbers.  Texts that GET does
\* not read as what they say (a prefix, a minus sign) are excepted.
Understood(v) == ~v.hex /\ ~v.minus

\* The correction of a BAR's size: zero stays zero; another size becomes the power of two
\* that covers it and is less than its double, or the top power when none covers it; so
\* for every form in which the script gives it.
SizeCorrected ==
  Understood(bar.given) =>
    LET asked == bar.given.digits IN
    IF asked = 0 THEN bar.size = 0
    ELSE /\ bar.size \in Powers
         /\ bar.size >= asked \/ bar.size = TopPower
         /\ bar.size < 2 * asked

Inside(b, m) == b.bind >= m.base /\ b.bind + b.size <= m.base + m.size

\* A BAR with direct access lies inside the memory of the system that was loaded when it
\* was created, provided the BAR ends below the top of the address space; the end of a BAR
\* at the top wraps to 0 and passes the comparison whatever the memory.
DirectInsideBelowTop ==
  bar.direct # NoMemory /\ bar.bind + bar.size < Span => Inside(bar, bar.direct)

\* A BAR whose size needed no correction is reported exactly when it is misaligned.
PowersWarned ==
  Understood(bar.given) /\ bar.given.digits \in Powers =>
    (bar.warned <=> bar.bind % bar.size # 0)
=============================================================================
