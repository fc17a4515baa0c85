-------------------------- MODULE PciNumbers_proofs --------------------------
(***************************************************************************)
(* Proofs about PciNumbers, for every width of the numbers and of their    *)
(* fields, every environment, every argument and every memory.  Made says  *)
(* where the one BAR comes from, Read what testdrive_init has left in      *)
(* testdrive_param as far as it got.                                       *)
(***************************************************************************)
EXTENDS PciNumbers, WellFoundedInduction, TLAPS

-----------------------------------------------------------------------------
(* Powers of two and the correction of a size. *)

LEMMA SpanNat == Span \in Nat \ {0}
BY WidthAssumption DEF Span

LEMMA PowersNat == Powers \subseteq Nat \ {0} /\ TopPower \in Powers
BY WidthAssumption DEF Powers, TopPower

\* A set of natural numbers has a least element.
LEMMA LeastElement ==
  ASSUME NEW T, T \subseteq Nat, T # {} PROVE \E p \in T : \A y \in T : p <= y
<1> DEFINE R == OpToRel(<, Nat)
<1>1. IsWellFoundedOn(R, Nat)
  BY NatLessThanWellFounded, Zenon
<1>2. \E x \in T : \A y \in T : ~(<<y, x>> \in R)
  <2> HIDE DEF R
  <2> QED BY <1>1, WFMin, Zenon
<1>3. PICK x \in T : \A y \in T : ~(<<y, x>> \in R)
  BY <1>2, Zenon
<1>4. \A y \in T : ~(y < x)
  <2>1. \A y \in T : <<y, x>> \in Nat \X Nat
    OBVIOUS
  <2> QED BY <1>3, <2>1, Zenon DEF OpToRel
<1> QED BY <1>4

\* Induction up to a bound, over a set instead of an operator.
LEMMA BoundedInduction ==
  ASSUME NEW n \in Nat, NEW T, 0 \in T, \A k \in 0 .. n - 1 : k \in T => k + 1 \in T
  PROVE  0 .. n \subseteq T
<1> SUFFICES ASSUME ~(0 .. n \subseteq T) PROVE FALSE
  OBVIOUS
<1> DEFINE Missing == { k \in 0 .. n : k \notin T }
<1>1. Missing \subseteq Nat /\ Missing # {}
  OBVIOUS
<1>2. PICK m \in Missing : \A y \in Missing : m <= y
  <2> HIDE DEF Missing
  <2> QED BY <1>1, LeastElement
<1>3. m # 0 /\ m - 1 \in 0 .. n - 1 /\ m - 1 \notin Missing
  BY <1>2
<1>4. m \in T
  BY <1>3
<1> QED BY <1>2, <1>4

\* The loop of the correction ends, at the least power it stops at.
LEMMA CorrectSizeLeast ==
  ASSUME NEW size \in Nat \ {0}
  PROVE  /\ CorrectSize(size) \in Powers
         /\ Stops(CorrectSize(size), size)
         /\ \A q \in Powers : Stops(q, size) => CorrectSize(size) <= q
<1> DEFINE T == { p \in Powers : Stops(p, size) }
<1>1. T \subseteq Nat /\ T # {}
  BY PowersNat DEF Stops
<1>2. PICK p \in T : \A y \in T : p <= y
  <2> HIDE DEF T
  <2> QED BY <1>1, LeastElement
<1>3. p \in Powers /\ Stops(p, size) /\ \A q \in Powers : Stops(q, size) => p <= q
  BY <1>2
<1>4. CorrectSize(size) =
        CHOOSE r \in Powers : Stops(r, size) /\ \A q \in Powers : Stops(q, size) => r <= q
  BY DEF CorrectSize
<1> QED BY <1>3, <1>4

LEMMA CorrectSizeTyped ==
  ASSUME NEW size \in Nat
  PROVE  CorrectSize(size) \in Powers \cup {0} /\ CorrectSize(size) \in Nat
<1>1. CASE size = 0
  BY <1>1 DEF CorrectSize
<1>2. CASE size # 0
  BY <1>2, CorrectSizeLeast, PowersNat
<1> QED BY <1>1, <1>2

\* The corrected size is less than twice the size: half of it did not stop the loop.
LEMMA CorrectSizeTight ==
  ASSUME NEW size \in Nat \ {0}
  PROVE  CorrectSize(size) < 2 * size
<1>1. PICK k \in 0 .. Bits - 1 : CorrectSize(size) = 2^k
  BY CorrectSizeLeast DEF Powers
<1>2. CASE k = 0
  BY <1>1, <1>2, PowerAssumption
<1>3. CASE k # 0
  <2>1. k - 1 \in 0 .. Bits - 1 /\ k \in 1 .. Bits
    BY <1>3, WidthAssumption
  <2>2. 2^k = 2 * 2^(k - 1)
    BY <2>1, PowerAssumption
  <2>3. 2^(k - 1) \in Powers
    BY <2>1 DEF Powers
  <2>4. PICK h \in Nat \ {0} : h = 2^(k - 1)
    BY <2>3, PowersNat
  <2>5. ~Stops(h, size)
    BY <1>1, <2>2, <2>3, <2>4, CorrectSizeLeast
  <2>6. h < size
    BY <2>4, <2>5 DEF Stops
  <2> QED BY <1>1, <2>2, <2>4, <2>6
<1> QED BY <1>2, <1>3

-----------------------------------------------------------------------------
(* Bits, and the alignment of a BAR. *)

\* Division is what it should be.
LEMMA Division ==
  ASSUME NEW d \in Nat \ {0}, NEW q \in Nat, NEW r \in 0 .. d - 1
  PROVE  (d * q + r) \div d = q /\ (d * q + r) % d = r
OBVIOUS

LEMMA Quotient ==
  ASSUME NEW d \in Nat \ {0}, NEW n \in Nat
  PROVE  /\ n \div d \in Nat /\ n % d \in 0 .. d - 1
         /\ n = d * (n \div d) + (n % d)
OBVIOUS

\* The powers of two that the model speaks of.
LEMMA PowerFacts ==
  /\ 2^0 = 1
  /\ \A k \in 0 .. Bits : 2^k \in Nat \ {0}
  /\ \A k \in 0 .. Bits - 1 : 2^(k + 1) = 2 * 2^k
<1>1. ASSUME NEW k \in 0 .. Bits - 1 PROVE 2^(k + 1) = 2 * 2^k
  <2>1. k + 1 \in 1 .. Bits /\ (k + 1) - 1 = k
    BY WidthAssumption
  <2> QED BY <2>1, PowerAssumption
<1> QED BY <1>1, WidthAssumption, PowerAssumption

\* A smaller power divides a greater one.
LEMMA PowerDivides ==
  ASSUME NEW k \in 0 .. Bits, NEW j \in k .. Bits
  PROVE  \E c \in Nat \ {0} : 2^j = 2^k * c
<1> DEFINE T == { i \in 0 .. Bits : i >= k => \E c \in Nat \ {0} : 2^i = 2^k * c }
<1>1. 0 \in T
  <2>1. 2^k \in Nat \ {0} /\ 2^k = 2^k * 1 /\ 0 \in 0 .. Bits
    BY PowerFacts, WidthAssumption
  <2>2. CASE k = 0
    <3>1. 2^0 = 2^k * 1
      BY <2>1, <2>2
    <3> QED BY <2>1, <3>1
  <2>3. CASE k # 0
    BY <2>1, <2>3
  <2> QED BY <2>2, <2>3
<1>2. ASSUME NEW i \in 0 .. Bits - 1, i \in T PROVE i + 1 \in T
  <2>1. i + 1 \in 0 .. Bits /\ 2^k \in Nat \ {0}
    BY PowerFacts, WidthAssumption
  <2>2. CASE i >= k
    <3>1. PICK c \in Nat \ {0} : 2^i = 2^k * c
      BY <1>2, <2>2
    <3>2. 2^(i + 1) = 2 * (2^k * c)
      BY <3>1, PowerFacts
    <3>3. 2 * (2^k * c) = 2^k * (2 * c) /\ 2 * c \in Nat \ {0}
      BY <2>1
    <3> QED BY <2>1, <3>2, <3>3
  <2>3. CASE i + 1 = k
    BY <2>1, <2>3
  <2>4. CASE i + 1 < k
    BY <2>1, <2>4
  <2> QED BY <2>2, <2>3, <2>4, <2>1
<1>3. 0 .. Bits \subseteq T
  <2> HIDE DEF T
  <2> QED BY <1>1, <1>2, BoundedInduction, WidthAssumption
<1>4. j \in T
  <2> HIDE DEF T
  <2> QED BY <1>3
<1> QED BY <1>4

\* One less than a power of two is the mask of the bits below.
LEMMA MaskBits ==
  ASSUME NEW j \in 0 .. Bits - 1, NEW k \in 0 .. Bits - 1
  PROVE  Bit(2^j - 1, k) = 1 <=> k < j
<1>1. 2^j \in Nat \ {0} /\ 2^k \in Nat \ {0}
  BY PowerFacts, WidthAssumption
<1>2. CASE k < j
  <2>1. k + 1 \in 0 .. Bits /\ j \in k + 1 .. Bits
    BY <1>2, WidthAssumption
  <2>2. PICK c \in Nat \ {0} : 2^j = 2^(k + 1) * c
    BY <2>1, PowerDivides
  <2>3. 2^(k + 1) = 2 * 2^k
    BY PowerFacts
  <2>4. 2^j - 1 = 2^k * (2 * c - 1) + (2^k - 1) /\ 2 * c - 1 \in Nat /\ 2^k - 1 \in 0 .. 2^k - 1
    BY <1>1, <2>2, <2>3
  <2>5. (2^k * (2 * c - 1) + (2^k - 1)) \div 2^k = 2 * c - 1
    BY <1>1, <2>4, Division, Zenon
  <2>6. (2^j - 1) \div 2^k = 2 * c - 1
    BY <2>4, <2>5, Zenon
  <2>7. (2 * c - 1) % 2 = 1
    BY <2>2
  <2> QED BY <1>2, <2>6, <2>7, Zenon DEF Bit
<1>3. CASE ~(k < j)
  <2>1. j \in 0 .. Bits /\ k \in j .. Bits
    BY <1>3, WidthAssumption
  <2>2. PICK c \in Nat \ {0} : 2^k = 2^j * c
    BY <2>1, PowerDivides
  <2>3. 2^j - 1 = 2^k * 0 + (2^j - 1) /\ 2^j - 1 \in 0 .. 2^k - 1
    BY <1>1, <2>2
  <2>4. (2^k * 0 + (2^j - 1)) \div 2^k = 0
    <3>1. 0 \in Nat
      OBVIOUS
    <3> QED BY <1>1, <2>3, <3>1, Division, Zenon
  <2>5. (2^j - 1) \div 2^k = 0
    BY <2>3, <2>4, Zenon
  <2>6. 0 % 2 # 1
    OBVIOUS
  <2> QED BY <1>3, <2>5, <2>6, Zenon DEF Bit
<1> QED BY <1>2, <1>3

\* A number is a multiple of a power of two when its lower bits are zero.
LEMMA LowBits ==
  ASSUME NEW n \in Nat, NEW j \in 0 .. Bits
  PROVE  n % 2^j = 0 <=> \A k \in 0 .. j - 1 : Bit(n, k) # 1
<1> DEFINE T == { i \in 0 .. Bits : n % 2^i = 0 <=> \A k \in 0 .. i - 1 : Bit(n, k) # 1 }
<1>1. 0 \in T
  BY PowerFacts, WidthAssumption
<1>2. ASSUME NEW i \in 0 .. Bits - 1, i \in T PROVE i + 1 \in T
  <2>1. PICK d \in Nat \ {0} : d = 2^i /\ 2^(i + 1) = 2 * d
    BY PowerFacts, WidthAssumption
  <2>2. PICK q \in Nat, r \in 0 .. d - 1 : q = n \div d /\ r = n % d /\ n = d * q + r
    BY Quotient
  <2>3. PICK h \in Nat, b \in {0, 1} : q = 2 * h + b /\ b = q % 2
    BY <2>2
  <2>4. n = (2 * d) * h + (d * b + r) /\ d * b + r \in 0 .. 2 * d - 1
    <3>1. CASE b = 0
      <4>1. d * b + r = r
        BY <2>2, <3>1
      <4>2. q = 2 * h
        BY <2>3, <3>1
      <4>3. n = d * (2 * h) + r
        BY <2>2, <4>2, Zenon
      <4>4. d * (2 * h) = (2 * d) * h
        BY <2>2, <2>3
      <4> QED BY <2>2, <4>1, <4>3, <4>4
    <3>2. CASE b = 1
      BY <2>2, <2>3, <3>2
    <3> QED BY <3>1, <3>2
  <2>5. n % 2^(i + 1) = d * b + r
    <3>1. 2 * d \in Nat \ {0}
      BY <2>1
    <3>2. ((2 * d) * h + (d * b + r)) % (2 * d) = d * b + r
      BY <2>3, <2>4, <3>1, Division, Zenon
    <3> QED BY <2>1, <2>4, <3>2, Zenon
  <2>6. n % 2^(i + 1) = 0 <=> r = 0 /\ b = 0
    BY <2>3, <2>5
  <2>7. Bit(n, i) = b
    BY <2>1, <2>2, <2>3 DEF Bit
  <2>8. r = 0 <=> \A k \in 0 .. i - 1 : Bit(n, k) # 1
    BY <1>2, <2>1, <2>2
  <2>9. 0 .. (i + 1) - 1 = (0 .. i - 1) \cup {i}
    OBVIOUS
  <2> QED BY <2>6, <2>7, <2>8, <2>9, WidthAssumption
<1>3. 0 .. Bits \subseteq T
  <2> HIDE DEF T
  <2> QED BY <1>1, <1>2, BoundedInduction, WidthAssumption
<1> QED BY <1>3

\* The mask of a power of two finds an address that is not a multiple of it.
LEMMA MaskedPower ==
  ASSUME NEW size \in Powers, NEW bind \in Nat
  PROVE  MisalignedByMask(size, bind) <=> bind % size # 0
<1>1. PICK j \in 0 .. Bits - 1 : size = 2^j
  BY DEF Powers
<1>2. (size - 1) % Span = 2^j - 1
  <2>1. j \in 0 .. Bits /\ Bits \in j .. Bits
    BY WidthAssumption
  <2>2. PICK c \in Nat \ {0} : Span = 2^j * c
    BY <2>1, PowerDivides DEF Span
  <2>3. 2^j - 1 \in 0 .. Span - 1
    BY <2>1, <2>2, PowerFacts, SpanNat
  <2> QED BY <1>1, <2>3, SpanNat
<1>3. MisalignedByMask(size, bind) <=> \E k \in 0 .. Bits - 1 : k < j /\ Bit(bind, k) = 1
  BY <1>2, MaskBits DEF MisalignedByMask
<1>4. bind % 2^j = 0 <=> \A k \in 0 .. j - 1 : Bit(bind, k) # 1
  BY LowBits, WidthAssumption
<1> QED BY <1>1, <1>3, <1>4, WidthAssumption

\* A size that is a power of two needs no correction.
LEMMA PowerKept ==
  ASSUME NEW size \in Powers PROVE CorrectSize(size) = size
<1>1. size \in Nat \ {0} /\ Stops(size, size)
  BY PowersNat DEF Stops
<1>2. CorrectSize(size) <= size /\ CorrectSize(size) \in Powers
  BY <1>1, CorrectSizeLeast
<1>3. size <= TopPower
  <2>1. PICK j \in 0 .. Bits - 1 : size = 2^j
    BY DEF Powers
  <2>2. j \in 0 .. Bits /\ Bits - 1 \in j .. Bits
    BY WidthAssumption
  <2>3. PICK c \in Nat \ {0} : TopPower = 2^j * c
    BY <2>2, PowerDivides DEF TopPower
  <2> QED BY <1>1, <2>1, <2>3
<1>4. CorrectSize(size) >= size
  <2>1. Stops(CorrectSize(size), size)
    BY <1>1, CorrectSizeLeast
  <2> QED BY <1>1, <1>3, <2>1, PowersNat DEF Stops
<1>5. CorrectSize(size) \in Nat
  BY <1>2, PowersNat
<1> QED BY <1>1, <1>2, <1>4, <1>5

-----------------------------------------------------------------------------
(* Texts and values. *)

LEMMA FieldSpanNat ==
  ASSUME NEW f \in Fields PROVE FieldSpan(f) \in Nat \ {0}
BY WidthAssumption DEF FieldSpan

LEMMA StoredTyped ==
  ASSUME NEW f \in Fields, NEW n \in Nat PROVE Stored(f, n) \in Nat /\ Stored(f, n) < FieldSpan(f)
BY FieldSpanNat DEF Stored

LEMMA StoullTyped ==
  ASSUME NEW t, NEW base, ~Throws(t, base)
  PROVE  Stoull(t, base) \in 0 .. Span - 1
BY SpanNat DEF Throws, Stoull

LEMMA ValueTyped ==
  ASSUME NEW f \in Fields, NEW t, ~ValueThrows(t) PROVE Value(f, t) \in Nat
<1>1. CASE t = Unset
  BY <1>1, WidthAssumption DEF Value, Default
<1>2. CASE t # Unset
  BY <1>2, StoullTyped, SpanNat DEF Value, ValueThrows
<1> QED BY <1>1, <1>2

\* What the type of a value says of its parts.
LEMMA ValueParts ==
  ASSUME NEW v \in LuaValues
  PROVE  /\ v.hex \in BOOLEAN /\ v.minus \in BOOLEAN
         /\ v.kind # "string" => v.digits \in Nat
         /\ v.kind \notin {"string", "number"} => v.digits \in 0 .. Span - 1
<1>1. v \in LuaValue
  BY InputAssumption
<1>2. CASE v \in [kind : {"int64"}, hex : {FALSE}, minus : {FALSE}, digits : 0 .. Span - 1]
  <2>1. v.hex = FALSE /\ v.minus = FALSE /\ v.digits \in 0 .. Span - 1
    BY <1>2
  <2>2. v.digits \in Nat
    BY <2>1, SpanNat
  <2> QED BY <2>1, <2>2
<1>3. CASE v \in [kind : {"number"}, hex : {FALSE}, minus : {FALSE}, digits : Nat]
  BY <1>3
<1>4. CASE v \in [kind : {"string"}, hex : BOOLEAN, minus : BOOLEAN, digits : Nat \cup {NoDigits}]
  BY <1>4
<1>5. CASE v = Nil
  BY <1>5, SpanNat DEF Nil
<1> QED BY <1>1, <1>2, <1>3, <1>4, <1>5 DEF LuaValue

LEMMA GetTyped ==
  ASSUME NEW v \in LuaValues, ~GetFails(v) PROVE Get(v) \in 0 .. Span - 1
<1>1. CASE v.kind = "string"
  BY <1>1, StoullTyped DEF Get, GetFails
<1>2. CASE v.kind = "number"
  <2>1. v.digits \in Nat
    BY <1>2, ValueParts
  <2>2. 2^NumberBits \in Nat /\ v.digits < 2^NumberBits
    BY <1>2, <2>1, WidthAssumption DEF GetFails
  <2>3. 2^NumberBits <= Span
    BY PowerAssumption DEF Span
  <2> QED BY <1>2, <2>1, <2>2, <2>3, SpanNat DEF Get
<1>3. CASE v.kind \notin {"string", "number"}
  <2>1. v.digits \in 0 .. Span - 1
    BY <1>3, ValueParts
  <2> QED BY <1>3, <2>1 DEF Get
<1> QED BY <1>1, <1>2, <1>3

-----------------------------------------------------------------------------
(* The invariants. *)

\* A BAR that exists was filled by one call from typed arguments.
Made ==
  \/ bar = NoBar
  \/ \E given, at \in LuaValues, mem \in Memories \cup {NoMemory} :
       ~GetFails(given) /\ ~GetFails(at) /\ bar = NewBar(given, Get(given), Get(at), mem)

\* What the environment said about f is in testdrive_param.
Configured(f) == ~ValueThrows(env[f]) /\ pci[f] = Stored(f, Value(f, env[f]))

\* testdrive_init has stored what it read, and has a vendor once it went on.
Read ==
  /\ stage \in {"init", "registered", "class"} =>
       /\ \A i \in 1 .. next - 1 : Configured(Order[i])
       /\ next > 1 => pci["MAIN_VENDOR_ID"] # 0
  /\ stage \in {"registered", "class"} => next = Len(Order) + 1
  /\ stage = "class" => class = pci

LEMMA OrderFacts ==
  /\ Len(Order) = 6
  /\ \A i \in 1 .. 6 : Order[i] \in Fields
  /\ \A f \in Fields : \E i \in 1 .. 6 : f = Order[i]
  /\ \A i, j \in 1 .. 6 : i # j => Order[i] # Order[j]
  /\ Order[1] = "MAIN_VENDOR_ID"
  /\ \A i \in 2 .. 6 : Order[i] # "MAIN_VENDOR_ID"
<1>1. Len(Order) = 6
  BY DEF Order
<1>2. /\ Order[1] = "MAIN_VENDOR_ID" /\ Order[2] = "MAIN_DEVICE_ID" /\ Order[3] = "SUB_VENDOR_ID"
      /\ Order[4] = "SUB_DEVICE_ID" /\ Order[5] = "CLASS_ID" /\ Order[6] = "REVISION"
  BY DEF Order
<1>3. 1 .. 6 = {1, 2, 3, 4, 5, 6} /\ 2 .. 6 = {2, 3, 4, 5, 6}
  OBVIOUS
<1> QED BY <1>1, <1>2, <1>3 DEF Fields

LEMMA ReadingFacts ==
  ASSUME TypeOK, NEW t \in Texts, Reading(t)
  PROVE  /\ next \in 1 .. 6 /\ Order[next] \in Fields
         /\ t \in Text \cup {Unset}
<1>1. next \in 1 .. 6
  BY OrderFacts DEF Reading, TypeOK
<1> QED BY <1>1, OrderFacts, InputAssumption DEF Reading

-----------------------------------------------------------------------------
(* The type invariant. *)

LEMMA NewBarTyped ==
  ASSUME NEW given \in LuaValues, NEW at \in LuaValues, NEW mem \in Memories \cup {NoMemory},
         ~GetFails(given), ~GetFails(at)
  PROVE  NewBar(given, Get(given), Get(at), mem) \in
           [ given : LuaValues \cup {Nil}, size : Powers \cup {0}, bind : 0 .. Span - 1,
             warned : BOOLEAN, direct : Memories \cup {NoMemory} ]
<1>1. Get(given) \in Nat /\ Get(at) \in 0 .. Span - 1
  BY GetTyped, SpanNat
<1>2. CorrectSize(Get(given)) \in Powers \cup {0}
  BY <1>1, CorrectSizeTyped
<1>3. MisalignedByMask(Get(given), Get(at)) \in BOOLEAN
  BY DEF MisalignedByMask
<1> QED BY <1>1, <1>2, <1>3 DEF NewBar

LEMMA InitTyped == Init => TypeOK
<1>1. \A f \in Fields : FieldSpan(f) \in Nat \ {0}
  BY FieldSpanNat
<1>2. "init" \in {"init", "aborted", "refused", "registered", "class"} /\ 1 \in 1 .. Len(Order) + 1
  BY OrderFacts
<1> QED BY <1>1, <1>2, SpanNat DEF Init, TypeOK, Identifiers, NoBar

LEMMA NextTyped == TypeOK /\ [Next]_vars => TypeOK'
<1> SUFFICES ASSUME TypeOK, [Next]_vars PROVE TypeOK'
  OBVIOUS
<1>1. ASSUME NEW t \in Texts, ReadSetting(t) PROVE TypeOK'
  <2>1. next \in 1 .. 6 /\ Order[next] \in Fields /\ t \in Text \cup {Unset}
    BY <1>1, ReadingFacts DEF ReadSetting
  <2>2. Value(Order[next], t) \in Nat
    BY <1>1, <2>1, ValueTyped DEF ReadSetting
  <2>3. PICK n \in Nat : /\ n = Stored(Order[next], Value(Order[next], t))
                         /\ n < FieldSpan(Order[next])
    BY <2>1, <2>2, StoredTyped
  <2>4. pci' \in Identifiers
    BY <1>1, <2>1, <2>3 DEF ReadSetting, TypeOK, Identifiers
  <2> QED BY <1>1, <2>1, <2>4, OrderFacts DEF ReadSetting, TypeOK
<1>2. ASSUME NEW t \in Texts, RefuseVendor(t) PROVE TypeOK'
  <2>1. next \in 1 .. 6 /\ "MAIN_VENDOR_ID" \in Fields /\ t \in Text \cup {Unset}
    BY <1>2, ReadingFacts DEF RefuseVendor
  <2>2. pci' \in Identifiers
    BY <1>2, <2>1, FieldSpanNat DEF RefuseVendor, TypeOK, Identifiers
  <2> QED BY <1>2, <2>1, <2>2 DEF RefuseVendor, TypeOK
<1>3. ASSUME NEW t \in Texts, ReadThrows(t) PROVE TypeOK'
  BY <1>3, ReadingFacts DEF ReadThrows, TypeOK
<1>4. CASE Register
  BY <1>4 DEF Register, TypeOK
<1>5. CASE ClassInit
  BY <1>5 DEF ClassInit, TypeOK
<1>6. ASSUME NEW size \in LuaValues, NEW bind \in LuaValues, NEW mem \in Memories \cup {NoMemory},
             CreateBAR(size, bind, mem)
      PROVE  TypeOK'
  <2>1. bar' \in [ given : LuaValues \cup {Nil}, size : Powers \cup {0}, bind : 0 .. Span - 1,
                   warned : BOOLEAN, direct : Memories \cup {NoMemory} ]
    BY <1>6, NewBarTyped DEF CreateBAR
  <2> QED BY <1>6, <2>1 DEF CreateBAR, TypeOK
<1>7. CASE UNCHANGED vars
  BY <1>7 DEF vars, TypeOK
<1> QED BY <1>1, <1>2, <1>3, <1>4, <1>5, <1>6, <1>7 DEF Next

\* Every run is well typed: whatever the environment says, each identifier fits its field.
THEOREM TypeCorrect == Spec => []TypeOK
<1> QED BY InitTyped, NextTyped, PTL DEF Spec

-----------------------------------------------------------------------------
(* The BAR. *)

\* GET returns the number that a value says, if it is not one of the excepted texts.
LEMMA GetUnderstood ==
  ASSUME NEW v \in LuaValues, Understood(v) PROVE Get(v) = v.digits
<1>1. v.hex = FALSE /\ v.minus = FALSE
  BY ValueParts DEF Understood
<1> QED BY <1>1 DEF Get, Stoull, Digits

LEMMA MadeStep == Made /\ [Next]_vars => Made'
<1> SUFFICES ASSUME Made, [Next]_vars PROVE Made'
  OBVIOUS
<1>1. ASSUME NEW size \in LuaValues, NEW bind \in LuaValues, NEW mem \in Memories \cup {NoMemory},
             CreateBAR(size, bind, mem)
      PROVE  Made'
  BY <1>1 DEF CreateBAR, Made
<1>2. CASE UNCHANGED bar
  BY <1>2 DEF Made
<1> QED BY <1>1, <1>2
     DEF Next, ReadSetting, RefuseVendor, ReadThrows, Register, ClassInit, vars

\* Where the BAR comes from.
THEOREM MadeHolds == Spec => []Made
<1>1. Init => Made
  BY DEF Init, Made
<1> QED BY <1>1, MadeStep, PTL DEF Spec

\* For numbers of any width the loop of CreateBAR ends at the power of two that covers the
\* size and is less than its double, or at the top power.
THEOREM SizesCorrect == Spec => []SizeCorrected
<1>1. Made => SizeCorrected
  <2> SUFFICES ASSUME Made, Understood(bar.given), NEW asked, asked = bar.given.digits
               PROVE  IF asked = 0 THEN bar.size = 0
                      ELSE /\ bar.size \in Powers
                           /\ bar.size >= asked \/ bar.size = TopPower
                           /\ bar.size < 2 * asked
    BY DEF SizeCorrected
  <2>1. CASE bar = NoBar
    BY <2>1 DEF NoBar, Nil
  <2>2. ASSUME NEW given \in LuaValues, NEW at \in LuaValues, NEW mem \in Memories \cup {NoMemory},
               ~GetFails(given), bar = NewBar(given, Get(given), Get(at), mem)
        PROVE  IF asked = 0 THEN bar.size = 0
               ELSE /\ bar.size \in Powers
                    /\ bar.size >= asked \/ bar.size = TopPower
                    /\ bar.size < 2 * asked
    <3>1. bar.given = given /\ bar.size = CorrectSize(Get(given))
      BY <2>2 DEF NewBar
    <3>2. Get(given) = asked
      BY <2>2, <3>1, GetUnderstood
    <3>3. asked \in Nat
      <4>1. Get(given) \in 0 .. Span - 1
        BY <2>2, GetTyped
      <4> QED BY <3>2, <4>1, SpanNat
    <3>4. CASE asked = 0
      BY <3>1, <3>2, <3>4 DEF CorrectSize
    <3>5. CASE asked # 0
      BY <3>1, <3>2, <3>3, <3>5, CorrectSizeLeast, CorrectSizeTight DEF Stops
    <3> QED BY <3>4, <3>5
  <2> QED BY <2>1, <2>2 DEF Made
<1> QED BY <1>1, MadeHolds, PTL

\* The class has a vendor, and every identifier as configured.
THEOREM ClassCorrect == Spec => []ClassAsConfigured
<1>1. Init => Read
  BY OrderFacts DEF Init, Read
<1>2. TypeOK /\ TypeOK' /\ Read /\ [Next]_vars => Read'
  <2> SUFFICES ASSUME TypeOK, TypeOK', Read, [Next]_vars PROVE Read'
    OBVIOUS
  <2>1. ASSUME NEW t \in Texts, ReadSetting(t) PROVE Read'
    <3>1. next \in 1 .. 6 /\ Order[next] \in Fields /\ stage = "init" /\ stage' = "init"
      BY <2>1, ReadingFacts DEF ReadSetting, Reading
    <3>2. env' = [env EXCEPT ![Order[next]] = t] /\ next' = next + 1 /\ ~ValueThrows(t)
          /\ pci' = [pci EXCEPT ![Order[next]] = Stored(Order[next], Value(Order[next], t))]
      BY <2>1 DEF ReadSetting
    <3>3. env \in [Fields -> Text \cup {Unset}] /\ DOMAIN pci = Fields
      BY DEF TypeOK, Identifiers
    <3>4. env'[Order[next]] = t /\ pci'[Order[next]] = Stored(Order[next], Value(Order[next], t))
      BY <3>1, <3>2, <3>3
    <3>5. \A f \in Fields : f # Order[next] => env'[f] = env[f] /\ pci'[f] = pci[f]
      BY <3>2, <3>3
    <3>6. ASSUME NEW i \in 1 .. next' - 1 PROVE Configured(Order[i])'
      <4>1. CASE i = next
        BY <3>2, <3>4, <4>1 DEF Configured
      <4>2. CASE i # next
        <5>1. i \in 1 .. next - 1 /\ i \in 1 .. 6
          BY <3>1, <3>2, <4>2
        <5>2. Order[i] \in Fields /\ Order[i] # Order[next]
          BY <3>1, <4>2, <5>1, OrderFacts
        <5>3. Configured(Order[i])
          BY <3>1, <5>1 DEF Read
        <5> QED BY <3>5, <5>2, <5>3 DEF Configured
      <4> QED BY <4>1, <4>2
    <3>7. pci'["MAIN_VENDOR_ID"] # 0
      <4>1. CASE next = 1
        <5>1. Order[next] = "MAIN_VENDOR_ID" /\ ~VendorIsZero(t)
          BY <2>1, <4>1, OrderFacts DEF ReadSetting
        <5> QED BY <3>4, <5>1 DEF VendorIsZero
      <4>2. CASE next # 1
        <5>1. next \in 2 .. 6 /\ next > 1
          BY <3>1, <4>2
        <5>2. Order[next] # "MAIN_VENDOR_ID" /\ "MAIN_VENDOR_ID" \in Fields
          BY <5>1, OrderFacts
        <5> QED BY <3>1, <3>5, <5>1, <5>2 DEF Read
      <4> QED BY <4>1, <4>2
    <3> QED BY <3>1, <3>6, <3>7 DEF Read
  <2>2. ASSUME NEW t \in Texts, RefuseVendor(t) \/ ReadThrows(t) PROVE Read'
    BY <2>2 DEF RefuseVendor, ReadThrows, Read
  <2>3. CASE Register
    <3>1. next = Len(Order) + 1
      BY <2>3, OrderFacts DEF Register, TypeOK
    <3> QED BY <2>3, <3>1 DEF Register, Read, Configured
  <2>4. CASE ClassInit
    BY <2>4 DEF ClassInit, Read, Configured
  <2>5. ASSUME NEW size \in LuaValues, NEW bind \in LuaValues, NEW mem \in Memories \cup {NoMemory},
               CreateBAR(size, bind, mem)
        PROVE  Read'
    BY <2>5 DEF CreateBAR, Read, Configured
  <2>6. CASE UNCHANGED vars
    BY <2>6 DEF vars, Read, Configured
  <2> QED BY <2>1, <2>2, <2>3, <2>4, <2>5, <2>6 DEF Next
<1>3. TypeOK /\ Read => ClassAsConfigured
  <2> SUFFICES ASSUME TypeOK, Read, stage = "class"
               PROVE  /\ class["MAIN_VENDOR_ID"] # 0
                      /\ \A f \in Fields :
                           /\ env[f] = Unset => class[f] = Default(f)
                           /\ Fits(f, env[f]) => class[f] = env[f].digits
    BY DEF ClassAsConfigured
  <2>1. class = pci /\ next = 7 /\ pci["MAIN_VENDOR_ID"] # 0
    BY OrderFacts DEF Read
  <2>2. ASSUME NEW f \in Fields PROVE pci[f] = Stored(f, Value(f, env[f]))
    <3>1. PICK i \in 1 .. 6 : f = Order[i]
      BY OrderFacts
    <3> QED BY <2>1, <3>1 DEF Read, Configured
  <2>3. ASSUME NEW f \in Fields, NEW n \in Nat, n < FieldSpan(f) PROVE Stored(f, n) = n
    BY <2>3, FieldSpanNat DEF Stored
  <2>4. ASSUME NEW f \in Fields, env[f] = Unset PROVE pci[f] = Default(f)
    <3>1. Default(f) \in Nat /\ Default(f) < FieldSpan(f)
      BY WidthAssumption, FieldSpanNat DEF Default, FieldSpan
    <3> QED BY <2>2, <2>3, <2>4, <3>1 DEF Value
  <2>5. ASSUME NEW f \in Fields, Fits(f, env[f]) PROVE pci[f] = env[f].digits
    <3>1. env[f] \in Text
      BY <2>5 DEF Fits, TypeOK
    <3>2. env[f].digits \in Nat
      BY <2>5, <3>1 DEF Fits, Text
    <3>3. Value(f, env[f]) = env[f].digits
      BY <2>5 DEF Fits, Value, Stoull, Digits, Base
    <3> QED BY <2>2, <2>3, <2>5, <3>2, <3>3 DEF Fits
  <2> QED BY <2>1, <2>4, <2>5
<1> QED BY <1>1, <1>2, <1>3, TypeCorrect, PTL DEF Spec

\* Direct access stays within the memory for every BAR that ends below the top.
THEOREM DirectCorrect == Spec => []DirectInsideBelowTop
<1>1. Made => DirectInsideBelowTop
  <2> SUFFICES ASSUME Made, bar.direct # NoMemory, bar.bind + bar.size < Span
               PROVE  Inside(bar, bar.direct)
    BY DEF DirectInsideBelowTop
  <2>1. PICK given \in LuaValues, at \in LuaValues, mem \in Memories \cup {NoMemory} :
          ~GetFails(given) /\ ~GetFails(at) /\ bar = NewBar(given, Get(given), Get(at), mem)
    BY DEF Made, NoBar
  <2>2. PICK size \in Nat : size = CorrectSize(Get(given)) /\ bar.size = size
    BY <2>1, GetTyped, SpanNat, CorrectSizeTyped DEF NewBar
  <2>3. PICK bind \in Nat : bind = Get(at) /\ bar.bind = bind
    BY <2>1, GetTyped, SpanNat DEF NewBar
  <2>4. mem # NoMemory /\ bar.direct = mem /\ InSystemMemory(mem, size, bind)
    BY <2>1, <2>2, <2>3 DEF NewBar
  <2>5. mem.base \in 0 .. Span - 1 /\ mem.size \in 0 .. Span - 1
    BY <2>4, InputAssumption
  <2>6. (bind + size) % Span = bind + size
    BY <2>2, <2>3, SpanNat
  <2>7. (mem.base + mem.size) % Span <= mem.base + mem.size
    BY <2>5, SpanNat
  <2> QED BY <2>2, <2>3, <2>4, <2>5, <2>6, <2>7, SpanNat DEF InSystemMemory, Inside
<1> QED BY <1>1, MadeHolds, PTL

\* A BAR whose size is a power of two is reported exactly when its address is not a
\* multiple of it, for numbers of any width: the mask of CreateBAR is the test it stands
\* for. (Of other sizes the mask says nothing: it is taken before the correction.)
THEOREM WarningCorrect == Spec => []PowersWarned
<1>1. Made => PowersWarned
  <2> SUFFICES ASSUME Made, Understood(bar.given), bar.given.digits \in Powers
               PROVE  bar.warned <=> bar.bind % bar.size # 0
    BY DEF PowersWarned
  <2>1. bar # NoBar
    BY PowersNat DEF NoBar, Nil
  <2>2. PICK given \in LuaValues, at \in LuaValues, mem \in Memories \cup {NoMemory} :
          ~GetFails(given) /\ ~GetFails(at) /\ bar = NewBar(given, Get(given), Get(at), mem)
    BY <2>1 DEF Made
  <2>3. bar.given = given /\ Get(given) \in Powers
    BY <2>2, GetUnderstood DEF NewBar
  <2>4. bar.size = Get(given) /\ bar.bind = Get(at)
    BY <2>2, <2>3, PowerKept DEF NewBar
  <2>5. bar.warned = MisalignedByMask(Get(given), Get(at))
    BY <2>2 DEF NewBar
  <2>6. Get(at) \in Nat
    BY <2>2, GetTyped, SpanNat
  <2> QED BY <2>3, <2>4, <2>5, <2>6, MaskedPower
<1> QED BY <1>1, MadeHolds, PTL
=============================================================================
