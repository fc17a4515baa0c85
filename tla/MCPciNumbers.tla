---------------------------- MODULE MCPciNumbers -----------------------------
(***************************************************************************)
(* The instance of PciNumbers for TLC.                                     *)
(***************************************************************************)
EXTENDS PciNumbers

Plain(n) == [hex |-> FALSE, minus |-> FALSE, digits |-> n]
Prefixed(n) == [hex |-> TRUE, minus |-> FALSE, digits |-> n]
Negative(n) == [hex |-> FALSE, minus |-> TRUE, digits |-> n]

\* A number that fits, the ends of an identifier, twice its span, the span of all numbers.
MCTexts ==
  { Plain(n) : n \in {NoDigits, 0, 1, 4, 6, 8, 16} } \cup { Prefixed(n) : n \in {NoDigits, 3, 4} }
    \cup { Negative(1), Negative(4) }

\* All texts for the vendor, which is checked; one identifier and the revision vary.
MCEnvironment ==
  [ f \in Fields |->
      CASE f = "MAIN_VENDOR_ID" -> MCTexts \cup {Unset}
        [] f = "SUB_DEVICE_ID" -> {Unset, Prefixed(3), Plain(NoDigits)}
        [] f = "REVISION" -> {Unset, Plain(1), Plain(2)}
        [] OTHER -> {Unset} ]

As(kind, t) == [kind |-> kind, hex |-> t.hex, minus |-> t.minus, digits |-> t.digits]

MCLuaValues ==
  { As("int64", Plain(n)) : n \in 0 .. 15 } \cup { As("number", Plain(n)) : n \in {3, 4, 8} }
    \cup { As("string", t) : t \in MCTexts \cup {Plain(12)} } \cup {Nil}

\* Addresses of four bits: memories at the bottom, inside, and up to the top.
MCMemories ==
  { [base |-> 0, size |-> 8], [base |-> 4, size |-> 6], [base |-> 8, size |-> 8] }
=============================================================================
