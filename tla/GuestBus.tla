------------------------------ MODULE GuestBus -------------------------------
(***************************************************************************)
(* What a TestDrive device promises to the guest and to its simulation     *)
(* system about data: a BAR is a window on the address space of the        *)
(* system, every access goes to the address bound to it whichever BAR it   *)
(* comes through.  A narrow access may be refused, whole, by a BAR that    *)
(* had no memory to lie in when it was created: outside of the memory, or  *)
(* with no system loaded yet.  Without a system nothing answers.  A        *)
(* transfer of the system takes what is at its address to the guest, or    *)
(* puts there what it got.                                                 *)
(***************************************************************************)
EXTENDS Integers

CONSTANTS
  Span,        \* size of the address space of the system, in lanes
  Word,        \* lanes of the widest access
  Memory,      \* the memory of the system, as [base, size]
  Windows,     \* where a BAR may be bound, as [bind, size]
  Values,      \* values of a lane
  Ones         \* the value read when nothing answers

VARIABLES
  system,      \* there is a system
  bars,        \* the BARs, as [bind, size, direct]
  cells,       \* what the system holds at each of its addresses
  call         \* the last request: [op, window, off, data]

vars == <<system, bars, cells, call>>

Lanes == 0 .. Span - 1
Pieces == UNION { [0 .. n - 1 -> Values] : n \in 1 .. Word }
Words == [0 .. Word - 1 -> Values]

\* The window a transfer of the system sees.
Whole == [bind |-> 0, size |-> Span, direct |-> FALSE]

Requests ==
  [op : {"read", "write"}, window : bars, off : Lanes, data : Pieces] \cup
  [op : {"to guest", "from guest"}, window : {Whole}, off : Lanes, data : Words]

Within(w) == w.bind >= Memory.base /\ w.bind + w.size <= Memory.base + Memory.size

\* Lane i of request r.
Lane(r, i) == (r.window.bind + r.off + i) % Span

Init ==
  /\ system = FALSE /\ bars = {}
  /\ cells \in [Lanes -> Values]
  /\ call = [op |-> "none", window |-> Whole, off |-> 0, data |-> <<>>]

\* A system is loaded or not, while no BAR depends on the memory of the last one.
Load ==
  /\ \A w \in bars : ~w.direct
  /\ system' \in BOOLEAN
  /\ UNCHANGED <<bars, cells, call>>

\* A BAR is bound: it accepts every access if it lies within the memory of a system.
Bind(w) ==
  /\ bars' = bars \cup {[bind |-> w.bind, size |-> w.size, direct |-> system /\ Within(w)]}
  /\ UNCHANGED <<system, cells, call>>

Unbind ==
  /\ bars' = {}
  /\ UNCHANGED <<system, cells, call>>

\* The system changes a lane of its own accord.
Change ==
  /\ system
  /\ \E a \in Lanes, x \in Values : cells' = [cells EXCEPT ![a] = x]
  /\ UNCHANGED <<system, bars, call>>

\* The data of request r is what is there.
Take(r) ==
  /\ system /\ r.op \in {"read", "to guest"}
  /\ \A i \in DOMAIN r.data : r.data[i] = cells[Lane(r, i)]
  /\ UNCHANGED cells

\* The data of request r is put there, and nowhere else.
Put(r) ==
  /\ system /\ r.op \in {"write", "from guest"}
  /\ cells' \in [Lanes -> Values]
  /\ \A i \in DOMAIN r.data : cells'[Lane(r, i)] = r.data[i]
  /\ \A a \in Lanes : (\A i \in DOMAIN r.data : a # Lane(r, i)) => cells'[a] = cells[a]

\* A refused read returns ones, a refused write does nothing.
Refuse(r) ==
  /\ r.op \in {"read", "write"}
  /\ ~r.window.direct /\ (system => r.data \notin Words)
  /\ r.op = "read" => \A i \in DOMAIN r.data : r.data[i] = Ones
  /\ UNCHANGED cells

\* One request at a time is answered.
Answer ==
  /\ call' \in Requests /\ (Take(call') \/ Put(call') \/ Refuse(call'))
  /\ UNCHANGED <<system, bars>>

Next == Change \/ Answer \/ Load \/ Unbind \/ \E w \in Windows : Bind(w)

Spec == Init /\ [][Next]_vars
=============================================================================
