------------------------------ MODULE LogConsole -----------------------------
(***************************************************************************)
(* LOG of src/testdrive_common.cpp, called without a lock by QEMU's main   *)
(* thread (scripts, realize, display), by vCPU threads (accesses to a BAR) *)
(* and by the threads of a simulation system (DMA errors).  One call is    *)
(* split where another thread can come between: the counter is read and    *)
(* written back, the colour of the console is set, the line is printed in  *)
(* one call of printf, the colour is reset.                                *)
(*                                                                         *)
(* A message is what LOG makes of its format: mark is the colour it names, *)
(* keep the '^' that asks for the colour to stay, text is FALSE for a NULL *)
(* format.  A '^' counts even when no valid colour follows it.             *)
(***************************************************************************)
EXTENDS Integers

CONSTANTS
  Threads,     \* threads that log
  Marks,       \* colours a format names, of 0 .. 6
  NoMark,      \* a format that names no colour
  Plain,       \* the colour of the console when nothing is set
  MaxCalls     \* bound on the calls of LOG

ASSUME ColourAssumption == Marks \subseteq 0 .. 6 /\ NoMark \notin 0 .. 6 /\ Plain \notin 0 .. 6
ASSUME MaxCallsAssumption == MaxCalls \in Nat

Counted == {"warning", "error"}
Levels == Counted \cup {"info"}
Message == [id : Levels, mark : Marks \cup {NoMark}, keep : BOOLEAN, text : BOOLEAN]

VARIABLES
  pc,          \* where each thread stands in LOG
  msg,         \* the message of its call
  read,        \* the counter as the thread read it
  count,       \* g_log_warning_count and g_log_error_count
  suppress,    \* __log_supress
  colour,      \* colour of the console
  calls,       \* calls so far
  logged,      \* increments completed at each level
  loggers,     \* threads that logged at each level
  kept         \* colours of the messages that asked to keep them

vars == <<pc, msg, read, count, suppress, colour, calls, logged, loggers, kept>>

NoMessage == [id |-> "info", mark |-> NoMark, keep |-> FALSE, text |-> FALSE]

\* The colour of a message: the one it names, or the one of its level.
ColourOf(m) ==
  IF m.mark # NoMark THEN m.mark
  ELSE IF m.id = "error" THEN 2 ELSE IF m.id = "warning" THEN 1 ELSE 0

\* A line is coloured when it is a warning or an error, or names a colour.
Coloured(m) == m.id \in Counted \/ m.mark # NoMark

\* Thread t leaves point a for point b.
Step(t, a, b) ==
  /\ pc[t] = a
  /\ pc' = [pc EXCEPT ![t] = b]

\* Mutant: a counter starts below zero.
InitBelowZero ==
  /\ pc = [t \in Threads |-> "idle"]
  /\ msg = [t \in Threads |-> NoMessage]
  /\ read = [t \in Threads |-> 0]
  /\ count = [l \in Counted |-> -1]
  /\ suppress = FALSE
  /\ colour = Plain
  /\ calls = 0
  /\ logged = [l \in Counted |-> 0]
  /\ loggers = [l \in Counted |-> {}]
  /\ kept = {}

Init ==
  /\ pc = [t \in Threads |-> "idle"]
  /\ msg = [t \in Threads |-> NoMessage]
  /\ read = [t \in Threads |-> 0]
  /\ count = [l \in Counted |-> 0]
  /\ suppress = FALSE
  /\ colour = Plain
  /\ calls = 0
  /\ logged = [l \in Counted |-> 0]
  /\ loggers = [l \in Counted |-> {}]
  /\ kept = {}

\* LOG_Suppress.
Suppress(b) ==
  /\ suppress' = b
  /\ UNCHANGED <<pc, msg, read, count, colour, calls, logged, loggers, kept>>

\* LOG is called; a suppressed call returns at once and changes nothing.
Call(t, m) ==
  /\ ~suppress /\ calls < MaxCalls
  /\ Step(t, "idle", IF m.id \in Counted THEN "count" ELSE IF m.text THEN "paint" ELSE "idle")
  /\ msg' = [msg EXCEPT ![t] = m]
  /\ calls' = calls + 1
  /\ UNCHANGED <<read, count, suppress, colour, logged, loggers, kept>>

\* The read of g_log_..._count++.
ReadCount(t) ==
  /\ Step(t, "count", "store")
  /\ read' = [read EXCEPT ![t] = count[msg[t].id]]
  /\ loggers' = [loggers EXCEPT ![msg[t].id] = @ \cup {t}]
  /\ UNCHANGED <<msg, count, suppress, colour, calls, logged, kept>>

\* Mutant: a message counts twice.
StoreTwice(t) ==
  /\ Step(t, "store", IF msg[t].text THEN "paint" ELSE "idle")
  /\ count' = [count EXCEPT ![msg[t].id] = read[t] + 2]
  /\ logged' = [logged EXCEPT ![msg[t].id] = @ + 1]
  /\ UNCHANGED <<msg, read, suppress, colour, calls, loggers, kept>>

\* Its write, which undoes what another thread wrote in between.  A NULL format is
\* counted and not printed.
StoreCount(t) ==
  /\ Step(t, "store", IF msg[t].text THEN "paint" ELSE "idle")
  /\ count' = [count EXCEPT ![msg[t].id] = read[t] + 1]
  /\ logged' = [logged EXCEPT ![msg[t].id] = @ + 1]
  /\ UNCHANGED <<msg, read, suppress, colour, calls, loggers, kept>>

Paint(t) ==
  /\ Step(t, "paint", "print")
  /\ colour' = IF Coloured(msg[t]) THEN ColourOf(msg[t]) ELSE colour
  /\ UNCHANGED <<msg, read, count, suppress, calls, logged, loggers, kept>>

\* The line goes out in whatever colour the console has by then.
PrintLine(t) ==
  /\ Step(t, "print", "reset")
  /\ UNCHANGED <<msg, read, count, suppress, colour, calls, logged, loggers, kept>>

\* Mutant: the colour is reset for messages of a level only.
ResetLevelsOnly(t) ==
  /\ Step(t, "reset", "idle")
  /\ colour' = IF msg[t].id \in Counted /\ ~msg[t].keep THEN Plain ELSE colour
  /\ kept' = IF Coloured(msg[t]) /\ msg[t].keep THEN kept \cup {ColourOf(msg[t])} ELSE kept
  /\ UNCHANGED <<msg, read, count, suppress, calls, logged, loggers>>

\* A coloured line resets the console, unless it asked to keep its colour.
Reset(t) ==
  /\ Step(t, "reset", "idle")
  /\ colour' = IF Coloured(msg[t]) /\ ~msg[t].keep THEN Plain ELSE colour
  /\ kept' = IF Coloured(msg[t]) /\ msg[t].keep THEN kept \cup {ColourOf(msg[t])} ELSE kept
  /\ UNCHANGED <<msg, read, count, suppress, calls, logged, loggers>>

Next ==
  \/ \E b \in BOOLEAN : Suppress(b)
  \/ \E t \in Threads :
       \/ \E m \in Message : Call(t, m)
       \/ ReadCount(t) \/ StoreCount(t) \/ Paint(t) \/ PrintLine(t) \/ Reset(t)

Spec == Init /\ [][Next]_vars

-----------------------------------------------------------------------------
(* Properties. *)

TypeOK ==
  /\ pc \in [Threads -> {"idle", "count", "store", "paint", "print", "reset"}]
  /\ msg \in [Threads -> Message]
  /\ read \in [Threads -> Nat]
  /\ count \in [Counted -> Nat]
  /\ suppress \in BOOLEAN
  /\ colour \in 0 .. 6 \cup {Plain}
  /\ calls \in 0 .. MaxCalls
  /\ logged \in [Counted -> Nat]
  /\ loggers \in [Counted -> SUBSET Threads]
  /\ kept \subseteq 0 .. 6

\* The counters of g_log_..._count++ without a lock: a counter may lose increments, and
\* even go down, but it never exceeds what was logged, it is not zero once something was,
\* and it is exact as long as a single thread logs at its level.
CountsSound ==
  \A l \in Counted :
    /\ count[l] <= logged[l]
    /\ logged[l] > 0 => count[l] > 0
    /\ (\A t, u \in loggers[l] : t = u) => count[l] = logged[l]

\* However the threads interleave, once no thread is in LOG the console has its own colour
\* back, or one that a message asked to keep.  LOG resets to a fixed colour: restoring
\* the one it found would leave the console in that of another thread.
ColourRestored ==
  (\A t \in Threads : pc[t] = "idle") => colour \in kept \cup {Plain}
=============================================================================
