-------------------------- MODULE LogConsole_proofs --------------------------
(***************************************************************************)
(* Proofs about LogConsole, for any set of threads and any number of calls.*)
(* CountsSound says nothing of a thread between the read and the write of  *)
(* a counter, nor ColourRestored of a line that is being printed: Pending  *)
(* and Painted do, and make them inductive.                                *)
(***************************************************************************)
EXTENDS LogConsole, TLAPS

\* The thread about to write the counter of level l.
Storing(t, l) == pc[t] = "store" /\ msg[t].id = l

Single(l) == \A t, u \in loggers[l] : t = u

\* What a thread read is never ahead of what was logged, nor behind it when it is alone.
Pending ==
  /\ \A t \in Threads : pc[t] \in {"count", "store"} => msg[t].id \in Counted
  /\ \A l \in Counted : \A t \in Threads :
       Storing(t, l) =>
         /\ t \in loggers[l]
         /\ read[t] <= logged[l]
         /\ Single(l) => read[t] = count[l]

\* The console has its own colour, a kept one, or that of a line being printed.
Painted ==
  \/ colour \in kept \cup {Plain}
  \/ \E t \in Threads :
       pc[t] \in {"print", "reset"} /\ Coloured(msg[t]) /\ colour = ColourOf(msg[t])

Inv == TypeOK /\ CountsSound /\ Pending /\ Painted

LEMMA ColourType == \A m \in Message : ColourOf(m) \in 0 .. 6
<1> SUFFICES ASSUME NEW m \in Message PROVE ColourOf(m) \in 0 .. 6
  OBVIOUS
<1>1. m.mark \in Marks \cup {NoMark}
  BY DEF Message
<1>2. CASE m.mark = NoMark
  BY <1>2 DEF ColourOf
<1>3. CASE m.mark # NoMark
  BY <1>1, <1>3, ColourAssumption DEF ColourOf
<1> QED BY <1>2, <1>3

LEMMA InitInv == Init => Inv
<1> SUFFICES ASSUME Init PROVE Inv
  OBVIOUS
<1> USE DEF Init
<1>1. NoMessage \in Message /\ 0 \in 0 .. MaxCalls
  BY MaxCallsAssumption DEF NoMessage, Message, Levels, Counted
<1>2. TypeOK
  BY <1>1 DEF TypeOK
<1>3. CountsSound
  BY DEF CountsSound
<1>4. Pending
  BY DEF Pending, Storing
<1>5. Painted
  BY DEF Painted
<1> QED BY <1>2, <1>3, <1>4, <1>5 DEF Inv

LEMMA TypeInv == TypeOK /\ Pending /\ [Next]_vars => TypeOK'
<1> SUFFICES ASSUME TypeOK, Pending, [Next]_vars PROVE TypeOK'
  OBVIOUS
<1> USE DEF TypeOK
<1>1. ASSUME NEW b \in BOOLEAN, Suppress(b) PROVE TypeOK'
  BY <1>1 DEF Suppress
<1>2. ASSUME NEW t \in Threads, NEW m \in Message, Call(t, m) PROVE TypeOK'
  BY <1>2, MaxCallsAssumption DEF Call, Step
<1>3. ASSUME NEW t \in Threads, ReadCount(t) PROVE TypeOK'
  <2>1. msg[t].id \in Counted
    BY <1>3 DEF ReadCount, Step, Pending
  <2> QED BY <1>3, <2>1 DEF ReadCount, Step
<1>4. ASSUME NEW t \in Threads, StoreCount(t) PROVE TypeOK'
  <2>1. msg[t].id \in Counted
    BY <1>4 DEF StoreCount, Step, Pending
  <2> QED BY <1>4, <2>1 DEF StoreCount, Step
<1>5. ASSUME NEW t \in Threads, Paint(t) PROVE TypeOK'
  BY <1>5, ColourType DEF Paint, Step
<1>6. ASSUME NEW t \in Threads, PrintLine(t) PROVE TypeOK'
  BY <1>6 DEF PrintLine, Step
<1>7. ASSUME NEW t \in Threads, Reset(t) PROVE TypeOK'
  BY <1>7, ColourType DEF Reset, Step
<1>8. CASE UNCHANGED vars
  BY <1>8 DEF vars
<1> QED BY <1>1, <1>2, <1>3, <1>4, <1>5, <1>6, <1>7, <1>8 DEF Next

LEMMA CountInv == Inv /\ [Next]_vars => CountsSound' /\ Pending'
<1> SUFFICES ASSUME Inv, [Next]_vars PROVE CountsSound' /\ Pending'
  OBVIOUS
<1> USE DEF Inv, TypeOK, CountsSound, Pending, Storing, Single
<1>1. ASSUME NEW b \in BOOLEAN, Suppress(b) PROVE CountsSound' /\ Pending'
  BY <1>1 DEF Suppress
<1>2. ASSUME NEW t \in Threads, NEW m \in Message, Call(t, m)
      PROVE CountsSound' /\ Pending'
  <2>1. CountsSound'
    BY <1>2 DEF Call
  <2>2. Pending'
    BY <1>2 DEF Call, Step
  <2> QED BY <2>1, <2>2
<1>3. ASSUME NEW t \in Threads, ReadCount(t) PROVE CountsSound' /\ Pending'
  <2> DEFINE k == msg[t].id
  <2>1. k \in Counted /\ pc[t] = "count"
    BY <1>3 DEF ReadCount, Step
  <2>2. CountsSound'
    BY <1>3, <2>1 DEF ReadCount
  <2>3. \A u \in Threads : pc'[u] \in {"count", "store"} => msg'[u].id \in Counted
    BY <1>3 DEF ReadCount, Step
  <2>4. ASSUME NEW l \in Counted, NEW u \in Threads, Storing(u, l)'
        PROVE /\ u \in loggers'[l] /\ read'[u] <= logged'[l]
              /\ Single(l)' => read'[u] = count'[l]
    <3>1. CASE u = t
      BY <1>3, <2>1, <2>4, <3>1 DEF ReadCount, Step
    <3>2. CASE u # t
      BY <1>3, <2>1, <2>4, <3>2 DEF ReadCount, Step
    <3> QED BY <3>1, <3>2
  <2> QED BY <2>2, <2>3, <2>4
<1>4. ASSUME NEW t \in Threads, StoreCount(t) PROVE CountsSound' /\ Pending'
  <2> DEFINE k == msg[t].id
  <2>1. k \in Counted /\ Storing(t, k)
    BY <1>4 DEF StoreCount, Step
  <2>2. /\ count' = [count EXCEPT ![k] = read[t] + 1]
        /\ logged' = [logged EXCEPT ![k] = @ + 1]
        /\ loggers' = loggers /\ read' = read /\ msg' = msg
    BY <1>4 DEF StoreCount
  <2>3. CountsSound'
    BY <2>1, <2>2
  <2>4. \A u \in Threads : pc'[u] \in {"count", "store"} => pc'[u] = pc[u] /\ u # t
    BY <1>4 DEF StoreCount, Step
  <2>5. Pending'
    BY <2>1, <2>2, <2>4
  <2> QED BY <2>3, <2>5
<1>5. ASSUME NEW t \in Threads, Paint(t) \/ PrintLine(t) \/ Reset(t)
      PROVE CountsSound' /\ Pending'
  <2>1. UNCHANGED <<msg, read, count, logged, loggers>>
    BY <1>5 DEF Paint, PrintLine, Reset
  <2>2. \A u \in Threads : pc'[u] \in {"count", "store"} => pc'[u] = pc[u]
    BY <1>5 DEF Paint, PrintLine, Reset, Step
  <2> QED BY <2>1, <2>2
<1>6. CASE UNCHANGED vars
  BY <1>6 DEF vars
<1> QED BY <1>1, <1>2, <1>3, <1>4, <1>5, <1>6 DEF Next

LEMMA PaintedInv == Inv /\ [Next]_vars => Painted'
<1> SUFFICES ASSUME Inv, [Next]_vars PROVE Painted'
  OBVIOUS
<1> USE DEF Inv, TypeOK, Painted
<1>1. ASSUME NEW b \in BOOLEAN, Suppress(b) PROVE Painted'
  BY <1>1 DEF Suppress
<1>2. ASSUME NEW t \in Threads, NEW m \in Message, Call(t, m) PROVE Painted'
  BY <1>2 DEF Call, Step
<1>3. ASSUME NEW t \in Threads, ReadCount(t) PROVE Painted'
  BY <1>3 DEF ReadCount, Step
<1>4. ASSUME NEW t \in Threads, StoreCount(t) PROVE Painted'
  BY <1>4 DEF StoreCount, Step
<1>5. ASSUME NEW t \in Threads, Paint(t) PROVE Painted'
  <2>1. CASE Coloured(msg[t])
    BY <1>5, <2>1 DEF Paint, Step
  <2>2. CASE ~Coloured(msg[t])
    BY <1>5, <2>2 DEF Paint, Step
  <2> QED BY <2>1, <2>2
<1>6. ASSUME NEW t \in Threads, PrintLine(t) PROVE Painted'
  BY <1>6 DEF PrintLine, Step
<1>7. ASSUME NEW t \in Threads, Reset(t) PROVE Painted'
  <2>1. CASE Coloured(msg[t]) /\ ~msg[t].keep
    BY <1>7, <2>1 DEF Reset
  <2>2. CASE Coloured(msg[t]) /\ msg[t].keep
    BY <1>7, <2>2 DEF Reset, Step
  <2>3. CASE ~Coloured(msg[t])
    BY <1>7, <2>3 DEF Reset, Step
  <2> QED BY <2>1, <2>2, <2>3
<1>8. CASE UNCHANGED vars
  BY <1>8 DEF vars
<1> QED BY <1>1, <1>2, <1>3, <1>4, <1>5, <1>6, <1>7, <1>8 DEF Next

LEMMA InvHolds == Spec => []Inv
<1>1. Inv /\ [Next]_vars => Inv'
  BY TypeInv, CountInv, PaintedInv DEF Inv
<1> QED BY InitInv, <1>1, PTL DEF Spec

\* The counters, the marks and the states of the callers are well typed: LOG.
THEOREM TypeCorrect == Spec => []TypeOK
<1>1. Inv => TypeOK
  BY DEF Inv
<1> QED BY <1>1, InvHolds, PTL

\* Whatever the threads and the order of their steps, the counters lose increments at
\* worst, and none while one thread logs alone.
THEOREM CountsCorrect == Spec => []CountsSound
<1>1. Inv => CountsSound
  BY DEF Inv
<1> QED BY <1>1, InvHolds, PTL

\* Whatever the threads and the order of their steps, the console is left in its own
\* colour or in one that a message asked to keep.
THEOREM ColourCorrect == Spec => []ColourRestored
<1>1. Inv => ColourRestored
  BY DEF Inv, Painted, ColourRestored
<1> QED BY <1>1, InvHolds, PTL
=============================================================================
