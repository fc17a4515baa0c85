------------------------- MODULE LuaLibraries_proofs -------------------------
(***************************************************************************)
(* Proofs about the two libraries that scripts use: LuaFiles, for any      *)
(* number of processes, objects and handles and every set of byte ranges,  *)
(* and LuaString, for texts of any length.                                 *)
(***************************************************************************)
EXTENDS LuaFiles, LuaString, SequenceTheorems, TLAPS

-----------------------------------------------------------------------------
(* LuaFiles. *)

Objects == Dirs \cup DirLocks \cup Files

\* The handles that closing what is in a slot would close.
OwnedIn(o) == IF o = NoObject THEN {} ELSE Owned(o)

\* lock_dir creates its file without sharing.
LockfileOnce ==
  \A p, q \in Procs, h, g \in Handles :
    opened[p][h] = "lockfile" /\ opened[q][g] = "lockfile" => p = q /\ h = g

\* No two locks meet, and a lock of the whole file starts at its first byte.
Regions ==
  /\ \A w, r \in locked : r # w => ~Overlap(w, r)
  /\ \A w \in locked : w.whole = 0 \/ (w.from = 0 /\ w.len = w.whole)

LEMMA OwnedTyped ==
  ASSUME NEW o \in Objects PROVE /\ Owned(o) \subseteq Handles
                                 /\ \A h, g \in Owned(o) : h = g
<1> USE HandleAssumption DEF Objects, Owned
<1>1. CASE o \in Dirs
  BY <1>1 DEF Dirs
<1>2. CASE o \in DirLocks
  BY <1>2 DEF DirLocks
<1>3. CASE o \in Files
  BY <1>3 DEF Files
<1> QED BY <1>1, <1>2, <1>3

LEMMA PurposeTyped ==
  ASSUME NEW o \in Objects PROVE Purpose(o) \in {"search", "lockfile", "file"} /\ Purpose(o) # Free
BY FreeAssumption DEF Objects, Dirs, DirLocks, Files, Purpose

LEMMA ClosedTyped ==
  ASSUME NEW o \in Objects
  PROVE  /\ o.kind = "dir" => Ended(o) \in Objects /\ Owned(Ended(o)) = {}
         /\ o.kind # "dir" => Freed(o) \in Objects /\ Owned(Freed(o)) = {}
<1> USE HandleAssumption DEF Objects, Owned, Ended, Freed
<1>1. CASE o \in Dirs
  BY <1>1 DEF Dirs
<1>2. CASE o \in DirLocks
  BY <1>2 DEF DirLocks
<1>3. CASE o \in Files
  BY <1>3 DEF Files
<1> QED BY <1>1, <1>2, <1>3

-----------------------------------------------------------------------------
(* Two kinds of step change objects: one opens a handle, one gives it up. *)

\* The object o takes the place of one that owned nothing and owns a new handle.
Opening(p, s, o, h) ==
  /\ OwnedIn(object[p][s]) = {} /\ o \in Objects /\ Owned(o) = {h}
  /\ o.kind = "lock" => ~LockfileOpen
  /\ opened[p][h] = Free
  /\ object' = [object EXCEPT ![p][s] = o]
  /\ opened' = [opened EXCEPT ![p][h] = Purpose(o)]
  /\ UNCHANGED locked

\* The object o, or no object, takes the place of one whose handle is closed.
Closing(p, s, o) ==
  /\ o \in Objects \cup {NoObject} /\ OwnedIn(o) = {}
  /\ object' = [object EXCEPT ![p][s] = o]
  /\ Closes(p, OwnedIn(object[p][s]))

LEMMA OpeningHandles ==
  ASSUME TypeOK, HandlesOwned, NEW p \in Procs, NEW s \in Slots, NEW h \in Handles, NEW o,
         Opening(p, s, o, h)
  PROVE  HandlesOwned'
<1> USE DEF Opening, TypeOK, Objects, OwnedIn
<1>1. o # NoObject /\ Purpose(o) # Free
  BY NoObjectAssumption, PurposeTyped
<1>2. \A t \in Slots : ~Owns(p, t, h)
  BY PurposeTyped DEF HandlesOwned, Owns
<1>3. \A q \in Procs, t \in Slots : <<q, t>> # <<p, s>> => object'[q][t] = object[q][t]
  OBVIOUS
<1>4. \A q \in Procs, g \in Handles : <<q, g>> # <<p, h>> => opened'[q][g] = opened[q][g]
  OBVIOUS
<1>5. object'[p][s] = o /\ opened'[p][h] = Purpose(o)
  OBVIOUS
<1>6. \A q \in Procs, t \in Slots, g \in Handles :
        Owns(q, t, g)' <=> Owns(q, t, g) \/ <<q, t, g>> = <<p, s, h>>
  BY <1>1, <1>3, <1>5 DEF Owns
<1> SUFFICES ASSUME NEW q \in Procs, NEW g \in Handles
             PROVE  /\ opened'[q][g] # Free => \E t \in Slots : Owns(q, t, g)'
                    /\ \A t \in Slots : Owns(q, t, g)' =>
                         /\ opened'[q][g] = Purpose(object'[q][t])
                         /\ \A u \in Slots : Owns(q, u, g)' => u = t
  BY DEF HandlesOwned
<1>7. CASE <<q, g>> = <<p, h>>
  BY <1>2, <1>5, <1>6, <1>7
<1>8. CASE <<q, g>> # <<p, h>>
  <2>1. opened'[q][g] = opened[q][g] /\ \A t \in Slots : Owns(q, t, g)' <=> Owns(q, t, g)
    BY <1>4, <1>6, <1>8
  <2>2. \A t \in Slots : Owns(q, t, g) => object'[q][t] = object[q][t]
    BY <1>3 DEF Owns
  <2> QED BY <2>1, <2>2 DEF HandlesOwned
<1> QED BY <1>7, <1>8

LEMMA ClosingHandles ==
  ASSUME TypeOK, HandlesOwned, NEW p \in Procs, NEW s \in Slots, NEW o, Closing(p, s, o)
  PROVE  HandlesOwned'
<1> USE DEF Closing, Closes, TypeOK, Objects, OwnedIn
<1>1. \A q \in Procs, t \in Slots : <<q, t>> # <<p, s>> => object'[q][t] = object[q][t]
  OBVIOUS
<1>2. \A g \in Handles : ~Owns(p, s, g)'
  BY DEF Owns
<1>3. \A q \in Procs, t \in Slots, g \in Handles :
        Owns(q, t, g)' <=> Owns(q, t, g) /\ <<q, t>> # <<p, s>>
  BY <1>1, <1>2 DEF Owns
<1>4. \A q \in Procs, g \in Handles :
        opened'[q][g] = IF q = p /\ Owns(p, s, g) THEN Free ELSE opened[q][g]
  BY DEF Owns
<1> SUFFICES ASSUME NEW q \in Procs, NEW g \in Handles
             PROVE  /\ opened'[q][g] # Free => \E t \in Slots : Owns(q, t, g)'
                    /\ \A t \in Slots : Owns(q, t, g)' =>
                         /\ opened'[q][g] = Purpose(object'[q][t])
                         /\ \A u \in Slots : Owns(q, u, g)' => u = t
  BY DEF HandlesOwned
<1>5. CASE q = p /\ Owns(p, s, g)
  <2>1. \A t \in Slots : Owns(p, t, g) => t = s
    BY <1>5 DEF HandlesOwned
  <2> QED BY <1>3, <1>4, <1>5, <2>1
<1>6. CASE ~(q = p /\ Owns(p, s, g))
  <2>1. opened'[q][g] = opened[q][g] /\ \A t \in Slots : Owns(q, t, g)' <=> Owns(q, t, g)
    BY <1>3, <1>4, <1>6
  <2>2. \A t \in Slots : Owns(q, t, g) => object'[q][t] = object[q][t]
    BY <1>1, <1>6 DEF Owns
  <2> QED BY <2>1, <2>2 DEF HandlesOwned
<1> QED BY <1>5, <1>6

\* Every step is of one of these kinds.
Opened == \E p \in Procs, s \in Slots, h \in Handles : \E o \in Objects : Opening(p, s, o, h)

Closed == \E p \in Procs, s \in Slots : \E o \in Objects \cup {NoObject} : Closing(p, s, o)

Exited == \E p \in Procs : Exit(p)

Kinds == Opened \/ Closed \/ Exited \/ UNCHANGED <<object, opened>>

LEMMA OpeningSteps ==
  ASSUME TypeOK, NEW p \in Procs, NEW s \in Slots, NEW h \in Handles,
         FirstEntry(p, s, h) \/ LockDir(p, s, h) \/ \E n \in {0, size} : IoOpen(p, s, h, n)
  PROVE  Opened
<1> USE HandleAssumption, NoObjectAssumption DEF Opening, Opens, OwnedIn, Owned, Purpose, Objects
<1>1. CASE FirstEntry(p, s, h)
  <2> DEFINE o == [object[p][s] EXCEPT !.h = h]
  <2>1. object[p][s] \in Dirs /\ ~object[p][s].closed /\ object[p][s].h = Zero
    BY <1>1 DEF FirstEntry, CanStep, IsDir, TypeOK, DirLocks, Files
  <2>2. o \in Dirs /\ o.kind = "dir" /\ ~o.closed /\ o.h = h
    BY <2>1 DEF Dirs
  <2>3. OwnedIn(object[p][s]) = {} /\ Owned(o) = {h} /\ Purpose(o) = "search"
    BY <2>1, <2>2 DEF Dirs
  <2>4. object' = [object EXCEPT ![p][s] = o]
    BY <1>1 DEF FirstEntry, TypeOK
  <2>5. Opening(p, s, o, h)
    BY <1>1, <2>2, <2>3, <2>4 DEF FirstEntry
  <2> QED BY <2>2, <2>5 DEF Opened
<1>2. CASE LockDir(p, s, h)
  <2> DEFINE o == [kind |-> "lock", h |-> h]
  <2>1. o \in DirLocks /\ o.kind = "lock" /\ Owned(o) = {h} /\ Purpose(o) = "lockfile"
    BY DEF DirLocks
  <2>2. Opening(p, s, o, h)
    BY <1>2, <2>1 DEF LockDir
  <2> QED BY <2>1, <2>2 DEF Opened
<1>3. ASSUME NEW n \in {0, size}, IoOpen(p, s, h, n) PROVE Opened
  <2> DEFINE o == [kind |-> "file", h |-> h]
  <2>1. o \in Files /\ o.kind = "file" /\ Owned(o) = {h} /\ Purpose(o) = "file"
    BY DEF Files
  <2>2. Opening(p, s, o, h)
    BY <1>3, <2>1 DEF IoOpen
  <2> QED BY <2>1, <2>2 DEF Opened
<1> QED BY <1>1, <1>2, <1>3

LEMMA NothingCloses ==
  ASSUME TypeOK, NEW p \in Procs, UNCHANGED <<opened, locked>> PROVE Closes(p, {})
BY DEF Closes, TypeOK

LEMMA ClosingSteps ==
  ASSUME TypeOK, NEW p \in Procs, NEW s \in Slots,
         \/ DirIterFactory(p, s) \/ NoFirstEntry(p, s) \/ NoMoreEntries(p, s)
         \/ Close(p, s) \/ Collect(p, s)
  PROVE  Closed
<1> USE HandleAssumption, NoObjectAssumption, NothingCloses DEF Closing, OwnedIn, Objects
<1>1. CASE DirIterFactory(p, s)
  <2> DEFINE o == [kind |-> "dir", closed |-> FALSE, h |-> Zero]
  <2>1. o \in Dirs /\ Owned(o) = {}
    BY DEF Dirs, Owned
  <2>2. Closing(p, s, o)
    BY <1>1, <2>1 DEF DirIterFactory
  <2> QED BY <2>1, <2>2 DEF Closed
<1>2. CASE NoFirstEntry(p, s)
  <2>1. object[p][s] \in Dirs /\ object[p][s].h = Zero
    BY <1>2 DEF NoFirstEntry, CanStep, IsDir, TypeOK, DirLocks, Files
  <2>2. /\ Failed(object[p][s]) \in Dirs
        /\ Owned(Failed(object[p][s])) = {}
        /\ Owned(object[p][s]) = {}
    BY <2>1 DEF Failed, Dirs, Owned
  <2>3. Closing(p, s, Failed(object[p][s]))
    BY <1>2, <2>1, <2>2 DEF NoFirstEntry, TypeOK
  <2> QED BY <2>2, <2>3 DEF Closed
<1>3. CASE NoMoreEntries(p, s)
  <2>1. object[p][s] \in Dirs /\ object[p][s].h # Zero /\ ~object[p][s].closed
    BY <1>3 DEF NoMoreEntries, CanStep, IsDir, TypeOK, DirLocks, Files
  <2>2. object[p][s].kind = "dir" /\ Owned(object[p][s]) = {object[p][s].h}
    BY <2>1 DEF Dirs, Owned
  <2>3. Ended(object[p][s]) \in Objects /\ Owned(Ended(object[p][s])) = {}
    BY <2>1, <2>2, ClosedTyped
  <2>4. object' = [object EXCEPT ![p][s] = Ended(object[p][s])]
    BY <1>3 DEF NoMoreEntries, TypeOK
  <2>5. Closing(p, s, Ended(object[p][s]))
    BY <1>3, <2>1, <2>2, <2>3, <2>4 DEF NoMoreEntries
  <2> QED BY <2>3, <2>5 DEF Closed
<1>4. CASE Close(p, s)
  <2> DEFINE o == IF object[p][s].kind = "dir" THEN Ended(object[p][s]) ELSE Freed(object[p][s])
  <2>1. object[p][s] \in Objects /\ object[p][s] # NoObject
    BY <1>4 DEF Close, TypeOK
  <2>2. o \in Objects /\ Owned(o) = {}
    BY <2>1, ClosedTyped
  <2>3. object' = [object EXCEPT ![p][s] = o]
    BY <1>4 DEF Close, TypeOK
  <2>4. Closing(p, s, o)
    BY <1>4, <2>1, <2>2, <2>3 DEF Close
  <2> QED BY <2>2, <2>4 DEF Closed
<1>5. CASE Collect(p, s)
  <2>1. Closing(p, s, NoObject)
    BY <1>5 DEF Collect
  <2> QED BY <2>1 DEF Closed
<1> QED BY <1>1, <1>2, <1>3, <1>4, <1>5

LEMMA StepKinds == TypeOK /\ [Next]_vars => Kinds
<1> SUFFICES ASSUME TypeOK, [Next]_vars PROVE Kinds
  OBVIOUS
<1> USE DEF Kinds
<1>1. ASSUME NEW p \in Procs, NEW s \in Slots,
             \/ DirIterFactory(p, s) \/ NoFirstEntry(p, s) \/ NoMoreEntries(p, s)
             \/ Close(p, s) \/ Collect(p, s)
      PROVE  Kinds
  BY <1>1, ClosingSteps
<1>2. ASSUME NEW p \in Procs, NEW s \in Slots, NEW h \in Handles,
             FirstEntry(p, s, h) \/ LockDir(p, s, h) \/ \E n \in {0, size} : IoOpen(p, s, h, n)
      PROVE  Kinds
  BY <1>2, OpeningSteps
<1>3. ASSUME NEW p \in Procs, NEW s \in Slots,
             \/ Write(p, s)
             \/ \E a \in Ranges : FileUnlock(p, s, a[1], a[2])
             \/ \E a \in Ranges, mode \in Modes : FileLock(p, s, mode, a[1], a[2])
      PROVE  Kinds
  BY <1>3 DEF Write, FileLock, FileUnlock
<1>4. CASE UNCHANGED vars
  BY <1>4 DEF vars
<1> QED BY <1>1, <1>2, <1>3, <1>4 DEF Next, Exited

-----------------------------------------------------------------------------
(* Handles. *)

LEMMA ExitHandles ==
  ASSUME TypeOK, HandlesOwned, NEW p \in Procs, Exit(p) PROVE HandlesOwned'
<1> USE DEF Exit, Closes, TypeOK
<1>1. \A q \in Procs \ {p} : object'[q] = object[q] /\ opened'[q] = opened[q]
  OBVIOUS
<1>2. \A s \in Slots : object'[p][s] = NoObject
  OBVIOUS
<1>3. \A h \in Handles : opened'[p][h] = Free
  OBVIOUS
<1>4. \A q \in Procs, s \in Slots, h \in Handles : Owns(q, s, h)' <=> q # p /\ Owns(q, s, h)
  BY <1>1, <1>2 DEF Owns
<1> QED BY <1>1, <1>3, <1>4 DEF HandlesOwned

LEMMA HandlesStep == TypeOK /\ HandlesOwned /\ [Next]_vars => HandlesOwned'
<1> SUFFICES ASSUME TypeOK, HandlesOwned, [Next]_vars PROVE HandlesOwned'
  OBVIOUS
<1>1. CASE Opened
  BY <1>1, OpeningHandles DEF Opened
<1>2. CASE Closed
  BY <1>2, ClosingHandles DEF Closed
<1>3. CASE Exited
  BY <1>3, ExitHandles DEF Exited
<1>4. CASE UNCHANGED <<object, opened>>
  BY <1>4 DEF HandlesOwned, Owns
<1> QED BY <1>1, <1>2, <1>3, <1>4, StepKinds DEF Kinds

LEMMA LockfileStep == TypeOK /\ LockfileOnce /\ [Next]_vars => LockfileOnce'
<1> SUFFICES ASSUME TypeOK, LockfileOnce, [Next]_vars PROVE LockfileOnce'
  OBVIOUS
<1> USE DEF LockfileOnce, TypeOK
<1>1. ASSUME NEW p \in Procs, NEW s \in Slots, NEW h \in Handles, NEW o \in Objects,
             Opening(p, s, o, h)
      PROVE  LockfileOnce'
  <2>1. Purpose(o) = "lockfile" => ~LockfileOpen
    BY <1>1 DEF Opening, Purpose, Objects, Dirs, DirLocks, Files
  <2>2. \A q \in Procs, g \in Handles : <<q, g>> # <<p, h>> => opened'[q][g] = opened[q][g]
    BY <1>1 DEF Opening
  <2>3. opened'[p][h] = Purpose(o)
    BY <1>1 DEF Opening
  <2>4. CASE Purpose(o) = "lockfile"
    <3>1. \A q \in Procs, g \in Handles : opened'[q][g] = "lockfile" => q = p /\ g = h
      BY <2>1, <2>2, <2>4 DEF LockfileOpen
    <3> QED BY <3>1
  <2>5. CASE Purpose(o) # "lockfile"
    <3>1. \A q \in Procs, g \in Handles : opened'[q][g] = "lockfile" => opened[q][g] = "lockfile"
      BY <2>2, <2>3, <2>5
    <3> QED BY <3>1
  <2> QED BY <2>4, <2>5
<1>2. (\A q \in Procs, h \in Handles : opened'[q][h] \in {opened[q][h], Free}) => LockfileOnce'
  BY FreeAssumption
<1>3. CASE Closed
  <2> PICK p \in Procs, s \in Slots : \E o \in Objects \cup {NoObject} : Closing(p, s, o)
    BY <1>3 DEF Closed
  <2>1. Closes(p, OwnedIn(object[p][s]))
    BY DEF Closing
  <2>2. \A q \in Procs, h \in Handles : opened'[q][h] \in {opened[q][h], Free}
    BY <2>1 DEF Closes
  <2> QED BY <1>2, <2>2
<1>4. CASE Exited
  BY <1>2, <1>4 DEF Exited, Exit, Closes
<1>5. CASE UNCHANGED <<object, opened>>
  BY <1>5
<1> QED BY <1>1, <1>3, <1>4, <1>5, StepKinds DEF Kinds, Opened

-----------------------------------------------------------------------------
(* Types, by the part of the state. *)

LEMMA ObjectTypes == TypeOK /\ [Next]_vars =>
  /\ object' \in [Procs -> [Slots -> Objects \cup {NoObject}]]
  /\ opened' \in [Procs -> [Handles -> {"search", "lockfile", "file", Free}]]
<1> SUFFICES ASSUME TypeOK, [Next]_vars
             PROVE  /\ object' \in [Procs -> [Slots -> Objects \cup {NoObject}]]
                    /\ opened' \in [Procs -> [Handles -> {"search", "lockfile", "file", Free}]]
  OBVIOUS
<1>0. /\ object \in [Procs -> [Slots -> Objects \cup {NoObject}]]
      /\ opened \in [Procs -> [Handles -> {"search", "lockfile", "file", Free}]]
  BY DEF TypeOK, Objects
<1>1. CASE Opened
  BY <1>0, <1>1, PurposeTyped DEF Opened, Opening
<1>2. CASE Closed
  BY <1>0, <1>2 DEF Closed, Closing, Closes
<1>3. CASE Exited
  BY <1>0, <1>3 DEF Exited, Exit, Closes
<1>4. CASE UNCHANGED <<object, opened>>
  BY <1>0, <1>4
<1> QED BY <1>1, <1>2, <1>3, <1>4, StepKinds DEF Kinds

Region0 == [proc : Procs, h : Handles, from : Nat, len : Nat, whole : Nat]

LEMMA RegionTyped ==
  ASSUME TypeOK, NEW p \in Procs, NEW s \in Slots, Usable(p, s), NEW a \in Ranges,
         NEW from \in From(a[1], a[2])
  PROVE  Region(p, s, a[1], a[2], from) \in Region0
<1>1. object[p][s] \in Files /\ object[p][s].h \in Handles
  <2>1. object[p][s] \in Dirs \cup DirLocks \cup Files \cup {NoObject}
    BY DEF TypeOK
  <2>2. object[p][s] \in Files
    BY <2>1 DEF Usable, IsFile, Dirs, DirLocks, Files
  <2> QED BY <2>2 DEF Usable, Files
<1>2. a[1] \in Int /\ a[2] \in Nat /\ size \in Nat
  BY RegionAssumption DEF TypeOK
<1>3. from \in Nat
  BY <1>2, RegionAssumption DEF From
<1> QED BY <1>1, <1>2, <1>3 DEF Region, Region0

\* How a step changes the locked ranges: it adds one that meets no other, or gives some up.
Adds(g) == locked' = locked \cup {g} /\ \A r \in locked : ~Overlap(g, r)

FileStep ==
  \/ \E p \in Procs, s \in Slots, a \in Ranges : \E from \in From(a[1], a[2]) :
       Usable(p, s) /\ Adds(Region(p, s, a[1], a[2], from))
  \/ locked' \subseteq locked

LEMMA LockedSteps == TypeOK /\ [Next]_vars => FileStep /\ size' \in 0 .. MaxSize
<1> SUFFICES ASSUME TypeOK, [Next]_vars PROVE FileStep /\ size' \in 0 .. MaxSize
  OBVIOUS
<1> USE RegionAssumption DEF TypeOK, FileStep
<1>1. ASSUME NEW p \in Procs, NEW s \in Slots PROVE
       /\ DirIterFactory(p, s) \/ NoFirstEntry(p, s) => locked' = locked /\ size' = size
       /\ NoMoreEntries(p, s) \/ Close(p, s) \/ Collect(p, s) =>
            locked' \subseteq locked /\ size' = size
       /\ Write(p, s) => locked' = locked /\ size' \in 0 .. MaxSize
  BY DEF DirIterFactory, NoFirstEntry, NoMoreEntries, Close, Collect, Write, Closes
<1>2. ASSUME NEW p \in Procs, NEW s \in Slots, NEW h \in Handles PROVE
       /\ FirstEntry(p, s, h) \/ LockDir(p, s, h) => locked' = locked /\ size' = size
       /\ \A n \in {0, size} : IoOpen(p, s, h, n) => locked' = locked /\ size' \in 0 .. MaxSize
  BY DEF FirstEntry, LockDir, IoOpen
<1>3. ASSUME NEW p \in Procs, NEW s \in Slots, NEW a \in Ranges PROVE
       /\ FileUnlock(p, s, a[1], a[2]) => locked' \subseteq locked /\ size' = size
       /\ \A mode \in Modes : FileLock(p, s, mode, a[1], a[2]) => FileStep /\ size' = size
  <2> DEFINE g(from) == Region(p, s, a[1], a[2], from)
  <2>1. ASSUME NEW from \in From(a[1], a[2]) PROVE
          \A mode \in Modes : Locking(g(from), mode) => Adds(g(from)) \/ locked' \subseteq locked
    BY DEF Locking, Adds
  <2>2. ASSUME NEW from \in From(a[1], a[2]) PROVE
          Locking(g(from), "u") => locked' \subseteq locked
    BY DEF Locking
  <2> QED BY <2>1, <2>2 DEF FileLock, FileUnlock
<1>4. ASSUME NEW p \in Procs PROVE Exit(p) => locked' \subseteq locked /\ size' = size
  BY DEF Exit, Closes
<1>5. CASE UNCHANGED vars
  BY <1>5 DEF vars
<1> QED BY <1>1, <1>2, <1>3, <1>4, <1>5 DEF Next

LEMMA RegionsStep == TypeOK /\ Regions /\ [Next]_vars => Regions'
<1> SUFFICES ASSUME TypeOK, Regions, [Next]_vars PROVE Regions'
  OBVIOUS
<1> USE DEF Regions
<1>1. ASSUME NEW p \in Procs, NEW s \in Slots, NEW a \in Ranges, NEW from \in From(a[1], a[2]),
             Adds(Region(p, s, a[1], a[2], from))
      PROVE  Regions'
  <2> DEFINE n == Region(p, s, a[1], a[2], from)
  <2>1. locked' = locked \cup {n} /\ \A r \in locked : ~Overlap(n, r)
    BY <1>1 DEF Adds
  <2>2. \A r \in locked : ~Overlap(r, n)
    BY <2>1 DEF Overlap
  <2>3. n.whole = 0 \/ (n.from = 0 /\ n.len = n.whole)
    BY DEF Region, From
  <2>4. \A w, r : Overlap(w, r)' <=> Overlap(w, r)
    BY DEF Overlap, Bytes
  <2>5. \A w, r \in locked' : r # w => ~Overlap(w, r)
    <3> HIDE DEF n
    <3> QED BY <2>1, <2>2
  <2>6. \A w \in locked' : w.whole = 0 \/ (w.from = 0 /\ w.len = w.whole)
    <3> HIDE DEF n
    <3> QED BY <2>1, <2>3
  <2> QED BY <2>4, <2>5, <2>6
<1>2. CASE locked' \subseteq locked
  BY <1>2 DEF Overlap, Bytes
<1> QED BY <1>1, <1>2, LockedSteps DEF FileStep

LEMMA TypeStep == TypeOK /\ [Next]_vars => TypeOK'
<1> SUFFICES ASSUME TypeOK, [Next]_vars PROVE TypeOK'
  OBVIOUS
<1>1. locked \subseteq Region0
  BY DEF TypeOK, Region0
<1>2. locked' \subseteq Region0
  <2>1. ASSUME NEW p \in Procs, NEW s \in Slots, NEW a \in Ranges, NEW from \in From(a[1], a[2]),
               Usable(p, s), Adds(Region(p, s, a[1], a[2], from))
        PROVE  locked' \subseteq Region0
    BY <1>1, <2>1, RegionTyped DEF Adds
  <2> QED BY <1>1, <2>1, LockedSteps DEF FileStep
<1> QED BY <1>2, ObjectTypes, LockedSteps DEF TypeOK, Objects, Region0

-----------------------------------------------------------------------------
(* The theorems. *)

Inv == TypeOK /\ HandlesOwned /\ LockfileOnce /\ Regions

LEMMA InitInv == Init => Inv
<1> SUFFICES ASSUME Init PROVE Inv
  OBVIOUS
<1> USE DEF Init
<1>1. TypeOK
  BY RegionAssumption DEF TypeOK
<1>2. HandlesOwned
  BY DEF HandlesOwned, Owns
<1>3. LockfileOnce
  BY FreeAssumption DEF LockfileOnce
<1>4. Regions
  BY DEF Regions
<1> QED BY <1>1, <1>2, <1>3, <1>4 DEF Inv

LEMMA Invariance == Spec => []Inv
<1>1. Inv /\ [Next]_vars => Inv'
  BY TypeStep, HandlesStep, LockfileStep, RegionsStep DEF Inv
<1> QED BY <1>1, InitInv, PTL DEF Spec

\* The objects of the library are well typed: an iterator that can be stepped does not
\* hold the failure value of _findfirst (dir_iter).
THEOREM TypeCorrect == Spec => []TypeOK
<1>1. Inv => TypeOK
  BY DEF Inv
<1> QED BY <1>1, Invariance, PTL

\* No handle leaks and none is closed under another object (dir_iter, dir_close,
\* lfs_unlock_dir).
THEOREM HandlesCorrect == Spec => []HandlesOwned
<1>1. Inv => HandlesOwned
  BY DEF Inv
<1> QED BY <1>1, Invariance, PTL

\* A lock of the whole file keeps every other lock off the bytes it covered (_file_lock).
THEOREM WholeFileCorrect == Spec => []WholeFileExclusive
<1>1. ASSUME Inv PROVE WholeFileExclusive
  <2> SUFFICES ASSUME NEW w \in locked, NEW r \in locked, r # w
               PROVE  Bytes(r) \cap (0 .. w.whole - 1) = {}
    BY DEF WholeFileExclusive
  <2>1. w \in [proc : Procs, h : Handles, from : Nat, len : Nat, whole : Nat]
    BY <1>1 DEF Inv, TypeOK
  <2>2. CASE w.whole = 0
    BY <2>2
  <2>3. CASE w.whole # 0
    <3>1. w.from = 0 /\ w.len = w.whole /\ ~Overlap(w, r)
      BY <1>1, <2>3 DEF Inv, Regions
    <3>2. Bytes(w) = 0 .. w.whole - 1
      BY <2>1, <3>1 DEF Bytes
    <3> QED BY <3>1, <3>2 DEF Overlap
  <2> QED BY <2>2, <2>3
<1> QED BY <1>1, Invariance, PTL

-----------------------------------------------------------------------------
(* Refinement: who holds the directory. *)

Holds(p, s) == IsLock(p, s) /\ object[p][s].h # Invalid

LEMMA HoldingOwns ==
  ASSUME Inv, NEW p \in Procs, NEW s \in Slots, Holds(p, s)
  PROVE  /\ object[p][s].h \in Handles /\ OwnedIn(object[p][s]) = {object[p][s].h}
         /\ opened[p][object[p][s].h] = "lockfile"
<1> USE DEF Inv, Holds, IsLock
<1>1. object[p][s] \in Objects /\ object[p][s].kind = "lock" /\ object[p][s] # NoObject
  BY DEF TypeOK, Objects
<1>2. object[p][s].h \in Handles
  BY <1>1 DEF Objects, Dirs, DirLocks, Files
<1>3. Owned(object[p][s]) = {object[p][s].h} /\ Purpose(object[p][s]) = "lockfile"
  BY <1>1 DEF Owned, Purpose
<1>4. Owns(p, s, object[p][s].h)
  BY <1>1, <1>3 DEF Owns
<1>5. opened[p][object[p][s].h] = Purpose(object[p][s])
  BY <1>2, <1>4 DEF HandlesOwned
<1> QED BY <1>1, <1>2, <1>3, <1>5 DEF OwnedIn

\* Mutual exclusion among the lock objects of all processes.
LEMMA HolderUnique ==
  ASSUME Inv, NEW p \in Procs, NEW s \in Slots, NEW q \in Procs, NEW t \in Slots,
         Holds(p, s), Holds(q, t)
  PROVE  p = q /\ s = t
<1>1. p = q /\ object[p][s].h = object[q][t].h
  BY HoldingOwns DEF Inv, LockfileOnce
<1>2. Owns(p, s, object[p][s].h) /\ Owns(p, t, object[p][s].h) /\ object[p][s].h \in Handles
  BY <1>1, HoldingOwns DEF Owns, OwnedIn, Holds, IsLock
<1> QED BY <1>1, <1>2 DEF Inv, HandlesOwned

LEMMA OpeningHolds ==
  ASSUME Inv, NEW p \in Procs, NEW s \in Slots, NEW h \in Handles, NEW o \in Objects,
         Opening(p, s, o, h)
  PROVE  [Lock!Next]_Holding
<1> USE DEF Opening
<1>1. ~Holds(p, s)
  BY HoldingOwns
<1>2. \A q \in Procs, t \in Slots :
        <<q, t>> # <<p, s>> => object'[q][t] = object[q][t]
  BY DEF Inv, TypeOK
<1>3. object'[p][s] = o /\ o # NoObject
  BY NoObjectAssumption DEF Inv, TypeOK, Objects
<1>4. CASE o.kind = "lock"
  <2>1. o.h # Invalid
    BY <1>4, HandleAssumption DEF Owned
  <2>2. \A q \in Procs, t \in Slots : ~Holds(q, t)
    BY <1>4, HoldingOwns DEF LockfileOpen
  <2>3. Holding = {}
    BY <2>2 DEF Holding, Holds
  <2>4. Holding' = {<<p, s>>}
    BY <1>2, <1>3, <1>4, <2>1, <2>2 DEF Holding, Holds, IsLock
  <2> QED BY <2>3, <2>4 DEF Lock!Next, Lock!Acquire
<1>5. CASE o.kind # "lock"
  <2>1. \A q \in Procs, t \in Slots : Holds(q, t)' <=> Holds(q, t)
    BY <1>1, <1>2, <1>3, <1>5 DEF Holds, IsLock
  <2> QED BY <2>1 DEF Holding, Holds
<1> QED BY <1>4, <1>5

LEMMA FewerHolds ==
  ASSUME Inv, \A q \in Procs, t \in Slots : Holds(q, t)' => Holds(q, t)
  PROVE  [Lock!Next]_Holding
<1>1. Holding' \subseteq Holding
  BY DEF Holding, Holds
<1>2. \A l, k \in Holding : l = k
  BY HolderUnique DEF Holding, Holds
<1>3. Holding' = Holding \/ (Holding # {} /\ Holding' = {})
  BY <1>1, <1>2
<1> QED BY <1>3 DEF Lock!Next, Lock!Release

LEMMA LockStep == Inv /\ [Next]_vars => [Lock!Next]_Holding
<1> SUFFICES ASSUME Inv, [Next]_vars PROVE [Lock!Next]_Holding
  OBVIOUS
<1> USE DEF Inv
<1>1. CASE Opened
  BY <1>1, OpeningHolds DEF Opened
<1>2. CASE Closed
  <2> PICK p \in Procs, s \in Slots, o \in Objects \cup {NoObject} : Closing(p, s, o)
    BY <1>2 DEF Closed
  <2>1. \A q \in Procs, t \in Slots : <<q, t>> # <<p, s>> => object'[q][t] = object[q][t]
    BY DEF Closing, TypeOK
  <2>2. object'[p][s] = o
    BY DEF Closing, TypeOK
  <2>3. ~Holds(p, s)'
    BY <2>2 DEF Closing, OwnedIn, Owned, Holds, IsLock
  <2> QED BY <2>1, <2>3, FewerHolds DEF Holds, IsLock
<1>3. CASE Exited
  <2> PICK p \in Procs : Exit(p)
    BY <1>3 DEF Exited
  <2>1. \A q \in Procs \ {p} : object'[q] = object[q]
    BY DEF Exit, TypeOK
  <2>2. \A t \in Slots : object'[p][t] = NoObject
    BY DEF Exit, TypeOK
  <2> QED BY <2>1, <2>2, FewerHolds DEF Holds, IsLock
<1>4. CASE UNCHANGED <<object, opened>>
  BY <1>4 DEF Holding, IsLock
<1> QED BY <1>1, <1>2, <1>3, <1>4, StepKinds DEF Kinds

\* The lock objects of lock_dir implement the abstract lock, whatever scripts do with
\* iterators, files and locks, and when processes end (lfs_lock_dir, lfs_unlock_dir).
THEOREM ImplementsLock == Spec => LockRefined
<1>1. Init => Lock!Init
  BY DEF Init, Lock!Init, Holding, IsLock
<1> QED BY <1>1, LockStep, Invariance, PTL DEF Spec, LockRefined, Lock!Spec

-----------------------------------------------------------------------------
(* LuaString.  No character stands twice in a text, so that those a loop    *)
(* gave out are told from those ahead by their positions.                   *)

Chars == 0 .. MaxLetter

\* No character occurs twice, and those not used yet are new.
Unique(t) == \A i, j \in 1 .. Len(t) : t[i] = t[j] /\ t[i] # 0 => i = j

Fresh ==
  /\ \A i \in 1 .. Len(text) : text[i] < next
  /\ \A c \in given : c < next

\* NothingRepeated and NothingSkipped by positions.
Repeats ==
  ~wild =>
    /\ cursor <= Len(text)
    /\ \A i \in 1 .. Len(text) : cursor >= 0 /\ i > cursor => text[i] \notin given

Skips ==
  ~wild =>
    \A i \in 1 .. Len(text) :
      \/ text[i] = 0 \/ text[i] \in given \cup behind
      \/ cursor >= 0 /\ i > cursor

TextInv == StringTypeOK /\ Unique(text) /\ Fresh /\ Repeats /\ Skips

-----------------------------------------------------------------------------
(* Texts, character by character. *)

\* u is t with s put in at position p.
Spliced(t, u, p, s) ==
  /\ Len(u) = Len(t) + Len(s)
  /\ \A k \in 1 .. Len(u) :
       \/ k - p \in 1 .. Len(s) /\ u[k] = s[k - p]
       \/ \E l \in 1 .. Len(t) :
            u[k] = t[l] /\ ((l <= p /\ k = l) \/ (l > p /\ k = l + Len(s)))

\* u is t without the d characters from position p.
Excised(t, u, p, d) ==
  /\ Len(u) = Len(t) - d
  /\ \A i \in 1 .. Len(u) :
       \/ i <= p /\ u[i] = t[i]
       \/ i > p /\ u[i] = t[i + d]

LEMMA PieceFacts ==
  ASSUME NEW S, NEW t \in Seq(S), NEW p \in 0 .. Len(t), NEW q \in p .. Len(t)
  PROVE  /\ SubSeq(t, p + 1, q) \in Seq(S)
         /\ Len(SubSeq(t, p + 1, q)) = q - p
         /\ \A i \in 1 .. q - p : SubSeq(t, p + 1, q)[i] = t[p + i]
OBVIOUS

LEMMA SpliceFacts ==
  ASSUME NEW S, NEW t \in Seq(S), NEW s \in Seq(S), NEW p \in 0 .. Len(t)
  PROVE  LET u == SubSeq(t, 1, p) \o s \o SubSeq(t, p + 1, Len(t)) IN
         u \in Seq(S) /\ Spliced(t, u, p, s)
<1> DEFINE a == SubSeq(t, 1, p)
           b == SubSeq(t, p + 1, Len(t))
           u == a \o s \o b
<1>1. a \in Seq(S) /\ Len(a) = p /\ b \in Seq(S) /\ Len(b) = Len(t) - p
  OBVIOUS
<1>2. (\A i \in 1 .. p : a[i] = t[i]) /\ \A i \in 1 .. Len(t) - p : b[i] = t[p + i]
  OBVIOUS
<1> HIDE DEF a, b
<1>3. u \in Seq(S) /\ Len(u) = Len(t) + Len(s) /\ Len(t) \in Nat /\ Len(s) \in Nat
  <2>1. \A v, w \in Seq(S) : v \o w \in Seq(S) /\ Len(v \o w) = Len(v) + Len(w)
    BY ConcatProperties
  <2>2. a \o s \in Seq(S) /\ Len(a \o s) = Len(a) + Len(s)
    BY <1>1, <2>1, Zenon
  <2>3. u \in Seq(S) /\ Len(u) = Len(a \o s) + Len(b)
    BY <1>1, <2>1, <2>2, Zenon
  <2>4. Len(t) \in Nat /\ Len(s) \in Nat
    OBVIOUS
  <2> QED BY <1>1, <2>2, <2>3, <2>4
<1>4. \A i \in 1 .. p : u[i] = a[i]
  BY <1>1
<1>5. \A i \in 1 .. Len(s) : u[p + i] = s[i]
  BY <1>1
<1>6. ASSUME NEW i \in p + 1 .. Len(t) PROVE u[i + Len(s)] = b[i - p]
  BY <1>1
<1> HIDE DEF u
<1>7. ASSUME NEW k \in 1 .. Len(u)
      PROVE  \/ k - p \in 1 .. Len(s) /\ u[k] = s[k - p]
             \/ \E l \in 1 .. Len(t) :
                  u[k] = t[l] /\ ((l <= p /\ k = l) \/ (l > p /\ k = l + Len(s)))
  <2>1. CASE k <= p
    <3>1. k \in 1 .. Len(t) /\ u[k] = t[k]
      BY <1>2, <1>3, <1>4, <2>1
    <3> QED BY <2>1, <3>1, Zenon
  <2>2. CASE k - p \in 1 .. Len(s)
    <3>1. p + (k - p) = k
      OBVIOUS
    <3> QED BY <1>5, <2>2, <3>1, Zenon
  <2>3. CASE k > p + Len(s)
    <3> DEFINE l == k - Len(s)
    <3>1. l \in p + 1 .. Len(t) /\ l \in 1 .. Len(t) /\ l > p /\ k = l + Len(s)
      BY <1>3, <2>3
    <3>2. l - p \in 1 .. Len(t) - p /\ p + (l - p) = l
      BY <3>1
    <3> HIDE DEF l
    <3>3. u[k] = t[l]
      BY <1>2, <1>6, <3>1, <3>2
    <3> QED BY <3>1, <3>3, Zenon
  <2> QED BY <1>3, <2>1, <2>2, <2>3
<1> QED BY <1>3, <1>7 DEF u, a, b, Spliced

LEMMA ExciseFacts ==
  ASSUME NEW S, NEW t \in Seq(S), NEW p \in 0 .. Len(t), NEW r \in p .. Len(t)
  PROVE  LET u == SubSeq(t, 1, p) \o SubSeq(t, r + 1, Len(t)) IN
         u \in Seq(S) /\ Excised(t, u, p, r - p)
<1> DEFINE a == SubSeq(t, 1, p)
           b == SubSeq(t, r + 1, Len(t))
           u == a \o b
<1>1. a \in Seq(S) /\ Len(a) = p /\ b \in Seq(S) /\ Len(b) = Len(t) - r
  OBVIOUS
<1>2. (\A i \in 1 .. p : a[i] = t[i]) /\ \A i \in 1 .. Len(t) - r : b[i] = t[r + i]
  OBVIOUS
<1> HIDE DEF a, b
<1>3. u \in Seq(S) /\ Len(u) = Len(t) - (r - p) /\ Len(t) \in Nat
  <2>1. u \in Seq(S)
    BY <1>1
  <2>2. Len(u) = p + (Len(t) - r)
    BY <1>1
  <2>3. Len(t) \in Nat
    OBVIOUS
  <2> QED BY <2>1, <2>2, <2>3
<1>4. \A i \in 1 .. p : u[i] = a[i]
  BY <1>1
<1>5. \A i \in p + 1 .. Len(t) - (r - p) : u[i] = b[i - p]
  BY <1>1
<1> HIDE DEF u
<1>6. ASSUME NEW i \in p + 1 .. Len(t) - (r - p) PROVE u[i] = t[i + (r - p)]
  <2>1. i - p \in 1 .. Len(t) - r /\ r + (i - p) = i + (r - p)
    BY <1>3
  <2> QED BY <1>2, <1>5, <2>1
<1>7. ASSUME NEW i \in 1 .. Len(u)
      PROVE  (i <= p /\ u[i] = t[i]) \/ (i > p /\ u[i] = t[i + (r - p)])
  BY <1>2, <1>3, <1>4, <1>6
<1> QED BY <1>3, <1>7 DEF u, a, b, Excised

\* The characters of a sequence.
LEMMA LettersFacts ==
  ASSUME NEW s \in Seq(Chars)
  PROVE  Letters(s) = { s[i] : i \in 1 .. Len(s) } \ {0} /\ Letters(s) \subseteq 1 .. MaxLetter
<1>1. DOMAIN s = 1 .. Len(s) /\ \A i \in 1 .. Len(s) : s[i] \in Chars
  BY LenProperties, ElementOfSeq
<1> QED BY <1>1, BoundsAssumption DEF Letters, Chars

LEMMA PieceLetters ==
  ASSUME NEW t \in Seq(Chars), NEW p \in 0 .. Len(t), NEW q \in p .. Len(t)
  PROVE  Letters(SubSeq(t, p + 1, q)) = { t[i] : i \in p + 1 .. q } \ {0}
<1> DEFINE u == SubSeq(t, p + 1, q)
<1>1. u \in Seq(Chars) /\ Len(u) = q - p /\ \A i \in 1 .. q - p : u[i] = t[p + i]
  BY PieceFacts
<1>2. Letters(u) = { u[i] : i \in 1 .. q - p } \ {0}
  BY <1>1, LettersFacts
<1> HIDE DEF u
<1>3. \A j \in p + 1 .. q : j - p \in 1 .. q - p /\ t[j] = u[j - p]
  <2> SUFFICES ASSUME NEW j \in p + 1 .. q PROVE j - p \in 1 .. q - p /\ t[j] = u[j - p]
    OBVIOUS
  <2>1. j - p \in 1 .. q - p /\ p + (j - p) = j
    OBVIOUS
  <2> QED BY <1>1, <2>1
<1>4. \A i \in 1 .. q - p : p + i \in p + 1 .. q
  OBVIOUS
<1>5. { u[i] : i \in 1 .. q - p } = { t[j] : j \in p + 1 .. q }
  <2>1. ASSUME NEW i \in 1 .. q - p PROVE u[i] \in { t[j] : j \in p + 1 .. q }
    BY <1>1, <1>4
  <2>2. ASSUME NEW j \in p + 1 .. q PROVE t[j] \in { u[i] : i \in 1 .. q - p }
    BY <1>3
  <2> QED BY <2>1, <2>2
<1> QED BY <1>2, <1>5 DEF u

LEMMA AheadLetters ==
  ASSUME StringTypeOK, cursor <= Len(text)
  PROVE  /\ cursor < 0 => Letters(Ahead) = {}
         /\ cursor >= 0 =>
              Letters(Ahead) = { text[i] : i \in cursor + 1 .. Len(text) } \ {0}
<1>1. CASE cursor < 0
  <2>1. Ahead = <<>>
    BY <1>1 DEF Ahead
  <2> QED BY <1>1, <2>1 DEF Letters, StringTypeOK
<1>2. CASE cursor >= 0
  <2>1. text \in Seq(Chars) /\ cursor \in 0 .. Len(text) /\ Len(text) \in cursor .. Len(text)
    BY <1>2 DEF StringTypeOK, Chars
  <2>2. Ahead = SubSeq(text, cursor + 1, Len(text))
    BY <2>1 DEF Ahead, Piece
  <2>3. Letters(Ahead) = { text[i] : i \in cursor + 1 .. Len(text) } \ {0}
    BY <2>1, <2>2, PieceLetters, Zenon
  <2> QED BY <1>2, <2>1, <2>3
<1> QED BY <1>1, <1>2 DEF StringTypeOK

-----------------------------------------------------------------------------
(* Steps. *)

\* What a script puts in has at most one character, the next one.
LEMMA StringsFacts ==
  ASSUME NEW n \in Nat, NEW s \in Strings(n)
  PROVE  /\ s \in Seq({0, n}) /\ Len(s) \in 0 .. 2
         /\ \A i \in 1 .. Len(s) : s[i] = 0 \/ s[i] = n
         /\ n # 0 => Unique(s)
         /\ (\E i \in 1 .. Len(s) : s[i] = n) /\ n # 0 => Letters(s) = {n}
<1> USE DEF Unique, Letters
<1>1. CASE s = <<>>
  BY <1>1
<1>2. CASE s = <<0>>
  BY <1>2
<1>3. CASE s = <<n>>
  BY <1>3
<1>4. CASE s = <<n, 0>>
  BY <1>4
<1>5. CASE s = <<0, n>>
  BY <1>5
<1> QED BY <1>1, <1>2, <1>3, <1>4, <1>5 DEF Strings

LEMMA NewTyped ==
  ASSUME NEW n \in Chars, NEW s \in Seq({0, n}) PROVE s \in Seq(Chars)
<1>1. {0, n} \subseteq Chars
  BY BoundsAssumption DEF Chars
<1> HIDE DEF Chars
<1> QED BY <1>1

LEMMA TextsFacts ==
  ASSUME NEW s \in Texts
  PROVE  /\ s \in Seq(Chars) /\ Len(s) \in 0 .. MaxLen
         /\ \A i \in 1 .. Len(s) : s[i] < 3
         /\ Unique(s)
<1> USE BoundsAssumption DEF Unique, Chars
<1>1. CASE s = <<>>
  BY <1>1
<1>2. CASE s = <<1>>
  BY <1>2
<1>3. CASE s = <<1, 0, 2>>
  BY <1>3
<1>4. CASE s = <<0, 1, 2>>
  BY <1>4
<1> QED BY <1>1, <1>2, <1>3, <1>4 DEF Texts

LEMMA StartingOver ==
  ASSUME StringTypeOK,
         \E s \in Texts : text' = s,
         next' = 3, given' = {}, behind' = {}, wild' \in BOOLEAN, cursor' = 0 \/ wild',
         cursor' \in {0, cursor}
  PROVE  TextInv'
<1> PICK s \in Texts : text' = s
  OBVIOUS
<1>1. /\ text' \in Seq(Chars) /\ Len(text') \in 0 .. MaxLen
      /\ \A i \in 1 .. Len(text') : text'[i] < 3
      /\ Unique(text)'
  BY TextsFacts DEF Unique
<1>2. StringTypeOK'
  BY <1>1, BoundsAssumption DEF StringTypeOK, Chars
<1>3. Fresh'
  BY <1>1 DEF Fresh
<1>4. Repeats'
  BY <1>1 DEF Repeats
<1>5. Skips'
  BY <1>1 DEF Skips
<1> QED BY <1>1, <1>2, <1>3, <1>4, <1>5 DEF TextInv

LEMMA SetCursorStep ==
  ASSUME TextInv, NEW p \in -1 .. MaxLen, SetTokenizeLuaPos(p)
  PROVE  TextInv'
<1> USE DEF TextInv, SetTokenizeLuaPos
<1>1. StringTypeOK'
  BY BoundsAssumption DEF StringTypeOK
<1>2. Unique(text)'
  BY DEF Unique
<1>3. Fresh'
  BY DEF Fresh
<1>4. wild' \/ cursor' = 0
  BY Zenon
<1>5. Repeats'
  <2>1. 0 <= Len(text)
    BY DEF StringTypeOK
  <2> QED BY <1>4, <2>1 DEF Repeats
<1>6. Skips'
  BY <1>4 DEF Skips
<1> QED BY <1>1, <1>2, <1>3, <1>5, <1>6

LEMMA OnePlace ==
  ASSUME NEW t, Unique(t), NEW i \in 1 .. Len(t), NEW j \in 1 .. Len(t), t[i] = t[j], t[i] # 0
  PROVE  i = j
BY DEF Unique

LEMMA SplicedUnique ==
  ASSUME NEW t, NEW u, NEW s, Len(t) \in Nat, Len(s) \in Nat, NEW p \in 0 .. Len(t), NEW n \in Nat,
         \A i \in 1 .. Len(t) : t[i] \in Nat /\ t[i] < n,
         \A i \in 1 .. Len(s) : s[i] = 0 \/ s[i] = n,
         Unique(t), Unique(s), Spliced(t, u, p, s)
  PROVE  Unique(u)
<1> SUFFICES ASSUME NEW i \in 1 .. Len(u), NEW j \in 1 .. Len(u), u[i] = u[j], u[i] # 0
             PROVE  i = j
  BY DEF Unique
<1> DEFINE New(k) == k - p \in 1 .. Len(s) /\ u[k] = s[k - p]
           Source(k, l) == u[k] = t[l] /\ ((l <= p /\ k = l) \/ (l > p /\ k = l + Len(s)))
<1>1. \A k \in 1 .. Len(u) : New(k) \/ \E l \in 1 .. Len(t) : Source(k, l)
  BY Zenon DEF Spliced
<1>2. ASSUME NEW k \in 1 .. Len(u), New(k), u[k] # 0 PROVE u[k] = n
  BY <1>2, Zenon
<1>3. ASSUME NEW k \in 1 .. Len(u), NEW l \in 1 .. Len(t), Source(k, l) PROVE u[k] # n
  <2>1. t[l] # n
    OBVIOUS
  <2> QED BY <1>3, <2>1, Zenon
<1>4. CASE New(i) /\ New(j)
  <2>1. i - p = j - p
    BY <1>4, OnePlace, Zenon
  <2> QED BY <2>1
<1>5. ASSUME NEW a \in 1 .. Len(t), NEW b \in 1 .. Len(t), Source(i, a), Source(j, b)
      PROVE  i = j
  <2>1. a = b
    BY <1>5, OnePlace, Zenon
  <2> QED BY <1>5, <2>1
<1> QED BY <1>1, <1>2, <1>3, <1>4, <1>5, Zenon

\* Where insert, or its failure, leaves the cursor.
LEMMA CursorMoved ==
  ASSUME NEW c \in -1 .. MaxLen, NEW p \in Int, NEW n \in 0 .. 2
  PROVE  (IF p < c THEN c + n ELSE c) \in -1 .. MaxLen + 2
<1>1. MaxLen \in Nat
  BY BoundsAssumption
<1>2. c + n \in -1 .. MaxLen + 2 /\ c \in -1 .. MaxLen + 2
  BY <1>1
<1> QED BY <1>2, Zenon

\* s is put in at position p: by insert, or by append at the end.
LEMMA SplicedStep ==
  ASSUME TextInv,
         NEW p \in 0 .. Len(text), NEW s \in Strings(next),
         Fits(s), text' \in Seq(Chars), Spliced(text, text', p, s),
         next' = next + 1, UNCHANGED <<given, wild>>,
         cursor' \in -1 .. MaxLen + 2,
         ~wild => cursor' = IF p < cursor THEN cursor + Len(s) ELSE cursor,
         behind' = behind \/ behind' = behind \cup Letters(s),
         ~wild /\ (p < cursor \/ cursor < 0) => behind' = behind \cup Letters(s)
  PROVE  TextInv'
<1> USE DEF TextInv
<1>1. /\ text \in Seq(Chars) /\ Len(text) \in Nat /\ Len(text') \in Nat
      /\ cursor \in Int /\ next \in Nat \ {0} /\ given \subseteq 1 .. MaxLetter
  BY DEF StringTypeOK, Chars
<1>2. /\ s \in Seq({0, next}) /\ Len(s) \in 0 .. 2
      /\ \A i \in 1 .. Len(s) : s[i] = 0 \/ s[i] = next
      /\ Unique(s)
      /\ (\E i \in 1 .. Len(s) : s[i] = next) => Letters(s) = {next}
  <2>1. next \in Nat /\ next # 0
    BY <1>1
  <2> QED BY <2>1, StringsFacts, Zenon
<1>3. \A i \in 1 .. Len(text) : text[i] \in Nat /\ text[i] < next
  <2>1. \A i \in 1 .. Len(text) : text[i] \in Chars
    BY <1>1, ElementOfSeq
  <2>2. \A i \in 1 .. Len(text) : text[i] < next
    BY DEF Fresh
  <2> QED BY <2>1, <2>2 DEF Chars
<1>4. StringTypeOK'
  <2>1. s \in Seq(Chars)
    <3>1. next \in Chars
      BY DEF StringTypeOK, Chars
    <3> QED BY <1>2, <3>1, NewTyped, Zenon
  <2>2. Letters(s) \subseteq 1 .. MaxLetter
    BY <2>1, LettersFacts
  <2>3. Len(text') <= MaxLen /\ next' \in 3 .. MaxLetter
    BY <1>1, <1>2, BoundsAssumption DEF Spliced, StringTypeOK, Fits
  <2> QED BY <2>2, <2>3 DEF StringTypeOK, Chars
<1>5. Unique(text)'
  <2>1. Unique(text')
    <3>1. Len(text) \in Nat /\ Len(s) \in Nat /\ next \in Nat
      BY <1>1, <1>2
    <3> QED BY <1>2, <1>3, <3>1, SplicedUnique, Zenon
  <2> QED BY <2>1 DEF Unique
<1>6. ASSUME NEW i \in 1 .. Len(text')
      PROVE  \/ i > p /\ (text'[i] = 0 \/ (text'[i] = next /\ next \in Letters(s)))
             \/ \E l \in 1 .. Len(text) :
                  text'[i] = text[l] /\ ((l <= p /\ i = l) \/ (l > p /\ i = l + Len(s)))
  <2>1. Len(text) \in Nat /\ Len(s) \in Nat
    BY <1>1, <1>2
  <2>2. \/ i - p \in 1 .. Len(s) /\ text'[i] = s[i - p]
        \/ \E l \in 1 .. Len(text) :
             text'[i] = text[l] /\ ((l <= p /\ i = l) \/ (l > p /\ i = l + Len(s)))
    BY Zenon DEF Spliced
  <2>3. ASSUME i - p \in 1 .. Len(s), text'[i] = s[i - p]
        PROVE  i > p /\ (text'[i] = 0 \/ (text'[i] = next /\ next \in Letters(s)))
    <3>1. text'[i] = 0 \/ (text'[i] = next /\ next \in Letters(s))
      BY <1>2, <2>3
    <3> QED BY <2>1, <2>3, <3>1
  <2> QED BY <2>2, <2>3, Zenon
<1>7. Fresh'
  <2>1. ASSUME NEW i \in 1 .. Len(text') PROVE text'[i] < next + 1
    <3>1. ASSUME NEW l \in 1 .. Len(text), text'[i] = text[l] PROVE text'[i] < next + 1
      BY <1>1, <1>3, <3>1
    <3>2. ASSUME text'[i] = 0 \/ text'[i] = next PROVE text'[i] < next + 1
      BY <1>1, <3>2
    <3> QED BY <1>6, <3>1, <3>2, Zenon
  <2>2. \A c \in given : c < next + 1
    <3> SUFFICES ASSUME NEW c \in given PROVE c < next + 1
      OBVIOUS
    <3>1. c \in 1 .. MaxLetter /\ c < next
      BY <1>1 DEF Fresh
    <3> QED BY <1>1, <3>1
  <2> QED BY <2>1, <2>2 DEF Fresh
<1>8. ~wild => /\ p < cursor => cursor' = cursor + Len(s)
               /\ ~(p < cursor) => cursor' = cursor
  BY Zenon
<1>9. Repeats'
  <2> SUFFICES ASSUME ~wild
               PROVE  /\ cursor' <= Len(text')
                      /\ \A i \in 1 .. Len(text') :
                           cursor' >= 0 /\ i > cursor' => text'[i] \notin given
    BY DEF Repeats
  <2>1. cursor <= Len(text) /\ Len(text') = Len(text) + Len(s)
    BY DEF Repeats, Spliced
  <2>2. cursor' <= Len(text')
    BY <1>1, <1>2, <1>8, <2>1
  <2>3. ASSUME NEW i \in 1 .. Len(text'), cursor' >= 0, i > cursor' PROVE text'[i] \notin given
    <3>1. ASSUME text'[i] = 0 \/ text'[i] = next PROVE text'[i] \notin given
      <4>1. 0 \notin given
        BY <1>1
      <4>2. next \notin given
        BY <1>1 DEF Fresh
      <4> QED BY <3>1, <4>1, <4>2, Zenon
    <3>2. ASSUME NEW l \in 1 .. Len(text), text'[i] = text[l],
                 (l <= p /\ i = l) \/ (l > p /\ i = l + Len(s))
          PROVE  text'[i] \notin given
      <4>1. l > cursor /\ cursor >= 0
        BY <1>1, <1>2, <1>8, <2>3, <3>2
      <4>2. text[l] \notin given
        BY <4>1, Zenon DEF Repeats
      <4> QED BY <3>2, <4>2, Zenon
    <3> QED BY <1>6, <3>1, <3>2, Zenon
  <2> QED BY <2>2, <2>3
<1>10. Skips'
  <2> SUFFICES ASSUME ~wild, NEW i \in 1 .. Len(text')
               PROVE  \/ text'[i] = 0 \/ text'[i] \in given \cup behind'
                      \/ cursor' >= 0 /\ i > cursor'
    BY DEF Skips
  <2>1. ASSUME i > p, text'[i] \in Letters(s)
        PROVE  text'[i] \in behind' \/ (cursor' >= 0 /\ i > cursor')
    <3>1. CASE p < cursor \/ cursor < 0
      BY <2>1, <3>1, Zenon
    <3>2. CASE ~(p < cursor) /\ ~(cursor < 0)
      BY <1>1, <1>8, <2>1, <3>2
    <3> QED BY <3>1, <3>2
  <2>2. ASSUME NEW l \in 1 .. Len(text), text'[i] = text[l],
               (l <= p /\ i = l) \/ (l > p /\ i = l + Len(s))
        PROVE  \/ text'[i] = 0 \/ text'[i] \in given \cup behind
               \/ cursor' >= 0 /\ i > cursor'
    <3>1. text[l] = 0 \/ text[l] \in given \cup behind \/ (cursor >= 0 /\ l > cursor)
      BY DEF Skips
    <3>2. cursor >= 0 /\ l > cursor => cursor' >= 0 /\ i > cursor'
      BY <1>1, <1>2, <1>8, <2>2
    <3> QED BY <2>2, <3>1, <3>2, Zenon
  <2> QED BY <1>6, <2>1, <2>2, Zenon
<1> QED BY <1>4, <1>5, <1>7, <1>9, <1>10

LEMMA ExcisedUnique ==
  ASSUME NEW t, NEW u, Len(t) \in Nat, NEW p \in 0 .. Len(t), NEW d \in 0 .. Len(t) - p,
         Unique(t), Excised(t, u, p, d)
  PROVE  Unique(u)
<1> SUFFICES ASSUME NEW i \in 1 .. Len(u), NEW j \in 1 .. Len(u), u[i] = u[j], u[i] # 0
             PROVE  i = j
  BY DEF Unique
<1> DEFINE Source(k, l) == u[k] = t[l] /\ ((k <= p /\ l = k) \/ (k > p /\ l = k + d))
<1>1. ASSUME NEW k \in 1 .. Len(u) PROVE \E l \in 1 .. Len(t) : Source(k, l)
  <2>1. CASE k <= p
    <3>1. k \in 1 .. Len(t) /\ Source(k, k)
      BY <2>1 DEF Excised
    <3> QED BY <3>1
  <2>2. CASE k > p
    <3>1. k + d \in 1 .. Len(t) /\ Source(k, k + d)
      BY <2>2 DEF Excised
    <3> QED BY <3>1
  <2> QED BY <2>1, <2>2
<1> PICK a \in 1 .. Len(t) : Source(i, a)
  BY <1>1
<1> PICK b \in 1 .. Len(t) : Source(j, b)
  BY <1>1
<1>2. a = b
  BY OnePlace, Zenon
<1> QED BY <1>2

\* d characters from position p are gone: by erase, or as a variable that was returned.
LEMMA ExcisedStep ==
  ASSUME TextInv,
         NEW p \in 0 .. Len(text), NEW d \in 0 .. Len(text) - p,
         text' \in Seq(Chars), Excised(text, text', p, d), UNCHANGED next
  PROVE  /\ Unique(text)'
         /\ \A i \in 1 .. Len(text') : text'[i] < next'
         /\ Len(text') \in Nat /\ Len(text') = Len(text) - d /\ Len(text') <= MaxLen
<1> USE DEF TextInv
<1>1. Len(text) \in Nat /\ Len(text') \in Nat /\ Len(text) <= MaxLen
  BY DEF StringTypeOK
<1>2. Unique(text')
  BY <1>1, ExcisedUnique
<1>3. ASSUME NEW i \in 1 .. Len(text') PROVE text'[i] < next
  <2>1. \A k \in 1 .. Len(text) : text[k] < next
    BY DEF Fresh
  <2>2. CASE i <= p /\ text'[i] = text[i]
    BY <1>1, <2>1, <2>2
  <2>3. CASE i > p /\ text'[i] = text[i + d]
    BY <1>1, <2>1, <2>3 DEF Excised
  <2> QED BY <2>2, <2>3 DEF Excised
<1>4. Len(text') = Len(text) - d /\ Len(text') <= MaxLen
  BY <1>1, BoundsAssumption DEF Excised
<1> QED BY <1>1, <1>2, <1>3, <1>4 DEF Unique

LEMMA EraseStep ==
  ASSUME TextInv,
         NEW p \in 0 .. MaxLen, NEW n \in 0 .. MaxLen, Erase(p, n)
  PROVE  TextInv'
<1> DEFINE r == IF p + n < Len(text) THEN p + n ELSE Len(text)
           d == r - p
<1>1. /\ text \in Seq(Chars) /\ Len(text) \in Nat /\ cursor \in Int
      /\ p \in 0 .. Len(text) /\ p < Len(text) /\ r \in p .. Len(text)
      /\ n = 0 => d = 0
  BY DEF TextInv, StringTypeOK, Chars, Erase
<1>2. text' = SubSeq(text, 1, p) \o SubSeq(text, r + 1, Len(text))
  <2>1. SubSeq(text, Len(text) + 1, Len(text)) = <<>>
    BY <1>1
  <2>2. SubSeq(text, 0 + 1, p) = SubSeq(text, 1, p)
    OBVIOUS
  <2> QED BY <1>1, <2>1, <2>2 DEF Erase, Piece
<1>3. text' \in Seq(Chars) /\ Excised(text, text', p, d)
  BY <1>1, <1>2, ExciseFacts, Zenon
<1>4. d \in 0 .. Len(text) - p
  BY <1>1
<1> HIDE DEF r, d
<1>5. UNCHANGED <<cursor, next, given, behind>>
  BY DEF Erase
<1>6. /\ Unique(text)' /\ \A i \in 1 .. Len(text') : text'[i] < next'
      /\ Len(text') \in Nat /\ Len(text') = Len(text) - d /\ Len(text') <= MaxLen
  BY <1>1, <1>3, <1>4, <1>5, ExcisedStep, Zenon
<1>7. wild' \in BOOLEAN /\ (~wild' => ~wild /\ (n > 0 /\ p < cursor) = FALSE)
  BY DEF Erase, TextInv, StringTypeOK
<1>8. StringTypeOK'
  BY <1>3, <1>5, <1>6, <1>7 DEF StringTypeOK, TextInv, Chars
<1>9. Fresh'
  BY <1>5, <1>6 DEF Fresh, TextInv
<1>10. ~wild' => ~wild /\ (d = 0 \/ p >= cursor)
  BY <1>1, <1>7
<1>11. Repeats'
  <2> SUFFICES ASSUME ~wild'
               PROVE  /\ cursor <= Len(text')
                      /\ \A i \in 1 .. Len(text') :
                           cursor >= 0 /\ i > cursor => text'[i] \notin given
    BY <1>5 DEF Repeats
  <2>1. cursor <= Len(text')
    BY <1>1, <1>4, <1>6, <1>10 DEF Repeats, TextInv
  <2>2. ASSUME NEW i \in 1 .. Len(text'), cursor >= 0, i > cursor PROVE text'[i] \notin given
    <3>1. CASE i <= p /\ text'[i] = text[i]
      BY <1>1, <1>10, <2>2, <3>1 DEF Repeats, TextInv
    <3>2. CASE i > p /\ text'[i] = text[i + d]
      BY <1>1, <1>4, <1>6, <1>10, <2>2, <3>2 DEF Repeats, TextInv
    <3> QED BY <1>3, <3>1, <3>2 DEF Excised
  <2> QED BY <2>1, <2>2
<1>12. Skips'
  <2> SUFFICES ASSUME ~wild', NEW i \in 1 .. Len(text')
               PROVE  \/ text'[i] = 0 \/ text'[i] \in given \cup behind
                      \/ cursor >= 0 /\ i > cursor
    BY <1>5 DEF Skips
  <2>1. CASE i <= p /\ text'[i] = text[i]
    BY <1>1, <1>10, <2>1 DEF Skips, TextInv
  <2>2. CASE i > p /\ text'[i] = text[i + d]
    BY <1>1, <1>4, <1>6, <1>10, <2>2 DEF Skips, TextInv
  <2> QED BY <1>3, <2>1, <2>2 DEF Excised
<1> QED BY <1>6, <1>8, <1>9, <1>11, <1>12 DEF TextInv

\* The characters of a piece of the text.
LEMMA PieceTyped ==
  ASSUME TextInv, NEW p \in 0 .. Len(text), NEW q \in p .. Len(text)
  PROVE  /\ Letters(Piece(p, q)) = { text[i] : i \in p + 1 .. q } \ {0}
         /\ Letters(Piece(p, q)) \subseteq 1 .. MaxLetter
         /\ \A c \in Letters(Piece(p, q)) : c < next
<1>1. text \in Seq(Chars) /\ Len(text) \in Nat /\ \A i \in 1 .. Len(text) : text[i] < next
  BY DEF TextInv, StringTypeOK, Fresh, Chars
<1>2. SubSeq(text, p + 1, q) \in Seq(Chars)
  BY <1>1, PieceFacts, Zenon
<1>3. Letters(Piece(p, q)) = { text[i] : i \in p + 1 .. q } \ {0}
  BY <1>1, PieceLetters, Zenon DEF Piece
<1>4. Letters(Piece(p, q)) \subseteq 1 .. MaxLetter
  BY <1>2, LettersFacts, Zenon DEF Piece
<1>5. \A i \in p + 1 .. q : i \in 1 .. Len(text)
  BY <1>1
<1> QED BY <1>1, <1>3, <1>4, <1>5

LEMMA InsertThrowsStep ==
  ASSUME TextInv,
         NEW p \in -1 .. MaxLen, NEW s \in Strings(next), InsertThrows(p, s)
  PROVE  TextInv'
<1> USE DEF TextInv
<1>1. UNCHANGED <<text, next, given, behind>>
  BY DEF InsertThrows
<1>2. Len(s) \in 0 .. 2
  <2>1. next \in Nat
    BY DEF StringTypeOK
  <2> QED BY <2>1, StringsFacts, Zenon
<1>3. cursor' \in -1 .. MaxLen + 2
  <2>1. cursor <= MaxLen /\ cursor' = IF p < cursor THEN cursor + Len(s) ELSE cursor
    BY Zenon DEF InsertThrows
  <2>2. cursor \in -1 .. MaxLen /\ p \in Int
    BY <2>1, BoundsAssumption DEF StringTypeOK
  <2> QED BY <1>2, <2>1, <2>2, CursorMoved, Zenon
<1>4. wild' \in BOOLEAN
  BY Zenon DEF InsertThrows, StringTypeOK
<1>5. ~wild' => ~wild /\ cursor' = cursor
  BY Zenon DEF InsertThrows
<1>6. StringTypeOK'
  BY <1>1, <1>3, <1>4 DEF StringTypeOK
<1>7. Unique(text)' /\ Fresh'
  BY <1>1 DEF Unique, Fresh
<1>8. Repeats' /\ Skips'
  BY <1>1, <1>5 DEF Repeats, Skips
<1> QED BY <1>6, <1>7, <1>8

LEMMA TokenizeStep ==
  ASSUME TextInv, Tokenize
  PROVE  TextInv'
<1> USE DEF TextInv
<1>1. UNCHANGED <<text, next, behind, wild>>
  BY DEF Tokenize
<1>2. text \in Seq(Chars) /\ Len(text) \in Nat /\ Len(text) <= MaxLen /\ cursor \in Int
  BY DEF StringTypeOK, Chars
<1>3. Unique(text)'
  BY <1>1 DEF Unique
<1>4. CASE Letters(Ahead) = {} /\ cursor' = -1 /\ given' = given
  <2>1. StringTypeOK' /\ Fresh'
    BY <1>1, <1>2, <1>4, BoundsAssumption DEF StringTypeOK, Fresh
  <2>2. Repeats'
    BY <1>1, <1>2, <1>4 DEF Repeats
  <2>3. Skips'
    <3> SUFFICES ASSUME ~wild, NEW i \in 1 .. Len(text)
                 PROVE  text[i] = 0 \/ text[i] \in given \cup behind
      BY <1>1, <1>4 DEF Skips
    <3>1. CASE cursor >= 0 /\ i > cursor
      <4>1. { text[k] : k \in cursor + 1 .. Len(text) } \ {0} = {}
        BY <1>4, <3>1, AheadLetters DEF Repeats
      <4>2. i \in cursor + 1 .. Len(text)
        BY <1>2, <3>1
      <4> QED BY <4>1, <4>2
    <3> QED BY <3>1 DEF Skips
  <2> QED BY <1>3, <2>1, <2>2, <2>3
<1>5. ASSUME NEW p \in cursor .. Len(text), NEW q \in cursor .. Len(text),
             cursor >= 0, p < q, At(q) = 0,
             \A i \in cursor .. q - 1 : At(i) = 0 <=> i < p,
             cursor' \in {q, q + 1} \cap 0 .. Len(text),
             given' = given \cup Letters(Piece(p, q))
      PROVE  TextInv'
  <2>1. p \in 0 .. Len(text) /\ q \in p .. Len(text)
    BY <1>2, <1>5
  <2>2. /\ Letters(Piece(p, q)) = { text[i] : i \in p + 1 .. q } \ {0}
        /\ Letters(Piece(p, q)) \subseteq 1 .. MaxLetter
        /\ \A c \in Letters(Piece(p, q)) : c < next
    BY <2>1, PieceTyped, Zenon
  <2>3. StringTypeOK'
    <3>1. given \subseteq 1 .. MaxLetter
      BY DEF StringTypeOK
    <3>2. given' \subseteq 1 .. MaxLetter
      BY <1>5, <2>2, <3>1, Zenon
    <3>3. cursor' \in -1 .. MaxLen + 2
      BY <1>2, <1>5, BoundsAssumption
    <3> QED BY <1>1, <3>2, <3>3 DEF StringTypeOK
  <2>4. Fresh'
    BY <1>1, <1>5, <2>2 DEF Fresh
  <2>5. Repeats'
    <3> SUFFICES ASSUME ~wild, NEW i \in 1 .. Len(text), i > cursor'
                 PROVE  text[i] \notin given'
      BY <1>1, <1>5 DEF Repeats
    <3>1. text[i] \notin given
      BY <1>2, <1>5 DEF Repeats
    <3>2. ASSUME NEW k \in p + 1 .. q, text[k] = text[i], text[i] # 0 PROVE FALSE
      <4>1. k \in 1 .. Len(text) /\ k # i
        BY <1>2, <1>5, <3>2
      <4> QED BY <3>2, <4>1, OnePlace, Zenon
    <3> QED BY <1>5, <2>2, <3>1, <3>2
  <2>6. Skips'
    <3> SUFFICES ASSUME ~wild, NEW i \in 1 .. Len(text), i <= cursor', text[i] # 0,
                        text[i] \notin given \cup behind
                 PROVE  text[i] \in Letters(Piece(p, q))
      BY <1>1, <1>2, <1>5 DEF Skips
    <3>1. i > cursor
      BY <1>2 DEF Skips
    <3>2. At(i - 1) = text[i]
      BY <1>2 DEF At
    <3>3. i - 1 # q
      BY <1>5, <3>2
    <3>4. i - 1 \in cursor .. q - 1
      BY <1>2, <1>5, <3>1, <3>3
    <3>5. i \in p + 1 .. q
      BY <1>2, <1>5, <3>2, <3>4
    <3> QED BY <2>2, <3>5
  <2> QED BY <1>3, <2>3, <2>4, <2>5, <2>6
<1> QED BY <1>4, <1>5 DEF Tokenize

LEMMA TokenizeVariableStep ==
  ASSUME TextInv, TokenizeVariable
  PROVE  TextInv'
<1> USE DEF TextInv
<1>1. UNCHANGED <<next, behind, wild>> /\ cursor \in 0 .. Len(text)
  BY DEF TokenizeVariable
<1>2. /\ text \in Seq(Chars) /\ Len(text) \in Nat /\ Len(text) <= MaxLen /\ cursor \in Int
      /\ \A i \in 1 .. Len(text) : text[i] < next
  BY DEF StringTypeOK, Chars, Fresh
<1>3. CASE given' = given \cup Letters(Ahead) /\ cursor' = -1 /\ text' = text
  <2>1. Ahead = Piece(cursor, Len(text))
    BY <1>1, <1>2 DEF Ahead
  <2>2. /\ Letters(Ahead) = { text[i] : i \in cursor + 1 .. Len(text) } \ {0}
        /\ Letters(Ahead) \subseteq 1 .. MaxLetter
        /\ \A c \in Letters(Ahead) : c < next
    <3>1. Len(text) \in cursor .. Len(text)
      BY <1>1, <1>2
    <3> QED BY <1>1, <2>1, <3>1, PieceTyped, Zenon
  <2>3. StringTypeOK'
    <3>1. given' \subseteq 1 .. MaxLetter /\ cursor' \in -1 .. MaxLen + 2
      <4>1. given \subseteq 1 .. MaxLetter /\ -1 \in -1 .. MaxLen + 2
        BY BoundsAssumption DEF StringTypeOK
      <4> QED BY <1>3, <2>2, <4>1, Zenon
    <3> QED BY <1>1, <1>3, <3>1 DEF StringTypeOK
  <2>4. Unique(text)' /\ Fresh'
    BY <1>1, <1>3, <2>2 DEF Unique, Fresh
  <2>5. Repeats'
    BY <1>1, <1>2, <1>3 DEF Repeats
  <2>6. Skips'
    <3> SUFFICES ASSUME ~wild, NEW i \in 1 .. Len(text),
                        text[i] # 0, text[i] \notin given \cup behind
                 PROVE  text[i] \in Letters(Ahead)
      BY <1>1, <1>3 DEF Skips
    <3>1. i \in cursor + 1 .. Len(text)
      BY <1>1, <1>2 DEF Skips
    <3> QED BY <2>2, <3>1
  <2> QED BY <2>3, <2>4, <2>5, <2>6
<1>4. ASSUME NEW q \in cursor .. Len(text) - 1, NEW n \in 1 .. Len(text) - q,
             given' = given \cup Letters(Piece(cursor, q)),
             cursor' = q,
             text' = Piece(0, q) \o Piece(q + n, Len(text))
      PROVE  TextInv'
  <2>1. q \in cursor .. Len(text) /\ q \in 0 .. Len(text) /\ n \in 0 .. Len(text) - q
        /\ q + n \in q .. Len(text) /\ (q + n) - q = n
    BY <1>1, <1>2
  <2>2. text' \in Seq(Chars) /\ Excised(text, text', q, n)
    <3>1. text' = SubSeq(text, 1, q) \o SubSeq(text, (q + n) + 1, Len(text))
      <4>1. 0 + 1 = 1
        OBVIOUS
      <4> QED BY <1>4, <4>1, Zenon DEF Piece
    <3> QED BY <1>2, <2>1, <3>1, ExciseFacts, Zenon
  <2>3. /\ Unique(text)' /\ \A i \in 1 .. Len(text') : text'[i] < next'
        /\ Len(text') \in Nat /\ Len(text') = Len(text) - n /\ Len(text') <= MaxLen
    BY <1>1, <2>1, <2>2, ExcisedStep, Zenon
  <2>4. /\ Letters(Piece(cursor, q)) = { text[i] : i \in cursor + 1 .. q } \ {0}
        /\ Letters(Piece(cursor, q)) \subseteq 1 .. MaxLetter
        /\ \A c \in Letters(Piece(cursor, q)) : c < next
    BY <1>1, <2>1, PieceTyped, Zenon
  <2>5. StringTypeOK'
    <3>1. given' \subseteq 1 .. MaxLetter /\ cursor' \in -1 .. MaxLen + 2
      <4>1. given \subseteq 1 .. MaxLetter
        BY DEF StringTypeOK
      <4>2. q \in -1 .. MaxLen + 2
        BY <1>2, <2>1, BoundsAssumption
      <4> QED BY <1>4, <2>4, <4>1, <4>2, Zenon
    <3> QED BY <1>1, <2>2, <2>3, <3>1 DEF StringTypeOK, Chars
  <2>6. Fresh'
    BY <1>1, <1>4, <2>3, <2>4 DEF Fresh
  <2>7. Repeats'
    <3> SUFFICES ASSUME ~wild, NEW i \in 1 .. Len(text'), i > q PROVE text'[i] \notin given'
      BY <1>1, <1>4, <2>1, <2>3 DEF Repeats
    <3>1. text'[i] = text[i + n] /\ i + n \in 1 .. Len(text) /\ i + n > q
      BY <1>2, <2>1, <2>2, <2>3 DEF Excised
    <3>2. text[i + n] \notin given
      BY <1>1, <1>2, <2>1, <3>1 DEF Repeats
    <3>3. ASSUME NEW k \in cursor + 1 .. q, text[k] = text[i + n], text[i + n] # 0 PROVE FALSE
      <4>1. k \in 1 .. Len(text) /\ k # i + n
        BY <1>1, <1>2, <2>1, <3>1
      <4> QED BY <3>1, <3>3, <4>1, OnePlace, Zenon
    <3> QED BY <1>4, <2>4, <3>1, <3>2, <3>3
  <2>8. Skips'
    <3> SUFFICES ASSUME ~wild, NEW i \in 1 .. Len(text'), i <= q, text'[i] # 0,
                        text'[i] \notin given \cup behind
                 PROVE  text'[i] \in Letters(Piece(cursor, q))
      BY <1>1, <1>4, <2>1, <2>3 DEF Skips
    <3>1. text'[i] = text[i] /\ i \in 1 .. Len(text)
      BY <1>2, <2>1, <2>2, <2>3 DEF Excised
    <3>2. i \in cursor + 1 .. q
      BY <1>1, <1>2, <2>1, <3>1 DEF Skips
    <3> QED BY <2>4, <3>1, <3>2
  <2> QED BY <2>3, <2>5, <2>6, <2>7, <2>8
<1> QED BY <1>3, <1>4 DEF TokenizeVariable

LEMMA AppendStep ==
  ASSUME TextInv, NEW s \in Strings(next), AppendText(s)
  PROVE  TextInv'
<1> DEFINE p == Len(text)
<1>1. /\ text \in Seq(Chars) /\ p \in 0 .. Len(text) /\ cursor \in -1 .. MaxLen + 2 /\ next \in Nat
      /\ next \in Chars /\ next # 0
  BY DEF TextInv, StringTypeOK, Chars
<1>2. s \in Seq(Chars)
  <2>1. s \in Seq({0, next})
    BY <1>1, StringsFacts, Zenon
  <2> QED BY <1>1, <2>1, NewTyped, Zenon
<1>3. text' = text \o s /\ Fits(s) /\ next' = next + 1 /\ UNCHANGED <<cursor, given, wild>>
      /\ behind' = IF cursor < 0 THEN behind \cup Letters(s) ELSE behind
  BY Zenon DEF AppendText
<1>4. text' = SubSeq(text, 1, p) \o s \o SubSeq(text, p + 1, Len(text))
  <2>1. SubSeq(text, 1, p) = text /\ SubSeq(text, p + 1, Len(text)) = <<>>
    BY <1>1
  <2>2. (text \o s) \o <<>> = text \o s
    BY <1>1, <1>2
  <2> QED BY <1>3, <2>1, <2>2, Zenon
<1>5. text' \in Seq(Chars) /\ Spliced(text, text', p, s)
  BY <1>1, <1>2, <1>4, SpliceFacts, Zenon
<1>6. ~wild => ~(p < cursor)
  BY <1>1 DEF TextInv, Repeats
<1> HIDE DEF p
<1> QED BY <1>1, <1>3, <1>5, <1>6, SplicedStep

LEMMA InsertStep ==
  ASSUME TextInv,
         NEW p \in -1 .. MaxLen, NEW s \in Strings(next), Insert(p, s)
  PROVE  TextInv'
<1>1. /\ text \in Seq(Chars) /\ p \in 0 .. Len(text) /\ cursor \in -1 .. MaxLen + 2 /\ next \in Nat
      /\ next \in Chars /\ next # 0 /\ MaxLen \in Nat
  BY BoundsAssumption DEF TextInv, StringTypeOK, Chars, Insert
<1>2. s \in Seq(Chars) /\ Len(s) \in 0 .. 2
  <2>1. s \in Seq({0, next}) /\ Len(s) \in 0 .. 2
    BY <1>1, StringsFacts, Zenon
  <2> QED BY <1>1, <2>1, NewTyped, Zenon
<1>3. /\ text' = Piece(0, p) \o s \o Piece(p, Len(text))
      /\ Fits(s) /\ cursor <= MaxLen /\ next' = next + 1 /\ UNCHANGED <<given, wild>>
      /\ cursor' = IF p < cursor THEN cursor + Len(s) ELSE cursor
      /\ behind' = IF p < cursor \/ cursor < 0 THEN behind \cup Letters(s) ELSE behind
  BY Zenon DEF Insert, PutIn
<1>4. text' = SubSeq(text, 1, p) \o s \o SubSeq(text, p + 1, Len(text))
  <2>1. 0 + 1 = 1
    OBVIOUS
  <2> QED BY <1>3, <2>1, Zenon DEF Piece
<1>5. text' \in Seq(Chars) /\ Spliced(text, text', p, s)
  BY <1>1, <1>2, <1>4, SpliceFacts, Zenon
<1>6. cursor' \in -1 .. MaxLen + 2
  <2>1. cursor \in -1 .. MaxLen /\ p \in Int
    BY <1>1, <1>3
  <2> QED BY <1>2, <1>3, <2>1, CursorMoved, Zenon
<1> QED BY <1>1, <1>3, <1>5, <1>6, SplicedStep

-----------------------------------------------------------------------------
(* The invariant. *)

LEMMA InitTextInv ==
  ASSUME StringInit
  PROVE  TextInv
<1>1. text \in Texts
  BY DEF StringInit
<1>2. /\ text \in Seq(Chars) /\ Len(text) \in 0 .. MaxLen
      /\ \A i \in 1 .. Len(text) : text[i] < 3
      /\ Unique(text)
  BY <1>1, TextsFacts, Zenon
<1>3. StringTypeOK
  <2>1. MaxLen \in Nat /\ MaxLetter \in Nat /\ 3 \in 3 .. MaxLetter /\ 0 \in -1 .. MaxLen + 2
    BY BoundsAssumption
  <2>2. Len(text) <= MaxLen
    BY <1>2, <2>1
  <2> QED BY <1>2, <2>1, <2>2, Zenon DEF StringInit, StringTypeOK, Chars
<1>4. Fresh /\ Repeats /\ Skips
  BY <1>2 DEF StringInit, Fresh, Repeats, Skips
<1> QED BY <1>2, <1>3, <1>4 DEF TextInv

LEMMA StepTextInv ==
  ASSUME TextInv, [StringNext]_StringVars
  PROVE  TextInv'
<1>1. CASE ClearText \/ SetText \/ Rewrite
  <2>1. /\ \E s \in Texts : text' = s
        /\ next' = 3 /\ given' = {} /\ behind' = {} /\ wild' = FALSE /\ cursor' = 0
    <3>1. <<>> \in Texts
      BY DEF Texts
    <3> QED BY <1>1, <3>1 DEF ClearText, SetText, Rewrite, Rewind
  <2> QED BY <2>1, StartingOver DEF TextInv
<1>2. CASE MakeFullPath \/ ReplaceText
  <2>1. /\ \E s \in Texts : text' = s
        /\ next' = 3 /\ given' = {} /\ behind' = {} /\ cursor' = cursor
    BY <1>2 DEF MakeFullPath, ReplaceText, Exchange
  <2>2. wild' \in BOOLEAN /\ (cursor' = 0 \/ wild')
    BY <1>2, Zenon DEF MakeFullPath, ReplaceText, Exchange
  <2> QED BY <2>1, <2>2, StartingOver DEF TextInv
<1>3. CASE \E p \in -1 .. MaxLen : SetTokenizeLuaPos(p)
  BY <1>3, SetCursorStep
<1>4. CASE \E s \in Strings(next) :
             AppendText(s) \/ \E p \in -1 .. MaxLen : Insert(p, s) \/ InsertThrows(p, s)
  BY <1>4, AppendStep, InsertStep, InsertThrowsStep
<1>5. CASE \E p, n \in 0 .. MaxLen : Erase(p, n)
  BY <1>5, EraseStep
<1>6. CASE Tokenize
  BY <1>6, TokenizeStep
<1>7. CASE TokenizeVariable
  BY <1>7, TokenizeVariableStep
<1>8. CASE UNCHANGED StringVars
  BY <1>8 DEF StringVars, TextInv, StringTypeOK, Unique, Fresh, Repeats, Skips
<1> QED BY <1>1, <1>2, <1>3, <1>4, <1>5, <1>6, <1>7, <1>8 DEF StringNext

LEMMA TextInvariance == StringSpec => []TextInv
<1>1. StringInit => TextInv
  BY InitTextInv
<1>2. TextInv /\ [StringNext]_StringVars => TextInv'
  BY StepTextInv
<1> QED BY <1>1, <1>2, PTL DEF StringSpec

LEMMA TextInvImplies ==
  ASSUME TextInv
  PROVE  NothingRepeated /\ NothingSkipped
<1>1. /\ text \in Seq(Chars) /\ Len(text) \in Nat /\ cursor \in Int
      /\ given \subseteq 1 .. MaxLetter
  BY DEF TextInv, StringTypeOK, Chars
<1>2. Letters(text) = { text[i] : i \in 1 .. Len(text) } \ {0}
  BY <1>1, LettersFacts
<1> SUFFICES ASSUME ~wild
             PROVE  /\ cursor <= Len(text)
                    /\ given \cap Letters(Ahead) = {}
                    /\ Letters(text) \subseteq given \cup behind \cup Letters(Ahead)
  BY DEF NothingRepeated, NothingSkipped
<1>3. /\ cursor <= Len(text)
      /\ \A i \in 1 .. Len(text) : cursor >= 0 /\ i > cursor => text[i] \notin given
      /\ \A i \in 1 .. Len(text) :
           text[i] = 0 \/ text[i] \in given \cup behind \/ (cursor >= 0 /\ i > cursor)
  BY DEF TextInv, Repeats, Skips
<1>4. CASE cursor < 0
  <2>1. Letters(Ahead) = {}
    BY <1>3, <1>4, AheadLetters DEF TextInv
  <2> QED BY <1>1, <1>2, <1>3, <1>4, <2>1
<1>5. CASE cursor >= 0
  <2>1. Letters(Ahead) = { text[i] : i \in cursor + 1 .. Len(text) } \ {0}
    BY <1>3, <1>5, AheadLetters DEF TextInv
  <2>2. \A i \in cursor + 1 .. Len(text) : i \in 1 .. Len(text) /\ i > cursor
    BY <1>1, <1>5
  <2>3. \A i \in 1 .. Len(text) : i > cursor => i \in cursor + 1 .. Len(text)
    BY <1>1, <1>5
  <2>4. given \cap Letters(Ahead) = {}
    BY <1>3, <1>5, <2>1, <2>2
  <2>5. Letters(text) \subseteq given \cup behind \cup Letters(Ahead)
    BY <1>2, <1>3, <2>1, <2>3
  <2> QED BY <1>3, <2>4, <2>5
<1> QED BY <1>1, <1>4, <1>5

\* The cursor and the texts keep their bounds, whatever a script calls (lua_cstring), for
\* texts of any length.
THEOREM StringTypeCorrect == StringSpec => []StringTypeOK
<1>1. TextInv => StringTypeOK
  BY DEF TextInv
<1> QED BY <1>1, TextInvariance, PTL

\* A loop over the tokens of a text that is edited meanwhile returns no character twice
\* (Tokenize, TokenizeVariable, insert, erase and append of lua_cstring).
THEOREM RepetitionCorrect == StringSpec => []NothingRepeated
<1>1. TextInv => NothingRepeated
  BY TextInvImplies
<1> QED BY <1>1, TextInvariance, PTL

\* A loop over the tokens of a text skips no character, save one that was put in behind the
\* cursor (insert moves the cursor, append and erase do not).
THEOREM SkippingCorrect == StringSpec => []NothingSkipped
<1>1. TextInv => NothingSkipped
  BY TextInvImplies
<1> QED BY <1>1, TextInvariance, PTL
=============================================================================
