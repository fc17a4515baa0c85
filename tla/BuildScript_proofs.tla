-------------------------- MODULE BuildScript_proofs --------------------------
(***************************************************************************)
(* Proofs about BuildScript, for any files and any number of runs,         *)
(* interruptions, failures, days and changes of src/.  The invariant says  *)
(* what the files on the disk tell at each command of a run: which         *)
(* commands of the installation went before (Ordered), how the list, the   *)
(* configuration and src/ relate (Seen, Configured), and how the record of *)
(* the last commit came about (Recorded).                                  *)
(***************************************************************************)
EXTENDS BuildScript, TLAPS

\* The commands that come before one of the installation.
Before ==
  [ checkout |-> {}, submodule |-> {"checkout"}, patch |-> {"checkout", "submodule"},
    link |-> {"checkout", "submodule", "patch"},
    configure |-> {"checkout", "submodule", "patch", "link"} ]

Checking == {"compare", "create", "put", "touch", "query", "commit", "date"}

\* The installation starts on a new tree and goes through the commands in their order.
Ordered ==
  /\ installing /\ pc \in Checking => done = {}
  /\ pc = "clone" => done = {}
  /\ ~failed /\ pc \in Commands => done = Before[pc]
  /\ ~failed /\ "configure" \in done => done = Commands
  /\ "configure" \in done => conf # None
  /\ pc = "built" => "configure" \in done

\* After the comparison a run knows the files, and the list holds them.
Seen ==
  /\ ~edited /\ pc \in {"create", "put", "touch", "query", "commit", "date", "make", "built"}
                        \cup Commands => found = src
  /\ pc = "touch" => list = found
  /\ pc \in {"query", "commit", "date"} => tree = "absent" \/ list = found
  /\ pc \in {"make", "built"} \cup Commands => list = found
  /\ src # {}

\* The configuration is for the files of the list, unless meson.build is to be touched yet
\* or the list is being written.
Configured ==
  /\ ~failed /\ ~touched /\ ~skew /\ conf # None => conf = list \/ list = {} \/ pc = "touch"
  /\ pc = "built" => built = conf /\ ~touched /\ conf # None

\* A run asks only when no answer of today is recorded, and records what it was told,
\* but for an answer that is no commit.
Recorded ==
  /\ pc \in {"commit", "date"} => date # day
  /\ pc = "date" => commit = answer \/ answer = Odd
  /\ date # None => date <= day

Inv == TypeOK /\ Ordered /\ Seen /\ Configured /\ Recorded /\ DateVouches

LEMMA InitInv == Init => Inv
<1> SUFFICES ASSUME Init PROVE Inv
  OBVIOUS
<1> USE DEF Init, Fresh
<1>1. TypeOK
  <2>1. 1 \in 1 .. LastDay /\ 1 \in 1 .. LastCommit /\ 0 \in 0 .. MaxEdits /\ 0 \in 0 .. MaxStops
    BY BoundsAssumption
  <2>2. \A set \in {list, conf, built} : set = None
    OBVIOUS
  <2>3. /\ date \in 1 .. LastDay \cup {None}
        /\ commit \in 1 .. LastCommit \cup {None}
        /\ {answer, known} \subseteq 1 .. LastCommit \cup {None, Odd}
    OBVIOUS
  <2>4. pc \in Stages /\ done \subseteq Commands /\ src \subseteq Files /\ found \subseteq Files
    BY DEF Stages
  <2> QED BY <2>1, <2>2, <2>3, <2>4 DEF TypeOK
<1>2. Ordered
  BY DEF Ordered, Checking, Commands
<1>4. Seen
  <2>1. pc = "idle" /\ src # {}
    OBVIOUS
  <2> HIDE DEF Init, Fresh
  <2> QED BY <2>1 DEF Seen, Commands
<1>5. Configured
  BY DEF Configured
<1>3. Recorded /\ DateVouches
  BY NoneAssumption DEF Recorded, DateVouches
<1> QED BY <1>1, <1>2, <1>3, <1>4, <1>5 DEF Inv

InstallStep == Run \/ Remove \/ RemoveFails \/ Clone
ListStep == Compare \/ Create \/ Put \/ Touch
UpdateStep == Query \/ SetCommit \/ SetDate
MakeStep == Make \/ MakeFails \/ Finish
WorldStep == Stop \/ Publish \/ Tomorrow

LEMMA InstallInv == Inv /\ InstallStep => Inv'
<1> SUFFICES ASSUME Inv, InstallStep PROVE Inv'
  OBVIOUS
<1> USE NoneAssumption
    DEF Inv, TypeOK, Stages, Commands, Ordered, Checking, Seen, Configured, Recorded, DateVouches,
        Go, project, sources, update, world
<1>1. CASE Run
  <2>1. TypeOK'
    BY <1>1 DEF Run
  <2>2. Ordered'
    BY <1>1 DEF Run
  <2>3. Seen'
    BY <1>1 DEF Run
  <2>4. Configured'
    BY <1>1 DEF Run
  <2>5. Recorded' /\ DateVouches'
    BY <1>1 DEF Run
  <2> QED BY <2>1, <2>2, <2>3, <2>4, <2>5
<1>2. CASE Remove
  BY <1>2 DEF Remove
<1>3. CASE RemoveFails
  BY <1>3 DEF RemoveFails
<1>4. CASE Clone
  BY <1>4 DEF Clone
<1> QED BY <1>1, <1>2, <1>3, <1>4 DEF InstallStep

LEMMA ListInv == Inv /\ ListStep => Inv'
<1> SUFFICES ASSUME Inv, ListStep PROVE Inv'
  OBVIOUS
<1> USE NoneAssumption
    DEF Inv, TypeOK, Stages, Commands, Ordered, Checking, Seen, Configured, Recorded, DateVouches,
        Go, project, sources, update, world
<1>1. CASE Compare
  <2>1. TypeOK'
    BY <1>1 DEF Compare
  <2>2. Ordered'
    BY <1>1 DEF Compare
  <2>3. Seen'
    BY <1>1 DEF Compare
  <2>4. Configured'
    BY <1>1 DEF Compare
  <2>5. Recorded' /\ DateVouches'
    BY <1>1 DEF Compare
  <2> QED BY <2>1, <2>2, <2>3, <2>4, <2>5
<1>2. CASE Create
  BY <1>2 DEF Create
<1>3. CASE Put
  BY <1>3 DEF Put
<1>4. CASE Touch
  BY <1>4 DEF Touch
<1> QED BY <1>1, <1>2, <1>3, <1>4 DEF ListStep

LEMMA ReturnTyped ==
  /\ Return \in {"idle", "checkout", "make"}
  /\ Return # "idle" => tree # "absent"
  /\ Return = "checkout" => installing
BY DEF Return

LEMMA UpdateInv == Inv /\ UpdateStep => Inv'
<1> SUFFICES ASSUME Inv, UpdateStep PROVE Inv'
  OBVIOUS
<1> USE NoneAssumption, BoundsAssumption
    DEF Inv, TypeOK, Stages, Commands, Ordered, Checking, Seen, Configured, Recorded, DateVouches,
        Go, Before, project, sources, update, world
<1>1. CASE Query
  <2>1. CASE pc' = Return /\ UNCHANGED answer
    <3> DEFINE next == Return
    <3>1. pc' = next /\ next \in {"idle", "checkout", "make"}
      BY <2>1, ReturnTyped
    <3>2. (next # "idle" => tree # "absent") /\ (next = "checkout" => installing)
      BY ReturnTyped
    <3> HIDE DEF next
    <3>3. TypeOK'
      BY <1>1, <2>1, <3>1 DEF Query
    <3>6. Ordered'
      <4>1. next = "checkout" => done = {} /\ Before[next] = {}
        BY <1>1, <3>2 DEF Query
      <4> QED BY <1>1, <2>1, <3>1, <4>1 DEF Query
    <3>4. Seen' /\ Configured'
      BY <1>1, <2>1, <3>1, <3>2 DEF Query
    <3>5. Recorded' /\ DateVouches'
      BY <1>1, <2>1, <3>1 DEF Query
    <3> QED BY <3>3, <3>4, <3>5, <3>6
  <2>2. CASE date # day /\ pc' = "commit" /\ answer' \in {head, Odd}
    BY <1>1, <2>2 DEF Query
  <2> QED BY <1>1, <2>1, <2>2 DEF Query
<1>2. CASE SetCommit
  BY <1>2 DEF SetCommit
<1>3. CASE SetDate
  <2> DEFINE next == Return
  <2>1. pc' = next /\ next \in {"idle", "checkout", "make"}
    BY <1>3, ReturnTyped DEF SetDate
  <2>2. (next # "idle" => tree # "absent") /\ (next = "checkout" => installing)
    BY ReturnTyped
  <2> HIDE DEF next
  <2>3. TypeOK'
    BY <1>3, <2>1 DEF SetDate
  <2>6. Ordered'
    <3>1. next = "checkout" => done = {} /\ Before[next] = {}
      BY <1>3, <2>2 DEF SetDate
    <3> QED BY <1>3, <2>1, <3>1 DEF SetDate
  <2>4. Seen' /\ Configured'
    BY <1>3, <2>1, <2>2 DEF SetDate
  <2>5. Recorded' /\ DateVouches'
    BY <1>3, <2>1 DEF SetDate
  <2> QED BY <2>3, <2>4, <2>5, <2>6
<1> QED BY <1>1, <1>2, <1>3 DEF UpdateStep

LEMMA MakeInv == Inv /\ MakeStep => Inv'
<1> SUFFICES ASSUME Inv, MakeStep PROVE Inv'
  OBVIOUS
<1> USE NoneAssumption
    DEF Inv, TypeOK, Stages, Commands, Ordered, Checking, Seen, Configured, Recorded, DateVouches,
        Go, Listed, project, sources, update, world
<1>1. CASE Make
  <2>1. TypeOK'
    BY <1>1 DEF Make
  <2>2. Ordered'
    BY <1>1 DEF Make
  <2>3. Seen'
    BY <1>1 DEF Make
  <2>4. Configured'
    BY <1>1 DEF Make
  <2>5. Recorded' /\ DateVouches'
    BY <1>1 DEF Make
  <2> QED BY <2>1, <2>2, <2>3, <2>4, <2>5
<1>2. CASE MakeFails
  <2>1. TypeOK'
    BY <1>2 DEF MakeFails
  <2>2. Ordered'
    BY <1>2 DEF MakeFails
  <2>3. Seen'
    BY <1>2 DEF MakeFails
  <2>4. Configured'
    BY <1>2 DEF MakeFails
  <2>5. Recorded' /\ DateVouches'
    BY <1>2 DEF MakeFails
  <2> QED BY <2>1, <2>2, <2>3, <2>4, <2>5
<1>3. CASE Finish
  BY <1>3 DEF Finish
<1> QED BY <1>1, <1>2, <1>3 DEF MakeStep

LEMMA WorldInv == Inv /\ WorldStep => Inv'
<1> SUFFICES ASSUME Inv, WorldStep PROVE Inv'
  OBVIOUS
<1> USE NoneAssumption, BoundsAssumption
    DEF Inv, TypeOK, Stages, Commands, Ordered, Checking, Seen, Configured, Recorded, DateVouches,
        project, sources, update
<1>1. CASE Stop
  <2>1. TypeOK'
    BY <1>1 DEF Stop
  <2>2. Ordered'
    BY <1>1 DEF Stop
  <2>3. Seen'
    BY <1>1 DEF Stop
  <2>4. Configured'
    BY <1>1 DEF Stop
  <2>5. Recorded' /\ DateVouches'
    BY <1>1 DEF Stop
  <2> QED BY <2>1, <2>2, <2>3, <2>4, <2>5
<1>2. CASE Publish
  BY <1>2 DEF Publish
<1>3. CASE Tomorrow
  BY <1>3 DEF Tomorrow
<1> QED BY <1>1, <1>2, <1>3 DEF WorldStep

LEMMA EditInv == ASSUME NEW f \in Files, Inv, Edit(f) PROVE Inv'
<1> USE BoundsAssumption
    DEF Inv, TypeOK, Stages, Commands, Ordered, Checking, Seen, Configured, Recorded, DateVouches,
        Edit, project, update
<1>1. TypeOK'
  OBVIOUS
<1>2. Ordered'
  OBVIOUS
<1>3. Seen'
  OBVIOUS
<1>4. Configured'
  OBVIOUS
<1>5. Recorded' /\ DateVouches'
  OBVIOUS
<1> QED BY <1>1, <1>2, <1>3, <1>4, <1>5

LEMMA CommandInv == ASSUME NEW c \in Commands, Inv, Succeed(c) \/ Fail(c) PROVE Inv'
<1> USE NoneAssumption
    DEF Inv, TypeOK, Stages, Commands, Ordered, Checking, Seen, Configured, Recorded, DateVouches,
        Go, After, project, sources, update, world
<1>1. CASE Fail(c)
  <2>1. TypeOK'
    BY <1>1 DEF Fail
  <2>2. Ordered'
    <3>1. After[c] # "compare" => After[c] \in Commands
      OBVIOUS
    <3>2. installing' /\ pc' \in Checking => FALSE
      BY <1>1, <3>1 DEF Fail
    <3>3. done' = done /\ conf' = conf /\ failed' /\ pc' \notin {"clone", "built"}
      BY <1>1, <3>1 DEF Fail
    <3> QED BY <3>2, <3>3
  <2>3. Seen'
    BY <1>1 DEF Fail
  <2>4. Configured'
    BY <1>1 DEF Fail
  <2>5. Recorded' /\ DateVouches'
    BY <1>1 DEF Fail
  <2> QED BY <2>1, <2>2, <2>3, <2>4, <2>5
<1>2. CASE Succeed(c)
  <2>1. CASE c = "configure"
    BY <1>2, <2>1 DEF Succeed, Listed, Before
  <2>2. CASE c # "configure"
    BY <1>2, <2>2 DEF Succeed, Before
  <2> QED BY <2>1, <2>2
<1> QED BY <1>1, <1>2

LEMMA InvHolds == Spec => []Inv
<1>1. Inv /\ [Next]_vars => Inv'
  <2> SUFFICES ASSUME Inv, [Next]_vars PROVE Inv'
    OBVIOUS
  <2>1. CASE UNCHANGED vars
    BY <2>1 DEF vars, project, sources, update, world, Inv, TypeOK, Ordered, Seen, Configured,
                Recorded, DateVouches
  <2>2. CASE Next
    BY <2>2, InstallInv, ListInv, UpdateInv, MakeInv, WorldInv, EditInv, CommandInv
       DEF Next, InstallStep, ListStep, UpdateStep, MakeStep, WorldStep
  <2> QED BY <2>1, <2>2
<1> QED BY InitInv, <1>1, PTL DEF Spec

\* The scripts keep every record well typed, over any number of runs.
THEOREM TypeCorrect == Spec => []TypeOK
<1>1. Inv => TypeOK
  BY DEF Inv
<1> QED BY <1>1, InvHolds, PTL

\* A binary never comes from a half installed tree unless a command failed unnoticed.
THEOREM CompleteCorrect == Spec => []BuildComplete
<1>1. Inv => BuildComplete
  <2> SUFFICES ASSUME Inv, pc = "built", ~failed PROVE done = Commands
    BY DEF BuildComplete
  <2> QED BY DEF Inv, Ordered
<1> QED BY <1>1, InvHolds, PTL

\* A build that ends is up to date with src/, save the two windows.
THEOREM CurrentCorrect == Spec => []BuiltCurrent
<1>1. Inv => BuiltCurrent
  BY DEF Inv, Seen, Configured, BuiltCurrent
<1> QED BY <1>1, InvHolds, PTL

\* The date recorded vouches for the commit recorded, over any interruptions and days,
\* but after an answer that is not 40 characters long.
THEOREM DateCorrect == Spec => []DateVouches
<1>1. Inv => DateVouches
  BY DEF Inv
<1> QED BY <1>1, InvHolds, PTL
=============================================================================
