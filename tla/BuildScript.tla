----------------------------- MODULE BuildScript -----------------------------
(***************************************************************************)
(* scripts/build_qemu.bat and scripts/touch_project.lua: run by hand again *)
(* and again, they install the QEMU tree once and rebuild it.  What a run  *)
(* leaves on the disk is all that the next one knows of it, a run may be   *)
(* interrupted before any of its commands, a command of the installation   *)
(* may fail without stopping the others, and source files come and go.     *)
(*                                                                         *)
(* QEMU's build finds its source files when it is configured and again     *)
(* when meson.build is newer than the configuration; touch_project.lua     *)
(* keeps the list of the files it saw last and touches meson.build when    *)
(* they are others.  It runs twice in a run that installs.                 *)
(***************************************************************************)
EXTENDS Integers, FiniteSets

CONSTANTS
  Files,       \* source files that may be in src/
  MaxEdits,    \* bound on the changes of src/
  MaxStops,    \* bound on the interruptions
  LastDay,     \* bound on the days
  LastCommit,  \* bound on the commits of the public repository
  None         \* no list, no configuration, no binary, no commit

ASSUME NoneAssumption == None \notin Nat /\ \A set \in SUBSET Files : None # set
ASSUME BoundsAssumption ==
  MaxEdits \in Nat /\ MaxStops \in Nat /\ {LastDay, LastCommit} \subseteq Nat \ {0}

VARIABLES
  pc,          \* the command about to run, "idle" between two runs
  installing,  \* inside the block that installs the tree
  tree,        \* .qemu: "absent", "partial" (no Makefile yet) or "cloned"
  done,        \* commands of the installation that succeeded on this tree
  failed,      \* a command of the installation failed on this tree
  src,         \* the files of src/
  found,       \* the files touch_project.lua found (sRun)
  list,        \* testdrive_src_list.txt; {} once created and not yet written
  touched,     \* meson.build is newer than the configuration
  conf,        \* the files the build is configured for
  built,       \* the files of the last binary
  edited,      \* src/ changed since it was last listed
  skew,        \* the list was written for another configuration than the one there is
  day, head,   \* today, and the last commit of the public repository
  date, commit,\* DATE@QEMU and COMMIT@QEMU
  answer,      \* the commit git ls-remote returned in this run, or Odd
  known,       \* the answer it gave on the day of DATE@QEMU
  edits, stops

project == <<tree, done, failed>>
sources == <<found, list, touched, conf, built, edited, skew>>
update == <<date, commit, answer, known>>
world == <<src, day, head, edits, stops>>
vars == <<pc, installing, project, sources, update, world>>

\* An answer for HEAD that is not the 40 characters of a commit.
Odd == 0

\* The commands of the installation after the clone.
Commands == {"checkout", "submodule", "patch", "link", "configure"}

\* Mutant: the tree is configured before it is patched.
AfterConfiguring ==
  [ checkout |-> "submodule", submodule |-> "configure", configure |-> "patch",
    patch |-> "link", link |-> "compare" ]

\* The order of the script.
After ==
  [ checkout |-> "submodule", submodule |-> "patch", patch |-> "link", link |-> "configure",
    configure |-> "compare" ]

\* Nothing is on the disk yet, and d is the date read from the environment.
Fresh(d) ==
  /\ pc = "idle" /\ installing = FALSE
  /\ tree = "absent" /\ done = {} /\ failed = FALSE
  /\ src \in (SUBSET Files) \ {{}}
  /\ found = {} /\ list = None /\ touched = FALSE /\ conf = None /\ built = None
  /\ edited = FALSE /\ skew = FALSE
  /\ day = 1 /\ head = 1 /\ date = d /\ commit = None /\ answer = None /\ known = None
  /\ edits = 0 /\ stops = 0

\* Mutant: a date that is not set is taken for the day 0.
InitAtZero == Fresh(0)

Init == Fresh(None)

Go(a, b) == pc = a /\ pc' = b

-----------------------------------------------------------------------------
(* build_qemu.bat: the installation. *)

\* "if not exist .qemu\Makefile": the tree is installed from nothing.
Run ==
  /\ pc = "idle"
  /\ installing' = (tree # "cloned")
  /\ pc' = IF tree = "cloned" THEN "compare" ELSE "remove"
  /\ UNCHANGED <<project, sources, update, world>>

\* rm -rf .qemu.
Remove ==
  /\ Go("remove", "clone")
  /\ tree' = "absent" /\ done' = {} /\ failed' = FALSE
  /\ list' = None /\ touched' = FALSE /\ conf' = None /\ skew' = FALSE
  /\ UNCHANGED <<installing, found, built, edited, update, world>>

\* The folder cannot be deleted: exit /b 1.
RemoveFails ==
  /\ tree = "partial"
  /\ Go("remove", "idle")
  /\ UNCHANGED <<installing, project, sources, update, world>>

\* git clone, which takes its folder away again when it fails.
Clone ==
  /\ Go("clone", "compare")
  /\ tree' \in {"cloned", "absent"}
  /\ UNCHANGED <<installing, done, failed, sources, update, world>>

\* The patch makes QEMU's build list src/, through the links; it fails without them.
Configurable == "patch" \in done => "link" \in done
Listed == IF "patch" \in done THEN src ELSE {}

Succeed(c) ==
  /\ Go(c, After[c])
  /\ c = "configure" => Configurable
  /\ done' = done \cup {c}
  /\ installing' = (After[c] # "compare")
  /\ IF c = "configure"
     THEN conf' = Listed /\ touched' = FALSE /\ skew' = edited
     ELSE UNCHANGED <<conf, touched, skew>>
  /\ UNCHANGED <<tree, failed, found, list, built, edited, update, world>>

\* Nothing looks at the result of a command.
Fail(c) ==
  /\ Go(c, After[c])
  /\ failed' = TRUE
  /\ installing' = (After[c] # "compare")
  /\ UNCHANGED <<tree, done, sources, update, world>>

-----------------------------------------------------------------------------
(* touch_project.lua. *)

\* ls src/*, compared with the list.  Without a tree nothing can be written.
Compare ==
  /\ pc = "compare"
  /\ found' = src /\ edited' = FALSE
  /\ pc' = IF tree = "absent" \/ list = src THEN "query" ELSE "create"
  /\ UNCHANGED <<installing, project, list, touched, conf, built, skew, update, world>>

Create ==
  /\ Go("create", "put")
  /\ list' = {}
  /\ UNCHANGED <<installing, project, found, touched, conf, built, edited, skew, update, world>>

Put ==
  /\ Go("put", "touch")
  /\ list' = found
  /\ UNCHANGED <<installing, project, found, touched, conf, built, edited, skew, update, world>>

\* Mutant: meson.build is touched the first time only.
TouchOnce ==
  /\ Go("touch", "query")
  /\ touched' = (touched \/ conf = None)
  /\ UNCHANGED <<installing, project, found, list, conf, built, edited, skew, update, world>>

Touch ==
  /\ Go("touch", "query")
  /\ touched' = TRUE
  /\ UNCHANGED <<installing, project, found, list, conf, built, edited, skew, update, world>>

\* The script is over: the installation goes on, or the build starts.  Without a tree the
\* commands that follow run outside of it and the run comes to nothing.
Return == IF tree = "absent" THEN "idle" ELSE IF installing THEN "checkout" ELSE "make"

\* The public repository is asked once a day; without an answer that ends with HEAD, or
\* with one of today already, the script is over.
Query ==
  /\ pc = "query"
  /\ \/ pc' = Return /\ UNCHANGED answer
     \/ date # day /\ pc' = "commit" /\ answer' \in {head, Odd}
  /\ UNCHANGED <<installing, project, sources, date, commit, known, world>>

\* Mutant: the commit is recorded once for all.
SetFirstCommit ==
  /\ Go("commit", "date")
  /\ commit' = IF answer # Odd /\ commit = None THEN answer ELSE commit
  /\ UNCHANGED <<installing, project, sources, date, answer, known, world>>

\* "#sCurCommit.s == 40": another answer is not recorded, and the script goes on.
SetCommit ==
  /\ Go("commit", "date")
  /\ commit' = IF answer # Odd THEN answer ELSE commit
  /\ UNCHANGED <<installing, project, sources, date, answer, known, world>>

\* The date is set whether the answer was recorded as a commit or not.
SetDate ==
  /\ Go("date", Return)
  /\ date' = day /\ known' = answer
  /\ UNCHANGED <<installing, project, sources, commit, answer, world>>

-----------------------------------------------------------------------------
(* make, and what happens around the scripts. *)

\* make configures again when meson.build is newer, then compiles: every file it is
\* configured for must be there.
Make ==
  /\ Go("make", "built")
  /\ "configure" \in done
  /\ LET files == IF touched THEN Listed ELSE conf IN
       /\ files \subseteq src
       /\ conf' = files
       /\ built' = files
  /\ touched' = FALSE
  /\ skew' = IF touched THEN edited ELSE skew
  /\ UNCHANGED <<installing, project, found, list, edited, update, world>>

\* The build fails, before or after configuring again.
MakeFails ==
  /\ Go("make", "idle")
  /\ \/ UNCHANGED <<touched, conf, skew>>
     \/ /\ "configure" \in done /\ touched
        /\ touched' = FALSE /\ conf' = Listed /\ skew' = edited
  /\ UNCHANGED <<installing, project, found, list, built, edited, update, world>>

Finish ==
  /\ Go("built", "idle")
  /\ UNCHANGED <<installing, project, sources, update, world>>

\* The run is interrupted before its next command; an interrupted clone leaves anything.
Stop ==
  /\ pc # "idle" /\ stops < MaxStops
  /\ pc' = "idle"
  /\ stops' = stops + 1
  /\ IF pc = "clone" THEN tree' \in {"absent", "partial", "cloned"} ELSE UNCHANGED tree
  /\ skew' = (skew \/ (pc = "touch" /\ ~touched))
  /\ UNCHANGED <<installing, done, failed, found, list, touched, conf, built, edited, update,
                 src, day, head, edits>>

\* A file is added to src/ or taken out of it.
Edit(f) ==
  /\ edits < MaxEdits
  /\ src' = IF f \in src THEN src \ {f} ELSE src \cup {f}
  /\ src' # {}
  /\ edited' = TRUE
  /\ edits' = edits + 1
  /\ UNCHANGED <<pc, installing, project, found, list, touched, conf, built, skew, update, day,
                 head, stops>>

Publish ==
  /\ head < LastCommit
  /\ head' = head + 1
  /\ UNCHANGED <<pc, installing, project, sources, update, src, day, edits, stops>>

\* Runs that span midnight are left out: the script reads the time once.
Tomorrow ==
  /\ pc = "idle" /\ day < LastDay
  /\ day' = day + 1
  /\ UNCHANGED <<pc, installing, project, sources, update, src, head, edits, stops>>

Next ==
  \/ Run \/ Remove \/ RemoveFails \/ Clone
  \/ \E c \in Commands : Succeed(c) \/ Fail(c)
  \/ Compare \/ Create \/ Put \/ Touch \/ Query \/ SetCommit \/ SetDate
  \/ Make \/ MakeFails \/ Finish
  \/ Stop \/ Publish \/ Tomorrow
  \/ \E f \in Files : Edit(f)

Spec == Init /\ [][Next]_vars

-----------------------------------------------------------------------------
(* Properties. *)

Stages ==
  { "idle", "remove", "clone", "compare", "create", "put", "touch", "query", "commit", "date",
    "make", "built" } \cup Commands

TypeOK ==
  /\ pc \in Stages
  /\ installing \in BOOLEAN /\ failed \in BOOLEAN /\ touched \in BOOLEAN
  /\ edited \in BOOLEAN /\ skew \in BOOLEAN
  /\ tree \in {"absent", "partial", "cloned"}
  /\ done \subseteq Commands
  /\ src \subseteq Files /\ found \subseteq Files
  /\ \A set \in {list, conf, built} : set = None \/ set \subseteq Files
  /\ day \in 1 .. LastDay /\ head \in 1 .. LastCommit
  /\ date \in 1 .. LastDay \cup {None}
  /\ commit \in 1 .. LastCommit \cup {None}
  /\ {answer, known} \subseteq 1 .. LastCommit \cup {None, Odd}
  /\ edits \in 0 .. MaxEdits /\ stops \in 0 .. MaxStops

\* Interruptions alone never give a binary of a half installed tree: what is built from a
\* tree on which no command failed went through every command.  The tree is configured
\* last, and is never resumed: a tree interrupted before that has to be deleted by hand.
BuildComplete == pc = "built" /\ ~failed => done = Commands

\* A build that ends, on a tree on which no command failed, is up to date with src/,
\* whatever runs were interrupted or files came and went before, save two windows: an
\* interruption between the list and the touch of meson.build, and a change of src/
\* between the list and the configuration.
BuiltCurrent == pc = "built" /\ ~failed /\ ~skew /\ ~edited => built = src

\* DATE@QEMU vouches for COMMIT@QEMU: on the day it records no other run asks again, and
\* the commit is the one the repository answered, whatever interruption came between.  It
\* does so unless the answer was not 40 characters long: the day is recorded then too, no
\* run of that day asks again, and the commit stays the one of an earlier answer.
DateVouches == date = day => commit = known \/ known = Odd
=============================================================================
