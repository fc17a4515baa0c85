------------------------------ MODULE LuaFiles -------------------------------
(***************************************************************************)
(* The objects of the Lua file system library that own something of the    *)
(* operating system, in its Windows build: directory iterators, locks of a *)
(* directory, and locks of byte ranges of a file opened by Lua's io        *)
(* library.  Several processes run scripts on one directory and one file.  *)
(*                                                                         *)
(* An object lives in a slot of its process until the garbage collector    *)
(* finalizes it.  The operating system reuses the number of a handle that  *)
(* was closed, and CloseHandle closes whatever the number now stands for.  *)
(* All numbers come from one set, though those of searches and those of    *)
(* files differ in the system: more can go wrong here than there.          *)
(* Contents of directories and files are left out, of a file its size is   *)
(* kept, since a lock of length zero is a lock of the size at that time.   *)
(***************************************************************************)
EXTENDS Integers

CONSTANTS
  Procs,     \* processes, each with one Lua state
  Slots,     \* places for the objects of a process
  Handles,   \* numbers of handles, per process
  Zero,      \* hFile of an iterator that was not stepped yet
  Invalid,   \* -1: INVALID_HANDLE_VALUE, the failure of _findfirst
  NoObject,  \* a slot without object
  Free,      \* a handle number that is not open
  Ranges,    \* start and length given to lock and unlock; length 0 means the whole file
  MaxSize    \* bound on the size of the file

ASSUME HandleAssumption == Zero # Invalid /\ Zero \notin Handles /\ Invalid \notin Handles

ASSUME FreeAssumption == Free \notin {"search", "lockfile", "file"}

ASSUME RegionAssumption == Ranges \subseteq Int \X Nat /\ MaxSize \in Nat

VARIABLES
  object,  \* object[p][s]: the object in a slot
  opened,  \* opened[p][h]: "search", "lockfile" or "file" under a number, or Free
  size,    \* size of the file
  locked   \* locked byte ranges of the file, each with the handle that owns it

vars == <<object, opened, size, locked>>

\* dir_data, lfs_Lock and luaL_Stream.  An iterator that is not closed can be stepped.
Dirs ==
  [kind : {"dir"}, closed : {FALSE}, h : Handles \cup {Zero}]
    \cup [kind : {"dir"}, closed : {TRUE}, h : Handles \cup {Zero, Invalid}]
DirLocks == [kind : {"lock"}, h : Handles \cup {Invalid}]
Files == [kind : {"file"}, h : Handles \cup {Invalid}]

ASSUME NoObjectAssumption == NoObject \notin Dirs \cup DirLocks \cup Files

IsDir(p, s) == object[p][s] # NoObject /\ object[p][s].kind = "dir"
IsLock(p, s) == object[p][s] # NoObject /\ object[p][s].kind = "lock"
IsFile(p, s) == object[p][s] # NoObject /\ object[p][s].kind = "file"

-----------------------------------------------------------------------------
(* The operating system. *)

Opens(p, h, what) ==
  /\ opened[p][h] = Free
  /\ opened' = [opened EXCEPT ![p][h] = what]

\* Closing a handle also gives up the byte ranges locked through it.
Closes(p, hs) ==
  /\ opened' = [opened EXCEPT ![p] = [h \in Handles |-> IF h \in hs THEN Free ELSE @[h]]]
  /\ locked' = { r \in locked : r.proc # p \/ r.h \notin hs }

\* lock_dir opens its file without sharing: one handle of all processes at a time.
LockfileOpen == \E p \in Procs, h \in Handles : opened[p][h] = "lockfile"

Bytes(r) == r.from .. (r.from + r.len) - 1

Overlap(r, t) == Bytes(r) \cap Bytes(t) # {}

-----------------------------------------------------------------------------
(* Directory iterators. *)

\* dir_iter_factory.  When the path is too long the script gets an error instead of the
\* object, which then waits for its collection like the others.
DirIterFactory(p, s) ==
  /\ object[p][s] = NoObject
  /\ object' = [object EXCEPT ![p][s] = [kind |-> "dir", closed |-> FALSE, h |-> Zero]]
  /\ UNCHANGED <<opened, size, locked>>

CanStep(p, s) == IsDir(p, s) /\ ~object[p][s].closed

\* The first step opens the search.
FirstEntry(p, s, h) ==
  /\ CanStep(p, s) /\ object[p][s].h = Zero
  /\ Opens(p, h, "search")
  /\ object' = [object EXCEPT ![p][s].h = h]
  /\ UNCHANGED <<size, locked>>

\* Mutant: a search that could not be opened leaves the iterator open.
FailedOpen(d) == [d EXCEPT !.h = Invalid]

Failed(d) == [d EXCEPT !.h = Invalid, !.closed = TRUE]

\* _findfirst returned -1.
NoFirstEntry(p, s) ==
  /\ CanStep(p, s) /\ object[p][s].h = Zero
  /\ object' = [object EXCEPT ![p][s] = Failed(@)]
  /\ UNCHANGED <<opened, size, locked>>

\* Mutant: the end of the iteration closes the search and not the iterator.
EndedOpen(d) == d

Ended(d) == [d EXCEPT !.closed = TRUE]

\* _findnext found no more; a step that finds an entry changes nothing here.
NoMoreEntries(p, s) ==
  /\ CanStep(p, s) /\ object[p][s].h # Zero
  /\ object' = [object EXCEPT ![p][s] = Ended(@)]
  /\ Closes(p, {object[p][s].h})
  /\ UNCHANGED size

-----------------------------------------------------------------------------
(* Locks and files. *)

\* lfs_lock_dir; its failure creates no object.
LockDir(p, s, h) ==
  /\ object[p][s] = NoObject
  /\ ~LockfileOpen
  /\ Opens(p, h, "lockfile")
  /\ object' = [object EXCEPT ![p][s] = [kind |-> "lock", h |-> h]]
  /\ UNCHANGED <<size, locked>>

\* io.open; a mode that creates the file anew empties it.
IoOpen(p, s, h, n) ==
  /\ object[p][s] = NoObject
  /\ n \in {0, size}
  /\ Opens(p, h, "file")
  /\ object' = [object EXCEPT ![p][s] = [kind |-> "file", h |-> h]]
  /\ size' = n
  /\ UNCHANGED locked

\* check_file
Usable(p, s) == IsFile(p, s) /\ object[p][s].h # Invalid

\* file:write at the end; the system keeps others from writing into a locked range.
Write(p, s) ==
  /\ Usable(p, s)
  /\ size < MaxSize
  /\ \A r \in locked : size \in Bytes(r) => r.proc = p /\ r.h = object[p][s].h
  /\ size' = size + 1
  /\ UNCHANGED <<object, opened, locked>>

\* Mutant: after the length was measured the stream is left at its end.
FromTheEnd(start, len) ==
  IF len = 0 THEN {size} ELSE IF start >= 0 THEN {start} ELSE 0 .. MaxSize

\* Where the stream is after fseek(fh, start, SEEK_SET), whose result nobody reads: it fails
\* for a negative start and leaves the stream where it was, at the end once the length was
\* measured and anywhere otherwise.
From(start, len) ==
  IF start >= 0 THEN {start} ELSE IF len = 0 THEN {size} ELSE 0 .. MaxSize

\* The range of _file_lock: len = 0 stands for the present size, counted from the start.
\* whole is kept for the property: how much of the file a lock of the whole file is to cover.
Region(p, s, start, len, from) ==
  [ proc |-> p, h |-> object[p][s].h, from |-> from,
    len |-> IF len = 0 THEN size ELSE len, whole |-> IF start = 0 /\ len = 0 THEN size ELSE 0 ]

Modes == {"r", "w", "u"}

SameRange(r, t) == r.proc = t.proc /\ r.h = t.h /\ r.from = t.from /\ r.len = t.len

\* _file_lock: "r" and "w" both ask for an exclusive lock.  The system refuses a range that
\* meets a locked one, whoever owns that, and gives up only a range that was locked so.
Locking(g, mode) ==
  \/ /\ mode \in {"r", "w"}
     /\ \A r \in locked : ~Overlap(g, r)
     /\ locked' = locked \cup {g}
  \/ /\ mode = "u"
     /\ \E r \in locked : SameRange(r, g)
     /\ locked' = { r \in locked : ~SameRange(r, g) }

\* file:lock; the mode of unlock is accepted too.
FileLock(p, s, mode, start, len) ==
  /\ Usable(p, s)
  /\ \E from \in From(start, len) : Locking(Region(p, s, start, len, from), mode)
  /\ UNCHANGED <<object, opened, size>>

FileUnlock(p, s, start, len) ==
  /\ Usable(p, s)
  /\ \E from \in From(start, len) : Locking(Region(p, s, start, len, from), "u")
  /\ UNCHANGED <<object, opened, size>>

-----------------------------------------------------------------------------
(* Closing, collecting, and the end of a process. *)

\* Mutant: a freed lock keeps the handle it closed.
Kept(l) == l

\* lock->fd = INVALID_HANDLE_VALUE
Freed(l) == [l EXCEPT !.h = Invalid]

\* The handle that close, free or a finalizer would close: dir_close for an iterator that
\* is open and was stepped, lfs_unlock_dir and the io library for a handle that is valid.
Owned(o) ==
  IF o.kind = "dir" THEN { h \in {o.h} : ~o.closed /\ h # Zero } ELSE {o.h} \ {Invalid}

\* d:close, lock:free, file:close, as often as a script likes, each on an object of its own
\* kind: dir_close reads whatever it is given as an iterator (lua_touserdata).
Close(p, s) ==
  /\ object[p][s] # NoObject
  /\ object' = [object EXCEPT ![p][s] = IF @.kind = "dir" THEN Ended(@) ELSE Freed(@)]
  /\ Closes(p, Owned(object[p][s]))
  /\ UNCHANGED size

\* __gc, which is the same function, and the end of the object.
Collect(p, s) ==
  /\ object[p][s] # NoObject
  /\ object' = [object EXCEPT ![p][s] = NoObject]
  /\ Closes(p, Owned(object[p][s]))
  /\ UNCHANGED size

\* A process ends, also by a crash: the system closes its handles.  Another may start.
Exit(p) ==
  /\ object' = [object EXCEPT ![p] = [s \in Slots |-> NoObject]]
  /\ Closes(p, Handles)
  /\ UNCHANGED size

Init ==
  /\ object = [p \in Procs |-> [s \in Slots |-> NoObject]]
  /\ opened = [p \in Procs |-> [h \in Handles |-> Free]]
  /\ size = 0
  /\ locked = {}

Next ==
  \/ \E p \in Procs, s \in Slots :
       \/ DirIterFactory(p, s) \/ NoFirstEntry(p, s) \/ NoMoreEntries(p, s)
       \/ Write(p, s) \/ Close(p, s) \/ Collect(p, s)
       \/ \E h \in Handles : FirstEntry(p, s, h) \/ LockDir(p, s, h)
       \/ \E h \in Handles, n \in {0, size} : IoOpen(p, s, h, n)
       \/ \E a \in Ranges : FileUnlock(p, s, a[1], a[2])
       \/ \E a \in Ranges, mode \in Modes : FileLock(p, s, mode, a[1], a[2])
  \/ \E p \in Procs : Exit(p)

Spec == Init /\ [][Next]_vars

-----------------------------------------------------------------------------
(* Properties. *)

\* Type invariant; an iterator that can be stepped never holds the failure value.
TypeOK ==
  /\ object \in [Procs -> [Slots -> Dirs \cup DirLocks \cup Files \cup {NoObject}]]
  /\ opened \in [Procs -> [Handles -> {"search", "lockfile", "file", Free}]]
  /\ size \in 0 .. MaxSize
  /\ locked \subseteq [proc : Procs, h : Handles, from : Nat, len : Nat, whole : Nat]

Purpose(o) ==
  CASE o.kind = "dir" -> "search" [] o.kind = "lock" -> "lockfile" [] o.kind = "file" -> "file"

Owns(p, s, h) == object[p][s] # NoObject /\ h \in Owned(object[p][s])

\* However iterators end, locks are freed twice and objects are collected, no handle leaks
\* and none is closed under another object: each open handle has an owner, an owner's
\* handle is open for the owner's purpose, and no two objects would close the same one
\* (dir_iter, dir_close, lfs_unlock_dir).
HandlesOwned ==
  \A p \in Procs, h \in Handles :
    /\ opened[p][h] # Free => \E s \in Slots : Owns(p, s, h)
    /\ \A s \in Slots : Owns(p, s, h) =>
         /\ opened[p][h] = Purpose(object[p][s])
         /\ \A t \in Slots : Owns(p, t, h) => t = s

Holding == { l \in Procs \X Slots : IsLock(l[1], l[2]) /\ object[l[1]][l[2]].h # Invalid }

Lock == INSTANCE DirLock WITH Locks <- Procs \X Slots, holders <- Holding

\* The lock objects of lock_dir implement the abstract directory lock, crashes included.
LockRefined == Lock!Spec

\* A lock of a whole file (lock with neither start nor length) keeps every other lock off
\* every byte the file had when it was taken, however the file grows and whatever ranges
\* are asked for afterwards: _file_lock.
WholeFileExclusive ==
  \A w, r \in locked : r # w => Bytes(r) \cap (0 .. w.whole - 1) = {}
=============================================================================
