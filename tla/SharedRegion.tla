---------------------------- MODULE SharedRegion ----------------------------
(***************************************************************************)
(* A SharedObject's region (ipc/_internal/NativeSharedObject.cpp): its     *)
(* name, the participants that open, read, write, clear, close and remove  *)
(* it, each a process that may die at any step, and its lock: the region's *)
(* own descriptor on Linux, a file in /tmp on macOS, a named mutex on      *)
(* Windows.  The system is chosen at the start.                            *)
(*                                                                         *)
(* A region is its header: the bytes of a payload are not told apart, and  *)
(* its sizes are counted in cells.                                         *)
(***************************************************************************)
EXTENDS Naturals

CONSTANTS
  Users,        \* participants, each with a handle of its own at most
  Systems,      \* those looked at, of "linux", "macos" and "windows"
  Regions,      \* regions the name can lead to: one for each user and one more
  LockFiles,    \* inodes the lock file can have: likewise
  Room,         \* the most cells a participant asks for
  LockAttempts,     \* bound: takeLockFile's attempts, 8 in the code
  MaxEvents,    \* bound: removals begun and long silences, together
  RegionCleanerRaces, \* whether the cleaner may come between isAtPath and futimes
  Absent

ASSUME SharedRegionAssumption ==
  /\ Systems \subseteq {"linux", "macos", "windows"}
  /\ Room \in Nat \ {0} /\ LockAttempts \in Nat \ {0} /\ MaxEvents \in Nat
  /\ RegionCleanerRaces \in BOOLEAN
  /\ Absent \notin Users \cup Regions \cup LockFiles

Sizes == 1..Room
Ops == {"open", "write", "look", "clear", "remove"}

VARIABLES
  system,       \* the system the build is for
  named,        \* the region the shared name leads to, or Absent
  header,       \* per region: size made, magic, capacity, payloadSize
  lockFile,     \* macOS: the inode the lock path leads to, or Absent
  old,          \* whether nobody has touched that file for days
  step,         \* where each participant is in its call
  op,           \* the call
  size,         \* the size the call asks for
  mapped,       \* the region it has mapped
  room,         \* payloadRoom of its handle
  held,         \* macOS: the inode it has open
  locked,       \* whether it holds its lock
  tries,        \* takeLockFile's attempts so far
  events        \* removals begun and long silences so far

handleVars == <<step, op, size, mapped, room, held, locked, tries>>
regionVars == <<named, header>>
lockFileVars == <<lockFile, old>>
sharedVars == <<system, events, handleVars, regionVars, lockFileVars>>

EmptyHeader == [made |-> 0, magic |-> FALSE, capacity |-> 0, length |-> 0]

SharedRegionInit ==
  /\ system \in Systems
  /\ named = Absent
  /\ header = [r \in Regions |-> EmptyHeader]
  /\ lockFile = Absent /\ old = FALSE /\ events = 0
  /\ step = [u \in Users |-> "closed"]
  /\ op = [u \in Users |-> "open"]
  /\ size = [u \in Users |-> 1]
  /\ mapped = [u \in Users |-> Absent]
  /\ room = [u \in Users |-> 0]
  /\ held = [u \in Users |-> Absent]
  /\ locked = [u \in Users |-> FALSE]
  /\ tries = [u \in Users |-> 0]

-----------------------------------------------------------------------------
Min2(a, b) == IF a < b THEN a ELSE b
Set(f, u, x) == [f EXCEPT ![u] = x]
To(u, from, to) == step[u] = from /\ step' = Set(step, u, to)

\* What the participant's lock is a lock on.
LockOf(u) ==
  CASE system = "linux" -> mapped[u]
    [] system = "macos" -> held[u]
    [] system = "windows" -> "mutex"

Busy(u) == \E v \in Users \ {u} : locked[v] /\ LockOf(v) = LockOf(u)

\* The call's own variables, with the call over.
CallOver(u) ==
  /\ op' = Set(op, u, "open") /\ size' = Set(size, u, 1)
  /\ tries' = Set(tries, u, 0)

\* A call of u's ends, its lock let go; a handle it had stays open, and a
\* lock file opened without one is closed.
Returns(u) ==
  /\ step' = Set(step, u, IF mapped[u] = Absent THEN "closed" ELSE "open")
  /\ locked' = Set(locked, u, FALSE)
  /\ held' = IF mapped[u] = Absent THEN Set(held, u, Absent) ELSE held
  /\ CallOver(u)

\* A region no name leads to and nobody has mapped is gone.
DropRegions ==
  header' = [r \in Regions |->
    IF named' # r /\ \A v \in Users : mapped'[v] # r THEN EmptyHeader
    ELSE header[r]]

\* The end of u's handle and of whatever its process had open.  On Windows a
\* region goes with its last handle.
LetGo(u) ==
  /\ step' = Set(step, u, "closed")
  /\ mapped' = Set(mapped, u, Absent) /\ room' = Set(room, u, 0)
  /\ held' = Set(held, u, Absent) /\ locked' = Set(locked, u, FALSE)
  /\ named' = IF system = "windows" /\ \A v \in Users \ {u} : mapped[v] = Absent
              THEN Absent ELSE named
  /\ DropRegions /\ CallOver(u)
  /\ UNCHANGED <<system, events, lockFileVars>>

-----------------------------------------------------------------------------
\* A call begins, with the size it opens with or writes.
Call(u, o, n) ==
  /\ step[u] = IF o \in {"open", "remove"} THEN "closed" ELSE "open"
  /\ events' = events + IF o = "remove" THEN 1 ELSE 0
  /\ events' <= MaxEvents
  /\ op' = Set(op, u, o) /\ size' = Set(size, u, n)
  /\ step' = Set(step, u,
       CASE system = "macos" -> IF held[u] = Absent THEN "openLock" ELSE "lock"
         [] o = "open" -> "shmOpen"
         [] o = "remove" -> "unlink"
         [] OTHER -> "lock")
  /\ UNCHANGED <<system, mapped, room, held, locked, tries,
                 regionVars, lockFileVars>>

\* openLockFile: the file at the path, or a new one put there.
OpenLockFile(u) ==
  /\ To(u, "openLock", "lock")
  /\ lockFile' = IF lockFile # Absent THEN lockFile
                 ELSE CHOOSE f \in LockFiles : \A v \in Users : held[v] # f
  /\ held' = Set(held, u, lockFile')
  /\ old' = (old /\ lockFile # Absent)
  /\ tries' = Set(tries, u, tries[u] + 1)
  /\ UNCHANGED <<system, events, op, size, mapped, room, locked,
                 regionVars>>

AfterLock(u) ==
  IF system = "macos" THEN "atPath" ELSE IF op[u] = "open" THEN "size" ELSE "in"

\* lockDescriptor, WaitForSingleObject: taken where it is free; a dead
\* owner's lock is.
TakeLock(u) ==
  /\ ~Busy(u)
  /\ To(u, "lock", AfterLock(u))
  /\ locked' = Set(locked, u, TRUE)
  /\ UNCHANGED <<system, events, op, size, mapped, room, held, tries,
                 regionVars, lockFileVars>>

\* The deadline passes first: the call fails, and an open comes to nothing.
LockTimesOut(u) ==
  /\ step[u] = "lock" /\ Busy(u)
  /\ IF op[u] = "open" THEN LetGo(u)
     ELSE /\ step' = Set(step, u, IF op[u] = "remove" THEN "closed" ELSE "open")
          /\ held' = IF tries[u] > 0 THEN Set(held, u, Absent) ELSE held
          /\ CallOver(u)
          /\ UNCHANGED <<system, events, mapped, room, locked, regionVars, lockFileVars>>

\* Variant of IsAtPath: a handle's own lock file is trusted.
IsAtPathOrOwn(u) == lockFile = held[u] \/ mapped[u] # Absent

\* isAtPath: the file locked is the one at the path now.
IsAtPath(u) == lockFile = held[u]

\* lockFileOfState, takeLockFile: a file no longer at the path is let go for
\* the one there.  A handle's own file is not one of the attempts.
CheckLockFile(u) ==
  /\ step[u] = "atPath"
  /\ IF IsAtPath(u)
     THEN /\ step' = Set(step, u, "touch") /\ tries' = Set(tries, u, 0)
          /\ UNCHANGED <<op, size, held, locked>>
     ELSE IF tries[u] < LockAttempts
     THEN /\ step' = Set(step, u, "openLock")
          /\ held' = Set(held, u, Absent) /\ locked' = Set(locked, u, FALSE)
          /\ UNCHANGED <<op, size, tries>>
     ELSE /\ step' = Set(step, u, IF mapped[u] = Absent THEN "closed" ELSE "open")
          /\ held' = Set(held, u, Absent) /\ locked' = Set(locked, u, FALSE)
          /\ CallOver(u)
  /\ UNCHANGED <<system, events, mapped, room, regionVars, lockFileVars>>

\* refreshLockFile: its times brought up to date, if they are an hour old.
TouchLockFile(u) ==
  /\ To(u, "touch",
       CASE op[u] = "open" -> "shmOpen" [] op[u] = "remove" -> "unlink"
         [] OTHER -> "in")
  /\ old' = (old /\ lockFile # held[u])
  /\ UNCHANGED <<system, events, op, size, mapped, room, held, locked, tries, regionVars, lockFile>>

-----------------------------------------------------------------------------
\* shm_open, CreateFileMapping: the region of the name, made if there is
\* none.  Windows makes it at its size, and rounds that up.
ShmOpen(u) ==
  /\ To(u, "shmOpen", IF system = "macos" THEN "size" ELSE "lock")
  /\ \E r \in Regions :
       /\ IF named # Absent THEN r = named /\ UNCHANGED <<header>>
          ELSE /\ r = CHOOSE q \in Regions : \A v \in Users : mapped[v] # q
               /\ header' = Set(header, r, [EmptyHeader EXCEPT !.made =
                    IF system = "windows" THEN Room ELSE 0])
       /\ named' = r
       /\ mapped' = Set(mapped, u, r)
  /\ UNCHANGED <<system, events, op, size, room, held, locked, tries,
                 lockFileVars>>

\* fstat, ftruncate where it has no size yet, mmap: what the mapping holds.
SizeRegion(u) ==
  LET r == mapped[u]
      made == IF header[r].made = 0 THEN size[u] ELSE header[r].made IN
  /\ To(u, "size", "magic")
  /\ header' = [header EXCEPT ![r].made = made]
  /\ room' = Set(room, u, made)
  /\ UNCHANGED <<system, events, op, size, mapped, held, locked, tries,
                 named, lockFileVars>>

\* The region cannot be had, sized or mapped, or there is no memory for the
\* handle: abandonOpen.  On Windows all of those come before the lock.
AbandonOpen(u) ==
  /\ op[u] = "open"
  /\ step[u] \in IF system = "windows" THEN {"shmOpen", "lock"}
                ELSE {"shmOpen", "size", "magic"}
  /\ LetGo(u)

\* Variant of Initialised: the magic is all that is looked at.
InitialisedByMagic(h) == h.magic

\* isValidHeader, and the capacity its maker wrote last.
Initialised(h) == h.magic /\ h.capacity # 0

\* initialiseHeader, unless another participant has: the magic, ...
InitMagic(u) ==
  LET h == header[mapped[u]] IN
  /\ step[u] = "magic"
  /\ IF Initialised(h)
     THEN Returns(u) /\ UNCHANGED header
     ELSE /\ To(u, "magic", "length")
          /\ header' = [header EXCEPT ![mapped[u]].magic = TRUE]
          /\ UNCHANGED <<op, size, held, locked, tries>>
  /\ UNCHANGED <<system, events, mapped, room, named, lockFileVars>>

\* ... the payload's length, ...
InitLength(u) ==
  /\ To(u, "length", "capacity")
  /\ header' = [header EXCEPT ![mapped[u]].length = 0]
  /\ UNCHANGED <<system, events, op, size, mapped, room, held, locked, tries, named, lockFileVars>>

\* ... and the capacity: what was asked for, but no more than is mapped.
Capacity(u) == Min2(size[u], room[u])

InitCapacity(u) ==
  /\ step[u] = "capacity"
  /\ header' = [header EXCEPT ![mapped[u]].capacity = Capacity(u)]
  /\ Returns(u)
  /\ UNCHANGED <<system, events, mapped, room, named, lockFileVars>>

-----------------------------------------------------------------------------
\* payloadLimit: the least of what the header says and the mapping holds.
PayloadLimit(u) == Min2(header[mapped[u]].capacity, room[u])

\* What a call checks of the header: that the region is one of ours, and the
\* size of what is to be written.
Admitted(u) ==
  /\ header[mapped[u]].magic
  /\ op[u] = "write" => size[u] <= PayloadLimit(u)

\* With the lock held: a call refused, or one that only looks (ReadPayload,
\* which copies a payload within the limit out, and GetCapacity), returns.
LooksAndReturns(u) ==
  /\ step[u] = "in"
  /\ Admitted(u) => op[u] = "look"
  /\ Returns(u)
  /\ UNCHANGED <<system, events, mapped, room,
                 regionVars, lockFileVars>>

\* native_sharedObjectClear.
ClearPayload(u) ==
  /\ step[u] = "in" /\ op[u] = "clear" /\ Admitted(u)
  /\ header' = [header EXCEPT ![mapped[u]].length = 0]
  /\ Returns(u)
  /\ UNCHANGED <<system, events, mapped, room, named, lockFileVars>>

\* native_sharedObjectWrite: the memcpy begins, ...
WriteBegins(u) ==
  /\ To(u, "in", "copy") /\ op[u] = "write" /\ Admitted(u)
  /\ UNCHANGED <<system, events, op, size, mapped, room, held, locked, tries, regionVars, lockFileVars>>

\* ... and its length, which tells a read what is there.
WriteEnds(u) ==
  /\ step[u] = "copy"
  /\ header' = [header EXCEPT ![mapped[u]].length = size[u]]
  /\ Returns(u)
  /\ UNCHANGED <<system, events, mapped, room, named, lockFileVars>>

-----------------------------------------------------------------------------
\* native_sharedObjectRemove: the name taken away, ...
ShmUnlink(u) ==
  /\ step[u] = "unlink"
  /\ named' = IF system = "windows" THEN named ELSE Absent
  /\ IF system = "macos"
     THEN To(u, "unlink", "unlinkLock") /\ UNCHANGED <<op, size, tries>>
     ELSE To(u, "unlink", "closed") /\ CallOver(u)
  /\ UNCHANGED <<mapped, room>> /\ DropRegions
  /\ UNCHANGED <<system, events, held, locked, lockFileVars>>

\* ... and on macOS its lock file removed while locked, then let go.
UnlinkLockFile(u) ==
  /\ step[u] = "unlinkLock"
  /\ lockFile' = Absent /\ old' = FALSE
  /\ Returns(u)
  /\ UNCHANGED <<system, events, mapped, room,
                 regionVars>>

\* native_sharedObjectClose.
CloseHandle(u) == step[u] = "open" /\ LetGo(u)

\* u's process dies.
UserDies(u) == step[u] # "closed" /\ LetGo(u)

-----------------------------------------------------------------------------
\* Days pass with nobody inside a call, ...
DaysPass ==
  /\ lockFile # Absent /\ ~old
  /\ \A u \in Users : step[u] \in {"closed", "open"}
  /\ old' = TRUE /\ events < MaxEvents /\ events' = events + 1
  /\ UNCHANGED <<system, handleVars, regionVars, lockFile>>

\* ... and the cleaner of /tmp removes a lock file as old as that.
CleanLockFile ==
  /\ old
  /\ RegionCleanerRaces \/ \A u \in Users : step[u] # "touch"
  /\ lockFile' = Absent /\ old' = FALSE
  /\ UNCHANGED <<system, events, handleVars, regionVars>>

-----------------------------------------------------------------------------
LockStep(u) ==
  \/ OpenLockFile(u) \/ TakeLock(u) \/ LockTimesOut(u)
  \/ CheckLockFile(u) \/ TouchLockFile(u)

InnerStep(u) ==
  \/ ShmOpen(u) \/ SizeRegion(u) \/ InitMagic(u) \/ InitLength(u)
  \/ InitCapacity(u) \/ LooksAndReturns(u) \/ ClearPayload(u) \/ WriteBegins(u)
  \/ WriteEnds(u) \/ ShmUnlink(u) \/ UnlinkLockFile(u)

SharedRegionNext ==
  \/ \E u \in Users :
       \/ \E o \in Ops, n \in Sizes :
            (o \in {"open", "write"} \/ n = 1) /\ Call(u, o, n)
       \/ LockStep(u) \/ InnerStep(u) \/ AbandonOpen(u)
       \/ CloseHandle(u) \/ UserDies(u)
  \/ DaysPass \/ CleanLockFile

SharedRegionSpec == SharedRegionInit /\ [][SharedRegionNext]_sharedVars

-----------------------------------------------------------------------------
SharedRegionTypeOK ==
  /\ system \in Systems
  /\ named \in Regions \cup {Absent} /\ lockFile \in LockFiles \cup {Absent}
  /\ header \in [Regions -> [made : 0..Room, magic : BOOLEAN,
                             capacity : 0..Room, length : 0..Room]]
  /\ op \in [Users -> Ops] /\ size \in [Users -> Sizes]
  /\ mapped \in [Users -> Regions \cup {Absent}] /\ room \in [Users -> 0..Room]
  /\ held \in [Users -> LockFiles \cup {Absent}] /\ locked \in [Users -> BOOLEAN]
  /\ tries \in [Users -> 0..LockAttempts]
  /\ old \in BOOLEAN /\ events \in 0..MaxEvents

\* With the region's lock, as its handle sees it.
Inside(u) ==
  step[u] \in {"size", "magic", "length", "capacity", "in", "copy"}

\* Nothing is read or written past the end of a participant's mapping, nor
\* does a header ever claim more than its region was made with, whatever
\* sizes the participants asked for.
WithinMapping ==
  /\ \A r \in Regions : header[r].capacity <= header[r].made \/ header[r].made = 0
  /\ \A u \in Users :
       /\ step[u] = "copy" => size[u] <= header[mapped[u]].made
       /\ step[u] = "open" => room[u] = header[mapped[u]].made

\* An open that returns leaves a header another can use: a participant that
\* died in the middle of making it is made good by the next.
OpenIsUsable ==
  \A u \in Users :
    step[u] = "open" => header[mapped[u]].magic /\ header[mapped[u]].capacity > 0

\* Every call ends, however often others take the lock before it: no cycle of
\* removals, retries and waits holds a participant for good.
CallsEnd ==
  \A u \in Users :
    step[u] \notin {"open", "closed"} ~> step[u] \in {"open", "closed"}

\* Every participant of a region locks the same file (takeLockFile): no two are
\* inside one region at once, on any of the systems, through a removal between
\* an open's steps, a lock file the cleaner took, a death with the lock held;
\* and everyone who asks for the lock has it or is told that it timed out.
LockServes ==
  /\ [](\A u, v \in Users : u # v /\ Inside(u) /\ Inside(v) => mapped[u] # mapped[v])
  /\ CallsEnd

\* The header that participants of different sizes share is sound: it is
\* initialised for whoever has the region open and never points past a mapping.
HeaderIsSound == WithinMapping /\ OpenIsUsable
=============================================================================
