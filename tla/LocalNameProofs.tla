-------------------------- MODULE LocalNameProofs --------------------------
(***************************************************************************)
(* Proofs about LocalName, for any processes, clients and files, with a    *)
(* cleaner that does not come between a listener's lstat and its futimes.  *)
(***************************************************************************)
EXTENDS LocalName, TLAPS

Places == {"idle", "up"} \cup CreateSteps \cup CloseSteps

Typed ==
  /\ lockPath \in Files \cup {None}
  /\ age \in Nat
  /\ listening \in [Procs -> Places]
  /\ lockFd \in [Procs -> Files \cup {None}]
  /\ flocked \in [Procs -> BOOLEAN]
  /\ due \in [Procs -> BOOLEAN]
  /\ DOMAIN answer = Procs

\* Where a process has its lock file open, and where it holds the lock on it.
Opened(p) == listening[p] \notin {"idle", "open"}
Locked(p) == listening[p] \notin {"idle", "open", "flock"}

\* A lock file is locked by one of those that have it open.
FlockInv ==
  /\ \A p \in Procs : Opened(p) => lockFd[p] # None
  /\ \A p \in Procs : flocked[p] <=> Locked(p)
  /\ \A p, q \in Procs : (Locked(p) /\ Locked(q) /\ lockFd[p] = lockFd[q]) => p = q

\* The name's holder has locked the file the path leads to, which is too
\* young to be cleaned.
NameInv ==
  \A p \in Procs :
    /\ (HasName(p) \/ listening[p] = "refresh") => lockPath = lockFd[p]
    /\ HasName(p) => age <= 1
    /\ listening[p] \in {"unlink", "bind", "listen"} => age = 0
    /\ (listening[p] = "up" /\ ~due[p]) => age = 0

\* What the holder has done to the socket's path is as it left it.
PathInv ==
  \A p \in Procs :
    /\ listening[p] = "bind" => socketPath = "nothing"
    /\ listening[p] \in {"listen", "up"} => socketPath = p
    /\ answer[p] # "inUse"

NamedInv == Typed /\ FlockInv /\ NameInv /\ PathInv

-----------------------------------------------------------------------------
\* With nobody listening and no file there, the invariant holds.
LEMMA NameInitially == LocalNameInit => NamedInv
<1>. SUFFICES ASSUME LocalNameInit PROVE NamedInv
  OBVIOUS
<1>1. Typed
  BY DEF LocalNameInit, Typed, Places
<1>2. FlockInv
  BY DEF LocalNameInit, FlockInv, Opened, Locked
<1>3. NameInv /\ PathInv
  BY DEF LocalNameInit, NameInv, PathInv, HasName
<1>. QED
  BY <1>1, <1>2, <1>3 DEF NamedInv

\* OneListener: two that have the name have locked the same file.
LEMMA NameIsOnes ==
  ASSUME NamedInv, NEW p \in Procs, NEW q \in Procs,
         HasName(p) \/ listening[p] = "refresh", HasName(q) \/ listening[q] = "refresh"
  PROVE  p = q
BY DEF NamedInv, Typed, FlockInv, NameInv, HasName, Locked

\* A step of p's that neither opens, locks nor closes a lock file, and moves p
\* between two places with the lock.
LEMMA FlockKept ==
  ASSUME NamedInv, NEW p \in Procs, NEW to \in Places,
         listening' = [listening EXCEPT ![p] = to],
         Locked(p), to \notin {"idle", "open", "flock"},
         UNCHANGED <<lockFd, flocked>>
  PROVE  FlockInv'
BY DEF NamedInv, Typed, FlockInv, Opened, Locked

\* The lock file let go of: a listen() that fails, the end of a close, a crash.
LEMMA FlockClosed ==
  ASSUME NamedInv, NEW p \in Procs, NEW to \in {"idle", "open"},
         listening' = [listening EXCEPT ![p] = to], CloseLockFd(p)
  PROVE  FlockInv' /\ lockFd' \in [Procs -> Files \cup {None}]
                   /\ flocked' \in [Procs -> BOOLEAN]
<1>. USE DEF NamedInv, Typed, CloseLockFd
<1>1. /\ lockFd' \in [Procs -> Files \cup {None}]
      /\ flocked' \in [Procs -> BOOLEAN]
  OBVIOUS
<1>2. FlockInv'
  BY DEF FlockInv, Opened, Locked
<1>. QED
  BY <1>1, <1>2

\* A process that goes out of listen() or close() leaves the others' names,
\* and their socket files, as they are.
LEMMA GoneKeeps ==
  ASSUME NamedInv, NEW p \in Procs, NEW to \in {"idle", "open"},
         listening' = [listening EXCEPT ![p] = to], CloseLockFd(p),
         UNCHANGED <<lockPath, age>>,
         due' \in [Procs -> BOOLEAN], \A q \in Procs \ {p} : due'[q] = due[q],
         socketPath' \in {socketPath, StaleAfter(p)},
         DOMAIN answer' = Procs, \A q \in Procs : answer'[q] # "inUse"
  PROVE  NamedInv'
<1>1. Typed'
  BY FlockClosed DEF NamedInv, Typed, Places, CreateSteps
<1>2. FlockInv'
  BY FlockClosed
<1>3. NameInv'
  BY DEF NamedInv, Typed, NameInv, HasName, CloseLockFd
<1>4. PathInv'
  BY LocalNameAssumption DEF NamedInv, Typed, PathInv, StaleAfter
<1>. QED
  BY <1>1, <1>2, <1>3, <1>4 DEF NamedInv

-----------------------------------------------------------------------------
\* lockName's open gives a process the file at the path, or one nobody has.
LEMMA OpenKeeps ==
  ASSUME NamedInv, NEW p \in Procs, Listen(p) \/ LockOpen(p)
  PROVE  NamedInv'
<1>. USE DEF NamedInv, Typed, Go
<1>1. CASE Listen(p)
  <2>1. Typed'
    BY <1>1 DEF Listen, Answer, Places, CreateSteps
  <2>2. FlockInv'
    BY <1>1 DEF Listen, FlockInv, Opened, Locked
  <2>3. NameInv' /\ PathInv'
    BY <1>1 DEF Listen, Answer, NameInv, PathInv, HasName
  <2>. QED
    BY <2>1, <2>2, <2>3
<1>2. CASE LockOpen(p)
  <2>1. NewFile \in Files /\ \A q \in Procs : lockFd[q] # NewFile
    BY LocalNameAssumption DEF NewFile
  <2>2. lockPath' \in Files /\ lockFd'[p] = lockPath'
    BY <1>2, <2>1 DEF LockOpen
  <2>3. Typed'
    BY <1>2, <2>2 DEF LockOpen, Places, CreateSteps
  <2>4. FlockInv'
    BY <1>2, <2>2, LocalNameAssumption DEF LockOpen, FlockInv, Opened, Locked
  <2>5. NameInv'
    BY <1>2, LocalNameAssumption DEF LockOpen, FlockInv, NameInv, HasName, Opened
  <2>6. PathInv'
    BY <1>2 DEF LockOpen, PathInv
  <2>. QED
    BY <2>3, <2>4, <2>5, <2>6
<1>. QED
  BY <1>1, <1>2

\* lockName: the lock taken, checked against the path, and its times renewed.
LEMMA LockKeeps ==
  ASSUME NamedInv, NEW p \in Procs, LockTake(p) \/ LockCheck(p) \/ LockRefresh(p)
  PROVE  NamedInv'
<1>. USE DEF NamedInv, Typed, Go
<1>1. CASE LockTake(p)
  <2>1. CASE \E q \in Procs \ {p} : flocked[q] /\ lockFd[q] = lockFd[p]
    BY <1>1, <2>1, GoneKeeps DEF LockTake, Refuse, Answer, PathInv, fileVars
  <2>2. CASE ~\E q \in Procs \ {p} : flocked[q] /\ lockFd[q] = lockFd[p]
    <3>1. /\ listening[p] = "flock" /\ listening' = [listening EXCEPT ![p] = "check"]
          /\ flocked' = [flocked EXCEPT ![p] = TRUE]
          /\ UNCHANGED <<lockPath, socketPath, age, lockFd, due, answer>>
      BY <1>1, <2>2 DEF LockTake, fileVars
    <3>2. Typed'
      BY <3>1 DEF Places, CreateSteps
    <3>3. FlockInv'
      BY <2>2, <3>1 DEF FlockInv, Opened, Locked
    <3>4. NameInv' /\ PathInv'
      BY <3>1 DEF NameInv, PathInv, HasName
    <3>. QED
      BY <3>2, <3>3, <3>4
  <2>. QED
    BY <2>1, <2>2
<1>2. CASE LockCheck(p)
  <2>1. CASE lockPath = lockFd[p]
    <3>1. /\ listening[p] = "check" /\ listening' = [listening EXCEPT ![p] = "refresh"]
          /\ UNCHANGED <<lockPath, socketPath, age, lockFd, flocked, due, answer>>
      BY <1>2, <2>1 DEF LockCheck, fileVars
    <3>2. Typed'
      BY <3>1 DEF Places, CreateSteps
    <3>3. FlockInv'
      BY <3>1, FlockKept DEF Locked, Places, CreateSteps
    <3>4. NameInv' /\ PathInv'
      BY <2>1, <3>1 DEF NameInv, PathInv, HasName
    <3>. QED
      BY <3>2, <3>3, <3>4
  <2>2. CASE lockPath # lockFd[p]
    BY <1>2, <2>2, GoneKeeps DEF LockCheck, Refuse, Answer, PathInv, fileVars
  <2>. QED
    BY <2>1, <2>2
<1>3. CASE LockRefresh(p)
  <2>1. /\ listening[p] = "refresh" /\ listening' = [listening EXCEPT ![p] = "unlink"]
        /\ UNCHANGED <<lockPath, socketPath, lockFd, flocked, due, answer>>
    BY <1>3 DEF LockRefresh
  <2>2. age' = 0
    BY <1>3, <2>1 DEF LockRefresh, Touch, NameInv
  <2>3. Typed'
    BY <2>1, <2>2 DEF Places, CreateSteps
  <2>4. FlockInv'
    BY <2>1, FlockKept DEF Locked, Places, CreateSteps
  <2>5. NameInv' /\ PathInv'
    BY <2>1, <2>2 DEF NameInv, PathInv, HasName
  <2>. QED
    BY <2>3, <2>4, <2>5
<1>. QED
  BY <1>1, <1>2, <1>3

\* The steps on the socket's path, which only the name's holder takes.
LEMMA BindKeeps ==
  ASSUME NamedInv, NEW p \in Procs,
         UnlinkStale(p) \/ BindSocket(p) \/ ListenOn(p) \/ CreateFails(p)
  PROVE  NamedInv'
<1>. USE DEF NamedInv, Typed, Go
<1>0. \A q \in Procs : HasName(p) /\ HasName(q) => p = q
  BY NameIsOnes
<1>1. CASE UnlinkStale(p)
  <2>1. Typed'
    BY <1>1 DEF UnlinkStale, Places, CreateSteps
  <2>2. FlockInv'
    BY <1>1, FlockKept DEF UnlinkStale, Locked, Places, CreateSteps
  <2>3. NameInv'
    BY <1>1 DEF UnlinkStale, NameInv, HasName
  <2>4. PathInv'
    BY <1>0, <1>1 DEF UnlinkStale, PathInv, HasName
  <2>. QED
    BY <2>1, <2>2, <2>3, <2>4
<1>2. CASE BindSocket(p)
  <2>1. /\ listening[p] = "bind" /\ listening' = [listening EXCEPT ![p] = "listen"]
        /\ socketPath' = p
        /\ UNCHANGED <<lockPath, age, lockFd, flocked, due, answer>>
    BY <1>2 DEF BindSocket, Refuse, PathInv
  <2>2. Typed'
    BY <2>1 DEF Places, CreateSteps
  <2>3. FlockInv'
    BY <2>1, FlockKept DEF Locked, Places, CreateSteps
  <2>4. NameInv'
    BY <2>1 DEF NameInv, HasName
  <2>5. PathInv'
    BY <1>0, <2>1 DEF PathInv, HasName
  <2>. QED
    BY <2>2, <2>3, <2>4, <2>5
<1>3. CASE ListenOn(p)
  <2>1. Typed'
    BY <1>3 DEF ListenOn, Answer, Places, fileVars
  <2>2. FlockInv'
    BY <1>3, FlockKept DEF ListenOn, Locked, Places
  <2>3. NameInv'
    BY <1>3 DEF ListenOn, NameInv, HasName, fileVars
  <2>4. PathInv'
    BY <1>3 DEF ListenOn, Answer, PathInv, fileVars
  <2>. QED
    BY <2>1, <2>2, <2>3, <2>4
<1>4. CASE CreateFails(p)
  BY <1>4, GoneKeeps DEF CreateFails, Refuse, Answer, PathInv
<1>. QED
  BY <1>1, <1>2, <1>3, <1>4

\* native_close and a crash: only the name's holder removes its files.
LEMMA CloseKeeps ==
  ASSUME NamedInv, NEW p \in Procs,
         \/ CloseSockets(p) \/ UnlinkPath(p) \/ UnlinkLock(p) \/ CloseLock(p)
         \/ Crash(p)
  PROVE  NamedInv'
<1>. USE DEF NamedInv, Typed, Go
<1>0. \A q \in Procs :
        HasName(p) /\ (HasName(q) \/ listening[q] = "refresh") => p = q
  BY NameIsOnes
<1>1. CASE CloseSockets(p)
  <2>1. Typed'
    BY <1>1 DEF CloseSockets, Places, CloseSteps
  <2>2. FlockInv'
    BY <1>1, FlockKept DEF CloseSockets, Locked, Places, CloseSteps
  <2>3. NameInv'
    BY <1>1 DEF CloseSockets, NameInv, HasName
  <2>4. PathInv'
    BY <1>0, <1>1 DEF CloseSockets, PathInv, HasName
  <2>. QED
    BY <2>1, <2>2, <2>3, <2>4
<1>2. CASE UnlinkPath(p)
  <2>1. Typed'
    BY <1>2 DEF UnlinkPath, Places, CloseSteps
  <2>2. FlockInv'
    BY <1>2, FlockKept DEF UnlinkPath, Locked, Places, CloseSteps
  <2>3. NameInv'
    BY <1>2 DEF UnlinkPath, NameInv, HasName
  <2>4. PathInv'
    BY <1>0, <1>2 DEF UnlinkPath, PathInv, HasName
  <2>. QED
    BY <2>1, <2>2, <2>3, <2>4
<1>3. CASE UnlinkLock(p)
  <2>1. Typed'
    BY <1>3 DEF UnlinkLock, UnlinkLockPath, Places, CloseSteps
  <2>2. FlockInv'
    BY <1>3, FlockKept DEF UnlinkLock, Locked, Places, CloseSteps
  <2>3. NameInv'
    BY <1>0, <1>3 DEF UnlinkLock, UnlinkLockPath, NameInv, HasName
  <2>4. PathInv'
    BY <1>3 DEF UnlinkLock, PathInv
  <2>. QED
    BY <2>1, <2>2, <2>3, <2>4
<1>4. CASE CloseLock(p)
  BY <1>4, GoneKeeps DEF CloseLock, PathInv, fileVars
<1>5. CASE Crash(p)
  BY <1>5, GoneKeeps DEF Crash, Answer, PathInv
<1>. QED
  BY <1>1, <1>2, <1>3, <1>4, <1>5

\* native_keepName renews the times of the lock file often enough for the
\* cleaner to leave it.
LEMMA TimesKeep ==
  ASSUME NamedInv, ~CleanerRaces,
         (\E p \in Procs : keepName(p)) \/ Hour \/ Clean
  PROVE  NamedInv'
<1>. USE DEF NamedInv, Typed
<1>1. ASSUME NEW p \in Procs, keepName(p) PROVE NamedInv'
  <2>1. age' = 0
    BY <1>1 DEF keepName, Touch, NameInv, HasName
  <2>2. Typed' /\ FlockInv' /\ PathInv'
    BY <1>1, <2>1 DEF keepName, FlockInv, PathInv, Opened, Locked
  <2>3. NameInv'
    BY <1>1, <2>1 DEF keepName, NameInv, HasName
  <2>. QED
    BY <2>2, <2>3
<1>2. CASE Hour
  <2>1. Typed' /\ FlockInv' /\ PathInv'
    BY <1>2, LocalNameAssumption DEF Hour, FlockInv, PathInv, Opened, Locked
  <2>2. ASSUME NEW p \in Procs, listening[p] = "up"
        PROVE  lockPath = lockFd[p] /\ age' <= 1 /\ due'[p]
    <3>1. lockPath = lockFd[p] /\ age = 0
      BY <1>2, <2>2 DEF Hour, NameInv, HasName
    <3>2. due'[p]
      BY <1>2, <2>2 DEF Hour
    <3>3. age' \in {0, 1}
      BY <1>2, <3>1 DEF Hour
    <3>. QED
      BY <3>1, <3>2, <3>3
  <2>3. /\ \A p \in Procs : listening[p] \in {"idle", "up"}
        /\ UNCHANGED <<lockPath, listening, lockFd>>
    BY <1>2 DEF Hour
  <2>4. NameInv'
    BY <2>2, <2>3 DEF NameInv, HasName
  <2>. QED
    BY <2>1, <2>4
<1>3. CASE Clean
  <2>1. \A p \in Procs : ~HasName(p) /\ listening[p] # "refresh"
    BY <1>3, LocalNameAssumption DEF Clean, NameInv
  <2>2. UNCHANGED <<socketPath, listening, lockFd, flocked, due, answer>>
    BY <1>3 DEF Clean, procVars
  <2>3. Typed' /\ FlockInv' /\ PathInv'
    BY <1>3, <2>2 DEF Clean, UnlinkLockPath, FlockInv, PathInv, Opened, Locked
  <2>4. NameInv'
    BY <2>1, <2>2 DEF NameInv, HasName
  <2>. QED
    BY <2>3, <2>4
<1>. QED
  BY <1>1, <1>2, <1>3

\* A step that changes no file and no listener keeps the invariant.
LEMMA ClientsKeep ==
  ASSUME NamedInv, UNCHANGED <<fileVars, procVars>>
  PROVE  NamedInv'
BY DEF NamedInv, Typed, FlockInv, NameInv, PathInv, Opened, Locked, HasName, fileVars,
       procVars

\* Every step of listeners, clients, the clock and the cleaner keeps the
\* invariant.
LEMMA NameStep == NamedInv /\ ~CleanerRaces /\ [LocalNameNext]_localNameVars => NamedInv'
<1>. SUFFICES ASSUME NamedInv, ~CleanerRaces, [LocalNameNext]_localNameVars
              PROVE  NamedInv'
  OBVIOUS
<1>1. ASSUME NEW p \in Procs, ProcStep(p) PROVE NamedInv'
  <2>1. CASE Accept(p) \/ Disconnect(p)
    BY <2>1, ClientsKeep DEF Accept, Disconnect
  <2>. QED
    BY <1>1, <2>1, OpenKeeps, LockKeeps, BindKeeps, CloseKeeps, TimesKeep DEF ProcStep
<1>2. ASSUME NEW c \in Clients, ClientStep(c) PROVE NamedInv'
  BY <1>2, ClientsKeep
  DEF ClientStep, Connect, ConnectReached, ConnectGivesUp, ConnectBreaks, ClientLeaves
<1>3. CASE UNCHANGED localNameVars
  BY <1>3, ClientsKeep DEF localNameVars
<1>. QED
  BY <1>1, <1>2, <1>3, TimesKeep DEF LocalNameNext

\* NameIsItsListeners: through closes, crashes at any step, lock files removed
\* under those that have them open and a cleaner of old files, a name has one
\* listener, its path leads to that listener's socket, and no stale socket
\* file makes a bind fail; provided that the cleaner does not come between the
\* lstat and the futimes of a lockName().
THEOREM NameStaysItsListeners ==
  ~CleanerRaces => (LocalNameSpec => []NameIsItsListeners)
<1>. SUFFICES ASSUME ~CleanerRaces PROVE LocalNameSpec => []NameIsItsListeners
  OBVIOUS
<1>1. NamedInv /\ [LocalNameNext]_localNameVars => NamedInv'
  BY NameStep
<1>2. NamedInv => NameIsItsListeners
  <2>. SUFFICES ASSUME NamedInv PROVE NameIsItsListeners
    OBVIOUS
  <2>1. OneListener
    BY NameIsOnes DEF OneListener
  <2>. QED
    BY <2>1 DEF NamedInv, PathInv, NameIsItsListeners, ListenerIsFound, StaleIsNoObstacle
<1>. QED
  BY <1>1, <1>2, NameInitially, PTL DEF LocalNameSpec
=============================================================================
