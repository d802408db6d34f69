----------------------------- MODULE LocalName -----------------------------
(***************************************************************************)
(* One local connection's name on Linux and macOS                          *)
(* (ipc/_internal/NativeLocalConnection.cpp): the lock file that holds it, *)
(* the socket file clients find, processes that listen on it, close it or  *)
(* crash at any step, clients that connect, and the cleaner of old files   *)
(* that runs in /tmp.  Each step is one system call on the shared files.   *)
(*                                                                         *)
(* A file is an inode: while a descriptor is open on it, or a path leads   *)
(* to it, it is not reused.  The socket file is named by the process whose *)
(* socket was bound to it, and is "stale" once that socket is closed; what *)
(* is there and is no socket of the user's is "other".                     *)
(***************************************************************************)
EXTENDS Naturals, Sequences, Functions

CONSTANTS
  Procs,        \* processes that may listen on the name
  Clients,      \* callers of connect, one connection each
  Forever,      \* the clients that connect with no deadline
  Files,        \* inodes the lock file can have: one for each open and one more
  Attempts,     \* bound: lockName's attempts, 8 in the code
  Backlog,      \* bound: PIPE_LISTEN_BACKLOG
  CleanAge,     \* hours after which a file nobody touched is removed
  CleanerRaces, \* whether the cleaner may come between lstat and futimes
  None

ASSUME LocalNameAssumption ==
  /\ Forever \subseteq Clients
  /\ Attempts \in Nat \ {0} /\ Backlog \in Nat \ {0}
  /\ CleanAge \in Nat \ {0, 1}
  /\ CleanerRaces \in BOOLEAN
  /\ None \notin Procs \cup Clients \cup Files
  /\ {"nothing", "stale", "other"} \cap Procs = {}
  /\ \A fd \in [Procs -> Files \cup {None}] : \E f \in Files : \A p \in Procs : fd[p] # f

VARIABLES
  directory,    \* what is at /tmp/crossbyte-<uid>
  lockPath,     \* the inode the lock path leads to, or None
  socketPath,   \* the process whose socket the path leads to
  age,          \* hours since the times of the file there were brought up to date
  listening,    \* where each process is in listening on the name
  lockFd,       \* the inode each process has open
  flocked,      \* whether it holds the lock on it
  attempt,      \* lockName's attempts so far
  due,          \* whether an hour passed since native_keepName's last
  answer,       \* what each process's last listen() came to
  backlog,      \* the clients the kernel queued for each listener
  clientFd,     \* the client each listener took, or None
  connecting    \* how far each client is

fileVars == <<directory, lockPath, socketPath, age>>
procVars == <<listening, lockFd, flocked, attempt, due, answer>>
clientVars == <<backlog, clientFd, connecting>>
localNameVars == <<fileVars, procVars, clientVars>>

CreateSteps == {"open", "flock", "check", "refresh", "unlink", "bind", "listen"}
CloseSteps == {"unlinkPath", "unlinkLock", "closeLock"}

LocalNameInit ==
  /\ directory \in {"none", "own", "foreign"}
  /\ lockPath = None
  /\ socketPath \in IF directory = "own" THEN {"nothing", "other"} ELSE {"nothing"}
  /\ age = 0
  /\ listening = [p \in Procs |-> "idle"]
  /\ lockFd = [p \in Procs |-> None]
  /\ flocked = [p \in Procs |-> FALSE]
  /\ attempt = [p \in Procs |-> 0]
  /\ due = [p \in Procs |-> FALSE]
  /\ answer = [p \in Procs |-> "none"]
  /\ backlog = [p \in Procs |-> <<>>]
  /\ clientFd = [p \in Procs |-> None]
  /\ connecting = [c \in Clients |-> "out"]

-----------------------------------------------------------------------------
Go(p, from, to) ==
  listening[p] = from /\ listening' = [listening EXCEPT ![p] = to]

\* close(fd) on the lock file: the lock goes with the descriptor.
CloseLockFd(p) ==
  /\ lockFd' = [lockFd EXCEPT ![p] = None]
  /\ flocked' = [flocked EXCEPT ![p] = FALSE]

Answer(p, what) == answer' = [answer EXCEPT ![p] = what]

\* A listen() that comes to nothing: its descriptors closed, why said.
Refuse(p, from, why) ==
  /\ Go(p, from, "idle")
  /\ CloseLockFd(p)
  /\ Answer(p, why)

\* checkUserDirectory: what is there must be the user's own, and is made
\* where nothing is and the caller asks.
checkUserDirectory(make) ==
  /\ directory # "foreign"
  /\ directory' = IF make THEN "own" ELSE directory

\* native_createInboundPipe, up to lockName.
Listen(p) ==
  /\ checkUserDirectory(TRUE)
  /\ Go(p, "idle", "open")
  /\ attempt' = [attempt EXCEPT ![p] = 0]
  /\ Answer(p, "none")
  /\ UNCHANGED <<lockPath, socketPath, age, lockFd, flocked, due, clientVars>>

\* An inode nobody has open.
NewFile == CHOOSE f \in Files : \A p \in Procs : lockFd[p] # f

\* futimes on the lock file p has open, which may be at the path no more.
Touch(p) == age' = IF lockPath = lockFd[p] THEN 0 ELSE age

\* open(O_CREAT): the file at the path, or a new one put there.
LockOpen(p) ==
  /\ Go(p, "open", "flock")
  /\ lockPath' = IF lockPath # None THEN lockPath ELSE NewFile
  /\ lockFd' = [lockFd EXCEPT ![p] = lockPath']
  /\ age' = IF lockPath # None THEN age ELSE 0
  /\ UNCHANGED <<directory, socketPath, flocked, attempt, due, answer,
                 clientVars>>

\* flock(LOCK_EX | LOCK_NB): refused while another has it.
LockTake(p) ==
  /\ IF \E q \in Procs \ {p} : flocked[q] /\ lockFd[q] = lockFd[p]
     THEN Refuse(p, "flock", "held")
     ELSE /\ Go(p, "flock", "check")
          /\ flocked' = [flocked EXCEPT ![p] = TRUE]
          /\ UNCHANGED <<lockFd, answer>>
  /\ UNCHANGED <<fileVars, attempt, due, clientVars>>

\* Variant of LockCheck: the lock is taken for the name's without looking.
LockUnchecked(p) ==
  /\ Go(p, "check", "refresh")
  /\ UNCHANGED <<fileVars, lockFd, flocked, attempt, due, answer, clientVars>>

\* lstat: the file locked must be the one at the path now; one that was
\* removed meanwhile is closed and the next attempt opens another.
LockCheck(p) ==
  /\ IF lockPath = lockFd[p]
     THEN /\ Go(p, "check", "refresh")
          /\ UNCHANGED <<lockFd, flocked, attempt, answer>>
     ELSE IF attempt[p] + 1 < Attempts
     THEN /\ Go(p, "check", "open")
          /\ CloseLockFd(p)
          /\ attempt' = [attempt EXCEPT ![p] = @ + 1]
          /\ UNCHANGED answer
     ELSE Refuse(p, "check", "gaveUp") /\ UNCHANGED attempt
  /\ UNCHANGED <<fileVars, due, clientVars>>

\* futimes as the lock is taken: lockName has it.
LockRefresh(p) ==
  /\ Go(p, "refresh", "unlink")
  /\ Touch(p)
  /\ UNCHANGED <<directory, lockPath, socketPath, lockFd, flocked, attempt,
                 due, answer, clientVars>>

\* unlink: what is at the path, left by an earlier listener or not, is removed.
UnlinkStale(p) ==
  /\ Go(p, "unlink", "bind")
  /\ socketPath' = "nothing"
  /\ UNCHANGED <<directory, lockPath, age, lockFd, flocked, attempt, due,
                 answer, clientVars>>

\* bind: refused where something is at the path.
BindSocket(p) ==
  /\ IF socketPath = "nothing"
     THEN /\ Go(p, "bind", "listen")
          /\ socketPath' = p
          /\ UNCHANGED <<lockFd, flocked, answer>>
     ELSE Refuse(p, "bind", "inUse") /\ UNCHANGED socketPath
  /\ UNCHANGED <<directory, lockPath, age, attempt, due, clientVars>>

\* listen: the handle is the caller's, its times fresh.
ListenOn(p) ==
  /\ Go(p, "listen", "up")
  /\ due' = [due EXCEPT ![p] = FALSE]
  /\ Answer(p, "up")
  /\ UNCHANGED <<fileVars, lockFd, flocked, attempt, clientVars>>

\* A socket of p's closed: its file is left with nothing behind it.
StaleAfter(p) == IF socketPath = p THEN "stale" ELSE socketPath

\* open, socket, bind or listen fails for a reason of the system's: what was
\* opened is closed and listen() fails.
CreateFails(p) ==
  /\ \E s \in {"open", "unlink", "bind", "listen"} : Refuse(p, s, "failed")
  /\ socketPath' = StaleAfter(p)
  /\ UNCHANGED <<directory, lockPath, age, attempt, due, clientVars>>

-----------------------------------------------------------------------------
\* Every connection of p's, taken or queued, is gone for its client.
LoseClients(p) ==
  /\ backlog' = [backlog EXCEPT ![p] = <<>>]
  /\ clientFd' = [clientFd EXCEPT ![p] = None]
  /\ connecting' = [c \in Clients |->
       IF \/ c = clientFd[p] /\ connecting[c] = "taken"
          \/ c \in Range(backlog[p]) /\ connecting[c] = "queued"
       THEN "lost" ELSE connecting[c]]

\* unlink on the lock path.
UnlinkLockPath == lockPath' = None /\ age' = 0

\* native_close: the client's socket and the listener's closed, ...
CloseSockets(p) ==
  /\ Go(p, "up", "unlinkPath")
  /\ LoseClients(p)
  /\ socketPath' = StaleAfter(p)
  /\ UNCHANGED <<directory, lockPath, age, lockFd, flocked, attempt, due,
                 answer>>

\* ... its socket's path removed, ...
UnlinkPath(p) ==
  /\ Go(p, "unlinkPath", "unlinkLock")
  /\ socketPath' = "nothing"
  /\ UNCHANGED <<directory, lockPath, age, lockFd, flocked, attempt, due,
                 answer, clientVars>>

\* ... the lock file removed while it is still held, ...
UnlinkLock(p) ==
  /\ Go(p, "unlinkLock", "closeLock")
  /\ UnlinkLockPath
  /\ UNCHANGED <<directory, socketPath, lockFd, flocked, attempt, due,
                 answer, clientVars>>

\* ... and the lock let go.
CloseLock(p) ==
  /\ Go(p, "closeLock", "idle")
  /\ CloseLockFd(p)
  /\ UNCHANGED <<fileVars, attempt, due, answer, clientVars>>

\* The process ends at any step: the system closes what it had open, and
\* leaves its files.
Crash(p) ==
  /\ listening[p] # "idle"
  /\ listening' = [listening EXCEPT ![p] = "idle"]
  /\ CloseLockFd(p)
  /\ Answer(p, "none")
  /\ LoseClients(p)
  /\ socketPath' = StaleAfter(p)
  /\ due' = [due EXCEPT ![p] = FALSE]
  /\ UNCHANGED <<directory, lockPath, age, attempt>>

-----------------------------------------------------------------------------
\* native_accept, which the reader calls while it has no client.
Accept(p) ==
  /\ listening[p] = "up" /\ clientFd[p] = None /\ backlog[p] # <<>>
  /\ LET c == Head(backlog[p]) IN
       /\ clientFd' = [clientFd EXCEPT ![p] = c]
       /\ connecting' = [connecting EXCEPT ![c] =
            IF @ = "queued" THEN "taken" ELSE @]
  /\ backlog' = [backlog EXCEPT ![p] = Tail(@)]
  /\ UNCHANGED <<fileVars, procVars>>

\* native_disconnect: the client let go, the name kept.
Disconnect(p) ==
  /\ listening[p] = "up" /\ clientFd[p] # None
  /\ clientFd' = [clientFd EXCEPT ![p] = None]
  /\ connecting' = [connecting EXCEPT ![clientFd[p]] =
       IF @ = "taken" THEN "lost" ELSE @]
  /\ UNCHANGED <<fileVars, procVars, backlog>>

\* native_keepName, once an hour.
keepName(p) ==
  /\ listening[p] = "up" /\ due[p]
  /\ Touch(p)
  /\ due' = [due EXCEPT ![p] = FALSE]
  /\ UNCHANGED <<directory, lockPath, socketPath, listening, lockFd, flocked,
                 attempt, answer, clientVars>>

\* An hour passes.  A listen() or a close takes less, and a reader's passes
\* come more often: nobody is inside either, and no refresh is due.
Hour ==
  /\ \A p \in Procs : listening[p] = "idle" \/ (listening[p] = "up" /\ ~due[p])
  /\ age' = IF lockPath # None /\ age < CleanAge THEN age + 1 ELSE age
  /\ due' = [p \in Procs |-> listening[p] = "up"]
  /\ UNCHANGED <<directory, lockPath, socketPath, listening, lockFd, flocked,
                 attempt, answer, clientVars>>

\* The cleaner of /tmp removes a lock file nobody touched for long enough.
Clean ==
  /\ lockPath # None
  /\ age >= CleanAge
  /\ CleanerRaces \/ \A p \in Procs : listening[p] # "refresh"
  /\ UnlinkLockPath
  /\ UNCHANGED <<directory, socketPath, procVars, clientVars>>

-----------------------------------------------------------------------------
\* native_connectWithTimeout begins.
Connect(c) ==
  /\ connecting[c] = "out"
  /\ connecting' = [connecting EXCEPT ![c] = "trying"]
  /\ UNCHANGED <<fileVars, procVars, backlog, clientFd>>

\* A listener is behind the socket file and has room for another.
Takes(p) ==
  /\ directory = "own" /\ socketPath = p
  /\ listening[p] = "up" /\ Len(backlog[p]) < Backlog

\* One try finds a listener with room.
ConnectReached(c) ==
  /\ connecting[c] = "trying"
  /\ \E p \in Procs :
       /\ Takes(p)
       /\ backlog' = [backlog EXCEPT ![p] = Append(@, c)]
  /\ connecting' = [connecting EXCEPT ![c] = "queued"]
  /\ UNCHANGED <<fileVars, procVars, clientFd>>

\* checkUserDirectory and checkSocketPath find what is not the user's own.
NotOwned == directory = "foreign" \/ socketPath = "other"


\* Nothing there, nobody listening, or a full backlog (ENOENT, ECONNREFUSED,
\* EAGAIN), with no time for another try; or a directory or a path that is not
\* the user's own, which ends it at once.  With time left the state is as it
\* was.
ConnectGivesUp(c) ==
  /\ connecting[c] = "trying"
  /\ NotOwned \/ (c \notin Forever /\ \A p \in Procs : ~Takes(p))
  /\ connecting' = [connecting EXCEPT ![c] = "failed"]
  /\ UNCHANGED <<fileVars, procVars, backlog, clientFd>>

\* lstat or socket fails, or connect does with any other error: a fault of the
\* system's ends a try at once, whatever time is left.
ConnectBreaks(c) ==
  /\ connecting[c] = "trying"
  /\ connecting' = [connecting EXCEPT ![c] = "broken"]
  /\ UNCHANGED <<fileVars, procVars, backlog, clientFd>>

\* A connected client closes its end; its listener finds out later.
ClientLeaves(c) ==
  /\ connecting[c] \in {"queued", "taken"}
  /\ connecting' = [connecting EXCEPT ![c] = "left"]
  /\ UNCHANGED <<fileVars, procVars, backlog, clientFd>>

-----------------------------------------------------------------------------
ProcStep(p) ==
  \/ Listen(p) \/ LockOpen(p) \/ LockTake(p) \/ LockCheck(p) \/ LockRefresh(p)
  \/ UnlinkStale(p) \/ BindSocket(p) \/ ListenOn(p) \/ CreateFails(p)
  \/ CloseSockets(p) \/ UnlinkPath(p) \/ UnlinkLock(p) \/ CloseLock(p)
  \/ Crash(p) \/ Accept(p) \/ Disconnect(p) \/ keepName(p)

ClientStep(c) ==
  Connect(c) \/ ConnectReached(c) \/ ConnectGivesUp(c) \/ ConnectBreaks(c) \/ ClientLeaves(c)

LocalNameNext ==
  \/ \E p \in Procs : ProcStep(p)
  \/ \E c \in Clients : ClientStep(c)
  \/ Hour \/ Clean

LocalNameSpec == LocalNameInit /\ [][LocalNameNext]_localNameVars

-----------------------------------------------------------------------------
LocalNameTypeOK ==
  /\ directory \in {"none", "own", "foreign"}
  /\ lockPath \in Files \cup {None}
  /\ socketPath \in Procs \cup {"nothing", "stale", "other"}
  /\ age \in 0..CleanAge
  /\ listening \in [Procs -> {"idle", "up"} \cup CreateSteps \cup CloseSteps]
  /\ lockFd \in [Procs -> Files \cup {None}]
  /\ flocked \in [Procs -> BOOLEAN]
  /\ attempt \in [Procs -> 0..Attempts - 1]
  /\ due \in [Procs -> BOOLEAN]
  /\ answer \in [Procs -> {"none", "up", "held", "gaveUp", "inUse", "failed"}]
  /\ backlog \in [Procs -> Seq(Clients)]
  /\ clientFd \in [Procs -> Clients \cup {None}]
  /\ connecting \in [Clients -> {"out", "trying", "queued", "taken", "left",
                                 "lost", "failed", "broken"}]

\* The steps between having the name (lockName returned) and removing the
\* socket's path: what p does to that path it does as the name's holder.
HasName(p) ==
  listening[p] \in {"unlink", "bind", "listen", "up", "unlinkPath", "unlinkLock"}

\* Two processes never have the name at once, through closes, crashes, lock
\* files removed between open and flock, and the cleaner: "a live listener's
\* name is refused" (native_createInboundPipe, lockName).
OneListener == \A p, q \in Procs : HasName(p) /\ HasName(q) => p = q

\* The path of a name listened on leads to its listener's own socket: nobody
\* closing, starting or failing beside it removes or replaces it.
ListenerIsFound == \A p \in Procs : listening[p] = "up" => socketPath = p

\* A listen() is told that the name is held only while another process is
\* inside listen(), listens, or has not finished its close: a descriptor left
\* open by a failed listen() or a crash holds no name.
HeldByALiveOne ==
  [][\A p \in Procs : answer[p] # "held" /\ answer'[p] = "held" =>
       \E q \in Procs \ {p} : listening[q] # "idle"]_localNameVars

\* A stale socket file never makes bind fail: with the lock held, what was
\* unlinked stays so until bind (native_createInboundPipe).
StaleIsNoObstacle == \A p \in Procs : answer[p] # "inUse"

\* A connect with no deadline gives up.
ForeverGivesUp ==
  \E c \in Forever : connecting[c] # "failed" /\ connecting'[c] = "failed"

\* Unless the system fails it, such a connect reaches a listener that stays: past
\* stale files, a socket not listening yet and a full backlog
\* (native_connectWithTimeout, anotherTry).
ForeverConnects ==
  \A c \in Forever :
    <>[](\E p \in Procs : listening[p] = "up") => ~<>[](connecting[c] = "trying")

\* A name is one live listener's and leads to it, stale files or not.
NameIsItsListeners == OneListener /\ ListenerIsFound /\ StaleIsNoObstacle

=============================================================================
