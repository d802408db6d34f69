-------------------------------- MODULE Child --------------------------------
(***************************************************************************)
(* A child process (sys/_internal/NativeSpawn.cpp), as NativeProcess runs  *)
(* one: started by fork and exec over a report pipe, or by CreateProcess;  *)
(* its two outputs read by a thread each, waited for and closed by the     *)
(* worker, written to and ended from the runtime's thread, and all the     *)
(* while another thread may be starting a child of its own (the sibling).  *)
(*                                                                         *)
(* ends[p] is who has pipe p's write end open: a read of p ends when       *)
(* nobody has.  Output itself is not counted: a read may return some as    *)
(* long as somebody could write it.                                        *)
(***************************************************************************)
EXTENDS Naturals

CONSTANT ChildSystems  \* those looked at, of "linux", "macos" and "windows"

ASSUME ChildAssumption == ChildSystems \subseteq {"linux", "macos", "windows"}

Outputs == {"out", "err"}
Pipes == Outputs \cup {"report"}

VARIABLES
  target,    \* the system the build is for
  start,     \* where crossbyte_spawn_start is
  kid,       \* the child: none, forked, running, zombie, gone (reaped)
  reported,  \* whether it has written a ChildFailure to the report pipe
  ends,      \* per pipe, who has its write end
  sibling,   \* another thread's child: none, forked, runs, gone
  leaks,     \* the ends the sibling keeps across its exec
  open,      \* ChildState.open
  waited,    \* ChildState.waited
  ours,      \* this process's ends still open: "out", "err" and "in"
  outReader, \* per output, its thread: none, look, read, done
  worker,    \* where __execute is
  writer,    \* the runtime's thread: idle, or with inWrite's descriptor read
  childRunning, \* __running
  told,      \* whether EXIT has been dispatched, and __process cleared
  astray     \* whether a signal went to a pid that was no longer the child's

nativeChild == <<open, waited, ours>>
threads == <<outReader, worker, writer, childRunning, told>>
childVars == <<target, start, kid, reported, ends, sibling, leaks, nativeChild, threads, astray>>

ChildInit ==
  /\ target \in ChildSystems
  /\ start = "pipes" /\ kid = "none" /\ reported = FALSE
  /\ ends = [p \in Pipes |-> {}]
  /\ sibling = "none" /\ leaks = {}
  /\ open = TRUE /\ waited = FALSE /\ ours = {}
  /\ outReader = [o \in Outputs |-> "none"]
  /\ worker = "none" /\ writer = "idle"
  /\ childRunning = TRUE /\ told = FALSE /\ astray = FALSE

Drops(who) == [p \in Pipes |-> ends[p] \ {who}]

-----------------------------------------------------------------------------

\* The ends a child's state will have.
AllOurs == Outputs \cup {"in"}

\* makePipe for each: close-on-exec at once on Linux, a call later on macOS.
\* Windows has no report pipe, and its ends are given by list, not inherited.
MakePipes ==
  /\ start = "pipes"
  /\ start' = CASE target = "linux" -> "fork" [] target = "macos" -> "cloexec"
                [] target = "windows" -> "create"
  /\ ends' = [p \in Pipes |-> IF p = "report" /\ target = "windows" THEN {} ELSE {"this"}]
  /\ ours' = AllOurs
  /\ UNCHANGED <<target, kid, reported, sibling, leaks, open, waited, threads, astray>>

SetCloseOnExec ==
  /\ start = "cloexec" /\ start' = "fork"
  /\ UNCHANGED <<target, kid, reported, ends, sibling, leaks, nativeChild, threads, astray>>

\* Everything a failed start has made is closed, and its error thrown.
Fails ==
  /\ start' = "failed" /\ childRunning' = FALSE
  /\ open' = FALSE /\ ours' = {} /\ ends' = Drops("this")

\* A pipe, the fork or CreateProcess could not be had.
StartFails ==
  /\ start \in {"pipes", "fork", "create"}
  /\ Fails
  /\ UNCHANGED <<target, kid, reported, sibling, leaks, waited, outReader, worker, writer,
                 told, astray>>

\* fork: the child has every end this process has.
Fork ==
  /\ start = "fork" /\ start' = "closeReport"
  /\ kid' = "forked"
  /\ ends' = [p \in Pipes |-> ends[p] \cup {"child"}]
  /\ UNCHANGED <<target, reported, sibling, leaks, nativeChild, threads, astray>>

\* The report's write end closed here, so that it closes as exec succeeds.
CloseReport ==
  /\ start = "closeReport" /\ start' = "report"
  /\ ends' = [ends EXCEPT !["report"] = @ \ {"this"}]
  /\ UNCHANGED <<target, kid, reported, sibling, leaks, nativeChild, threads, astray>>

\* The child: execve of a candidate takes the report's end away, ...
ChildExecs ==
  /\ kid = "forked" /\ kid' = "running"
  /\ ends' = [ends EXCEPT !["report"] = @ \ {"child"}]
  /\ UNCHANGED <<target, start, reported, sibling, leaks, nativeChild, threads, astray>>

\* ... or its directory or every candidate fails: the failure, and _exit.
ChildReports ==
  /\ kid = "forked" /\ kid' = "zombie" /\ reported' = TRUE
  /\ ends' = Drops("child")
  /\ UNCHANGED <<target, start, sibling, leaks, nativeChild, threads, astray>>

\* The child ends, by itself or killed; before its exec too.
ChildEnds ==
  /\ kid \in {"forked", "running"} /\ kid' = "zombie"
  /\ ends' = Drops("child")
  /\ UNCHANGED <<target, start, reported, sibling, leaks, nativeChild, threads, astray>>

\* It may close an output long before.
ChildCloses(o) ==
  /\ kid = "running" /\ "child" \in ends[o]
  /\ ends' = [ends EXCEPT ![o] = @ \ {"child"}]
  /\ UNCHANGED <<target, start, kid, reported, sibling, leaks, nativeChild, threads, astray>>

\* A child of its own has its outputs, and may outlive it.
ChildForks ==
  /\ kid = "running"
  /\ ends' = [p \in Pipes |->
       IF p \in Outputs /\ "child" \in ends[p] THEN ends[p] \cup {"grandchild"}
       ELSE ends[p]]
  /\ UNCHANGED <<target, start, kid, reported, sibling, leaks, nativeChild, threads, astray>>

GrandchildEnds ==
  /\ \E p \in Pipes : "grandchild" \in ends[p]
  /\ ends' = Drops("grandchild")
  /\ UNCHANGED <<target, start, kid, reported, sibling, leaks, nativeChild, threads, astray>>

-----------------------------------------------------------------------------
\* Another thread forks: that child has, until its exec, every end open here,
\* and those not yet close-on-exec after it too.
SiblingForks ==
  /\ target # "windows" /\ sibling = "none" /\ sibling' = "forked"
  /\ ends' = [p \in Pipes |->
       IF "this" \in ends[p] THEN ends[p] \cup {"sibling"} ELSE ends[p]]
  /\ leaks' = IF start = "cloexec" THEN Pipes ELSE {}
  /\ UNCHANGED <<target, start, kid, reported, nativeChild, threads, astray>>

SiblingExecs ==
  /\ sibling = "forked" /\ sibling' = "runs"
  /\ ends' = [p \in Pipes |-> IF p \in leaks THEN ends[p] ELSE ends[p] \ {"sibling"}]
  /\ UNCHANGED <<target, start, kid, reported, leaks, nativeChild, threads, astray>>

SiblingEnds ==
  /\ sibling = "runs" /\ sibling' = "gone"
  /\ ends' = Drops("sibling")
  /\ UNCHANGED <<target, start, kid, reported, leaks, nativeChild, threads, astray>>

-----------------------------------------------------------------------------
\* Variant of Started: the child's ends of its outputs stay open here.
StartedKeepingEnds ==
  /\ start' = "started" /\ worker' = "threads"
  /\ ends' = [ends EXCEPT !["report"] = @ \ {"this"}]

\* The child's ends closed here, and the handle on it made: NativeProcess
\* runs its worker.
Started == start' = "started" /\ worker' = "threads" /\ ends' = Drops("this")

\* The report reads its end: the child is another program now, or died.
ReadNothing ==
  /\ start = "report" /\ ~reported /\ ends["report"] = {}
  /\ Started
  /\ UNCHANGED <<target, kid, reported, sibling, leaks, nativeChild, outReader, writer,
                 childRunning, told, astray>>

\* Or the child's failure: the child is waited for.
ReadFailure ==
  /\ start = "report" /\ reported
  /\ kid' = "gone" /\ waited' = TRUE
  /\ Fails
  /\ UNCHANGED <<target, reported, sibling, leaks, outReader, worker, writer, told, astray>>

\* CreateProcess.
CreateProcess ==
  /\ start = "create"
  /\ kid' = "running"
  /\ start' = "started" /\ worker' = "threads"
  /\ ends' = [p \in Pipes |-> IF p = "report" THEN {} ELSE {"child"}]
  /\ UNCHANGED <<target, reported, sibling, leaks, nativeChild, outReader, writer, childRunning,
                 told, astray>>

-----------------------------------------------------------------------------
\* __execute: a thread for each output, ...
MakeReaders ==
  /\ worker = "threads" /\ worker' = "readers"
  /\ outReader' = [o \in Outputs |-> "look"]
  /\ UNCHANGED <<target, start, kid, reported, ends, sibling, leaks, nativeChild, writer,
                 childRunning, told, astray>>

\* ... or no second one to be had: the worker gives up.
ReaderNotMade ==
  /\ worker = "threads" /\ worker' = "gaveUp"
  /\ outReader' = [outReader EXCEPT !["out"] = "look"]
  /\ UNCHANGED <<target, start, kid, reported, ends, sibling, leaks, nativeChild, writer,
                 childRunning, told, astray>>

\* crossbyte_spawn_read: the descriptor looked at, ...
ReadLooks(o) ==
  /\ outReader[o] = "look"
  /\ outReader' = [outReader EXCEPT ![o] = IF o \in ours THEN "read" ELSE "done"]
  /\ UNCHANGED <<target, start, kid, reported, ends, sibling, leaks, nativeChild, worker,
                 writer, childRunning, told, astray>>

\* ... and read: some output, or its end once nobody can write more.
ReadReturns(o) ==
  /\ outReader[o] = "read"
  /\ \/ ends[o] # {} /\ outReader' = [outReader EXCEPT ![o] = "look"]
     \/ ends[o] = {} /\ outReader' = [outReader EXCEPT ![o] = "done"]
  /\ UNCHANGED <<target, start, kid, reported, ends, sibling, leaks, nativeChild, worker,
                 writer, childRunning, told, astray>>

\* Variant of ReadersDone: one output read to its end is enough.
ReadersDoneOne == \E o \in Outputs : outReader[o] = "done"

\* readerCompletion, popped twice.
ReadersDone == \A o \in Outputs : outReader[o] = "done"

\* crossbyte_spawn_wait: the pid, under the lock, ...
WaitBegins ==
  /\ worker = "readers" /\ ReadersDone
  /\ worker' = IF open THEN "waitpid" ELSE "gaveUp"
  /\ UNCHANGED <<target, start, kid, reported, ends, sibling, leaks, nativeChild, outReader,
                 writer, childRunning, told, astray>>

\* ... waitpid, outside it: once the child has ended, the pid is anyone's.
WaitReturns ==
  /\ worker = "waitpid" /\ kid \in {"zombie", "gone"}
  /\ worker' = "mark" /\ kid' = "gone"
  /\ UNCHANGED <<target, start, reported, ends, sibling, leaks, nativeChild, outReader, writer,
                 childRunning, told, astray>>

\* ... and under it again, waited for.
WaitMarks ==
  /\ worker = "mark" /\ worker' = "close" /\ waited' = TRUE
  /\ UNCHANGED <<target, start, kid, reported, ends, sibling, leaks, open, ours, outReader,
                 writer, childRunning, told, astray>>

\* closeAll: every end here, and the child reaped if it was not and can be.
CloseAll ==
  /\ open' = FALSE
  /\ ours' = IF open THEN {} ELSE ours
  /\ kid' = IF open /\ ~waited /\ kid = "zombie" /\ target # "windows" THEN "gone" ELSE kid

\* crossbyte_spawn_close, and the completion sent.
WorkerCloses ==
  /\ worker = "close" /\ worker' = "complete"
  /\ CloseAll
  /\ UNCHANGED <<target, start, reported, ends, sibling, leaks, waited, outReader, writer,
                 childRunning, told, astray>>

\* The worker's last assignment, before EXIT is dispatched or after.
WorkerEnds ==
  /\ worker \in {"complete", "gaveUp"} /\ childRunning /\ childRunning' = FALSE
  /\ UNCHANGED <<target, start, kid, reported, ends, sibling, leaks, nativeChild, outReader,
                 worker, writer, told, astray>>

\* The runtime dispatches EXIT, for a completion or an error.
DispatchExit ==
  /\ worker \in {"complete", "gaveUp"} /\ ~told /\ writer = "idle"
  /\ told' = TRUE /\ childRunning' = FALSE
  /\ UNCHANGED <<target, start, kid, reported, ends, sibling, leaks, nativeChild, outReader,
                 worker, writer, astray>>

\* Nobody has the handle any longer: its finalizer closes what was not.
Finalize ==
  /\ told /\ writer = "idle" /\ \A o \in Outputs : outReader[o] \in {"none", "done"}
  /\ open
  /\ CloseAll
  /\ UNCHANGED <<target, start, reported, ends, sibling, leaks, waited, threads, astray>>

-----------------------------------------------------------------------------
\* exit(), and under the lock crossbyte_spawn_kill: the child may end of it.
Exit ==
  /\ start = "started" /\ childRunning /\ ~told /\ writer = "idle"
  /\ childRunning' = FALSE
  /\ \/ /\ open /\ ~waited /\ kid = "running"
        /\ kid' = "zombie" /\ ends' = Drops("child") /\ UNCHANGED astray
     \/ /\ astray' = (astray \/ (target # "windows" /\ open /\ ~waited /\ kid = "gone"))
        /\ UNCHANGED <<kid, ends>>
  /\ UNCHANGED <<target, start, reported, sibling, leaks, nativeChild, outReader, worker,
                 writer, told>>

\* crossbyte_spawn_write: inWrite looked at, then written to.
WriteLooks ==
  /\ start = "started" /\ ~told /\ writer = "idle" /\ "in" \in ours
  /\ writer' = "write"
  /\ UNCHANGED <<target, start, kid, reported, ends, sibling, leaks, nativeChild, outReader,
                 worker, childRunning, told, astray>>

WriteReturns ==
  /\ writer = "write" /\ writer' = "idle"
  /\ UNCHANGED <<target, start, kid, reported, ends, sibling, leaks, nativeChild, outReader,
                 worker, childRunning, told, astray>>

\* crossbyte_spawn_close_input.
CloseInput ==
  /\ start = "started" /\ ~told /\ writer = "idle" /\ "in" \in ours
  /\ ours' = ours \ {"in"}
  /\ UNCHANGED <<target, start, kid, reported, ends, sibling, leaks, open, waited, threads,
                 astray>>

-----------------------------------------------------------------------------
StartStep ==
  \/ MakePipes \/ SetCloseOnExec \/ Fork \/ CloseReport \/ ReadNothing
  \/ ReadFailure \/ CreateProcess
ChildStep == ChildExecs \/ ChildReports
WorkerStep ==
  \/ MakeReaders \/ WaitBegins \/ WaitReturns \/ WaitMarks \/ WorkerCloses \/ WorkerEnds
OutputReaderStep(o) == ReadLooks(o) \/ ReadReturns(o)

ChildNext ==
  \/ StartStep \/ StartFails \/ ChildStep \/ ChildEnds \/ ChildForks
  \/ GrandchildEnds \/ SiblingForks \/ SiblingExecs \/ SiblingEnds
  \/ WorkerStep \/ DispatchExit \/ ReaderNotMade \/ (\E o \in Outputs : OutputReaderStep(o) \/ ChildCloses(o))
  \/ Finalize \/ Exit \/ WriteLooks \/ WriteReturns \/ CloseInput

ChildSpec == ChildInit /\ [][ChildNext]_childVars

-----------------------------------------------------------------------------
ChildTypeOK ==
  /\ target \in ChildSystems
  /\ kid \in {"none", "forked", "running", "zombie", "gone"}
  /\ ends \in [Pipes -> SUBSET {"this", "child", "grandchild", "sibling"}]
  /\ sibling \in {"none", "forked", "runs", "gone"} /\ leaks \subseteq Pipes
  /\ ours \subseteq Outputs \cup {"in"}
  /\ outReader \in [Outputs -> {"none", "look", "read", "done"}]
  /\ {reported, open, waited, childRunning, told, astray} \subseteq BOOLEAN

\* A start that fails leaves nothing: no end open here, and no child, not even
\* one that has ended and waits to be waited for.
FailedLeavesNothing ==
  start = "failed" =>
    ours = {} /\ kid \in {"none", "gone"} /\ \A p \in Pipes : "this" \notin ends[p]

\* No output is closed under a read of it: "closing under the in-flight reads
\* would be a use-after-close race" (NativeProcess.exit).
ReadsOwnPipe == \A o \in Outputs : outReader[o] = "read" => o \in ours

\* A child whose end was told as such has been waited for, and left no zombie.
NoZombie == told /\ worker = "complete" => kid = "gone"

\* A start is answered, whatever the child does, unless a child of another
\* thread's holds the report pipe for good, which macOS alone allows.
StartAnswered ==
  start = "report" ~> \/ start # "report"
                      \/ target = "macos" /\ "report" \in leaks

\* Once the child has ended and nobody else has its outputs, EXIT comes.
EndIsTold ==
  (start = "started" /\ kid \in {"zombie", "gone"}
     /\ \A o \in Outputs : ends[o] \subseteq {"this"}) ~> told

\* exit() "ends the child, and only the child" (NativeProcess.hx): no signal
\* goes to a pid that is no longer the child's.
KillsOnlyTheChild == ~astray

\* What a start and the worker take they give back, once and not too soon:
\* the pipes' ends, the child and its exit status.
CleansUp == FailedLeavesNothing /\ ReadsOwnPipe /\ NoZombie

\* A caller is told how its start went, and then of the child's end.
StartAndEndAreTold == StartAnswered /\ EndIsTold
=============================================================================
