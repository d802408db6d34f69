------------------------------ MODULE Runtime ------------------------------
(***************************************************************************)
(* One runtime of core/CrossByte.hx and the threads that use it: the post  *)
(* queue, the loop that runs what is posted, the two ways the loop is      *)
(* woken from a wait (the lock of __sleepUntilWoken and the WakeSocket in  *)
(* the poll set), exit() from any thread, and __finalizeExit.              *)
(*                                                                         *)
(* A critical section under __postLock is one step.  Between two of them   *)
(* the other threads may do anything.  __hasPosted is also read without    *)
(* the lock: such a read answers with the current value or with the one    *)
(* the loop's thread saw when it last took the lock or was in the kernel   *)
(* (`seen').                                                               *)
(*                                                                         *)
(* Application code (timer callbacks, listeners, socket handlers, posted   *)
(* callbacks) appears as the calls of post() and exit() it may make while  *)
(* the loop runs it; what it throws is contained, and changes nothing.     *)
(***************************************************************************)
EXTENDS Naturals, Sequences

CONSTANTS
  Threads,     \* the threads other than the loop's own
  Loop,        \* the runtime's own thread
  LoopTypes,   \* which of MainLoopType's DEFAULT and POLL there are
  MaxPosts,    \* bound: callbacks taken in a behaviour
  SocketBuffer,\* bound: bytes the wake socket holds before a write cannot go
  DrainSize    \* bytes one read of the wake socket takes

ASSUME RuntimeAssumption ==
  /\ Loop \notin Threads
  /\ LoopTypes \subseteq {"DEFAULT", "POLL"}
  /\ MaxPosts \in Nat
  /\ SocketBuffer \in Nat \ {0}
  /\ DrainSize \in Nat \ {0}

VARIABLES
  loopType,    \* the loop the runtime was made with
  running,     \* __isRunning
  posted,      \* __posted
  hasPosted,   \* __hasPosted
  postClosed,  \* __postClosed
  sleeping,    \* __sleeping
  credits,     \* releases of __wakeLock not yet waited for
  wakeSocket,  \* __wakeSocket: "none" or "open"
  bytes,       \* bytes written to it and unread
  seen,        \* __hasPosted as the loop's thread last saw it for certain
  pc,          \* where the loop's thread is
  ret,         \* where it goes on once the batch has run
  batch,       \* what __runPosted took and has not run yet
  call,        \* per thread, what is left of the post() or exit() it is in
  accepted,    \* history: every callback post() took, in order
  ran          \* history: every callback run, in order

queueVars == <<posted, hasPosted, postClosed, accepted>>
wakeVars  == <<sleeping, credits, wakeSocket, bytes>>
loopVars  == <<seen, pc, ret, batch, ran>>
runVars   == <<loopType, running>>
vars == <<runVars, queueVars, wakeVars, loopVars, call>>

Agents == Threads \cup {Loop}

\* Where the loop's thread is inside application code.
HandlerPoints == {"init", "timers", "work", "sockets", "polled", "callback",
                  "exitEvent", "release"}

ReturnPoints == {"work", "sockets", "pollAgain", "wait", "exitEvent", "release"}

LoopPoints == HandlerPoints \cup ReturnPoints \cup
  {"start", "loop", "tick", "poll", "polling", "sleep", "waiting", "woke", "batch",
   "fin", "drain", "done"}

Init ==
  /\ loopType \in LoopTypes
  /\ running = TRUE
  /\ posted = <<>>
  /\ hasPosted = FALSE
  /\ postClosed = FALSE
  /\ sleeping = FALSE
  /\ credits = 0
  /\ wakeSocket = "none"
  /\ bytes = 0
  /\ seen = FALSE
  /\ pc = "start"
  /\ ret = "work"
  /\ batch = <<>>
  /\ call = [a \in Agents |-> "idle"]
  /\ accepted = <<>>
  /\ ran = <<>>

-----------------------------------------------------------------------------
(* post() and exit(), by any thread; the loop's own only from a handler.   *)

MayCall(a) ==
  /\ call[a] = "idle"
  /\ a = Loop => pc \in HandlerPoints

\* Ends the wait the loop is in on __wakeLock.
ReleaseWakeLock ==
  /\ sleeping' = FALSE
  /\ credits' = credits + 1

ReleaseIfAsleep ==
  IF sleeping THEN ReleaseWakeLock ELSE UNCHANGED <<sleeping, credits>>

\* What is left of a post() after its section under the lock.
AfterPost == IF hasPosted THEN "idle" ELSE "poke"

\* The section of post() under __postLock.  Only the post that finds the
\* queue empty wakes the loop: by the lock if it is asleep on it, here, and
\* by the wake socket, afterwards (Poke).
Post(a) ==
  /\ MayCall(a)
  /\ ~postClosed
  /\ Len(accepted) < MaxPosts
  /\ accepted' = Append(accepted, Len(accepted) + 1)
  /\ posted' = Append(posted, Len(accepted) + 1)
  /\ hasPosted' = TRUE
  /\ IF hasPosted THEN UNCHANGED <<sleeping, credits>> ELSE ReleaseIfAsleep
  /\ call' = [call EXCEPT ![a] = AfterPost]
  /\ UNCHANGED <<runVars, postClosed, wakeSocket, bytes, loopVars>>

\* post() on a runtime that has closed its queue: false, nothing taken.
PostRefused(a) ==
  /\ MayCall(a)
  /\ postClosed
  /\ UNCHANGED vars

\* WakeSocket.wake(): a byte, unless the pair is closed or holds all it can.
BytesAfterWake ==
  IF wakeSocket = "open" /\ bytes < SocketBuffer THEN bytes + 1 ELSE bytes

Poke(a) ==
  /\ call[a] = "poke"
  /\ call' = [call EXCEPT ![a] = "idle"]
  /\ bytes' = BytesAfterWake
  /\ UNCHANGED <<runVars, queueVars, sleeping, credits, wakeSocket, loopVars>>

\* Variant of Exit: the loop is left to find the flag.
ExitQuietly(a) ==
  /\ MayCall(a)
  /\ running' = FALSE
  /\ UNCHANGED <<loopType, queueVars, wakeVars, loopVars, call>>

\* exit(): the stop flag first, with no lock; then __wake().
Exit(a) ==
  /\ MayCall(a)
  /\ running' = FALSE
  /\ call' = [call EXCEPT ![a] = "wake"]
  /\ UNCHANGED <<loopType, queueVars, wakeVars, loopVars>>

\* The section of __wake() under __postLock.
Wake(a) ==
  /\ call[a] = "wake"
  /\ call' = [call EXCEPT ![a] = "poke"]
  /\ ReleaseIfAsleep
  /\ UNCHANGED <<runVars, queueVars, wakeSocket, bytes, loopVars>>

-----------------------------------------------------------------------------
(* The loop's thread.                                                      *)

\* The loop goes from p to q, between calls of its handlers.
At(p) == pc = p /\ call[Loop] = "idle"

GoTo(p, q) == At(p) /\ pc' = q

\* What an unlocked read of __hasPosted may answer.
ReadHasPosted == {hasPosted, seen}

\* __runPosted's section under the lock; the loop goes on at r after it.
TakeBatch(r) ==
  /\ batch' = posted
  /\ posted' = <<>>
  /\ hasPosted' = FALSE
  /\ seen' = FALSE
  /\ pc' = "batch"
  /\ ret' = r

\* Moves of the loop that change nothing but where it is.
Step(p, q) ==
  /\ GoTo(p, q)
  /\ UNCHANGED <<runVars, queueVars, wakeVars, seen, ret, batch, ran, call>>

\* if (__hasPosted) __runPosted(), at p, then on to r: the read answers true,
RunPosted(p, r) ==
  /\ At(p)
  /\ TRUE \in ReadHasPosted
  /\ TakeBatch(r)
  /\ UNCHANGED <<runVars, postClosed, accepted, wakeVars, ran, call>>

\* or it answers false.
SkipPosted(p, r) ==
  /\ FALSE \in ReadHasPosted
  /\ Step(p, r)

RunPostedIfAny(p, r) == RunPosted(p, r) \/ SkipPosted(p, r)

\* Variant of RunCallback: the batch run from its end.
RunNewest ==
  /\ At("batch")
  /\ batch # <<>>
  /\ ran' = Append(ran, batch[Len(batch)])
  /\ batch' = SubSeq(batch, 1, Len(batch) - 1)
  /\ pc' = "callback"
  /\ UNCHANGED <<runVars, queueVars, wakeVars, seen, ret, call>>

RunCallback ==
  /\ At("batch")
  /\ batch # <<>>
  /\ ran' = Append(ran, Head(batch))
  /\ batch' = Tail(batch)
  /\ pc' = "callback"
  /\ UNCHANGED <<runVars, queueVars, wakeVars, seen, ret, call>>

CallbackDone == Step("callback", "batch")
BatchDone == batch = <<>> /\ Step("batch", ret)

\* __runEventLoop up to INIT: a POLL loop puts its wake socket in the set, if
\* WakeSocket.create() can open a loopback pair.
ArmWakeSocket ==
  /\ GoTo("start", "init")
  /\ wakeSocket' \in IF loopType = "POLL" THEN {"none", "open"} ELSE {"none"}
  /\ seen' = hasPosted
  /\ UNCHANGED <<runVars, queueVars, sleeping, credits, bytes, ret, batch,
                 ran, call>>

InitDispatched == Step("init", "loop")

LoopTop == Step("loop", IF running THEN "timers" ELSE "fin")

AdvanceTimers == Step("timers", "tick")

DispatchTick == RunPostedIfAny("tick", "work")

\* The end of the tick: a runtime told to stop goes no further.
TickDone ==
  Step("work", IF ~running THEN "loop"
               ELSE IF loopType = "POLL" THEN "poll" ELSE "sockets")

\* __defaultMainLoop: another pass over the sockets while the frame lasts.
SocketsAgain ==
  /\ loopType = "DEFAULT"
  /\ running
  /\ RunPosted("sockets", "sockets")

SocketsDone == loopType = "DEFAULT" /\ Step("sockets", "wait")

\* __pollBasedMainLoop: one poll a frame at least, unless there is nothing
\* in the poll set, and more while the frame has time left for them.
PollFirst ==
  /\ running
  /\ Step("poll", "polling")

PollNone ==
  /\ ~running \/ wakeSocket = "none"
  /\ Step("poll", "wait")

PollAgain ==
  /\ running
  /\ Step("pollAgain", "polling")

PollOver == Step("pollAgain", "wait")

\* poll returns: with the wake socket readable, which is read ...
PollWoken ==
  /\ bytes > 0
  /\ GoTo("polling", "polled")
  /\ bytes' = IF bytes > DrainSize THEN bytes - DrainSize ELSE 0
  /\ seen' = hasPosted
  /\ UNCHANGED <<runVars, queueVars, sleeping, credits, wakeSocket, ret,
                 batch, ran, call>>

\* ... or without it: another socket is ready, or the time is up.
PollTimeout ==
  /\ bytes = 0
  /\ GoTo("polling", "polled")
  /\ seen' = hasPosted
  /\ UNCHANGED <<runVars, queueVars, wakeVars, ret, batch, ran, call>>

PollHandled == RunPostedIfAny("polled", "pollAgain")

\* __wait: over at the deadline or once told to stop, ...
WaitOver == Step("wait", "loop")

\* ... interrupted to run what is posted (__runPostedNow), ...
WaitRunsPosted ==
  /\ running
  /\ RunPosted("wait", "wait")

\* ... and otherwise asleep: the bulk on the lock, the tail in short sleeps.
WaitSleeps ==
  /\ running
  /\ SkipPosted("wait", "sleep")

ShortSleep ==
  /\ GoTo("sleep", "wait")
  /\ seen' = hasPosted
  /\ UNCHANGED <<runVars, queueVars, wakeVars, ret, batch, ran, call>>

\* Variant of MustStayAwake: the look before the wait is trusted.
MustStayAwakeNever == FALSE

\* What __sleepUntilWoken looks at again, under the lock, before it sleeps.
MustStayAwake == hasPosted \/ ~running

\* Its first section: asleep, or back to the wait.
FallAsleep ==
  /\ ~MustStayAwake
  /\ GoTo("sleep", "waiting")
  /\ sleeping' = TRUE
  /\ seen' = hasPosted
  /\ UNCHANGED <<runVars, queueVars, credits, wakeSocket, bytes, ret, batch,
                 ran, call>>

StayAwake ==
  /\ MustStayAwake
  /\ GoTo("sleep", "wait")
  /\ seen' = hasPosted
  /\ UNCHANGED <<runVars, queueVars, wakeVars, ret, batch, ran, call>>

\* __wakeLock.wait(): a release ends it, or the time runs out.
WaitWoken ==
  /\ credits > 0
  /\ GoTo("waiting", "woke")
  /\ credits' = credits - 1
  /\ UNCHANGED <<runVars, queueVars, sleeping, wakeSocket, bytes, seen, ret,
                 batch, ran, call>>

WaitTimeout ==
  /\ credits = 0
  /\ Step("waiting", "woke")

\* __sleepUntilWoken's second section.
WakeUp ==
  /\ GoTo("woke", "wait")
  /\ sleeping' = FALSE
  /\ seen' = hasPosted
  /\ UNCHANGED <<runVars, queueVars, credits, wakeSocket, bytes, ret, batch,
                 ran, call>>

-----------------------------------------------------------------------------
(* __finalizeExit.                                                         *)

FinalizeExit == RunPostedIfAny("fin", "exitEvent")

\* After EXIT's listeners: posts are refused from here on.
ClosePosts ==
  /\ GoTo("exitEvent", "drain")
  /\ postClosed' = TRUE
  /\ seen' = hasPosted
  /\ UNCHANGED <<runVars, posted, hasPosted, accepted, wakeVars, ret, batch,
                 ran, call>>

DrainPosted == RunPostedIfAny("drain", "release")

\* The final flush, and the wake socket closed with the rest.
ReleaseAll ==
  /\ GoTo("release", "done")
  /\ wakeSocket' = "none"
  /\ bytes' = 0
  /\ UNCHANGED <<runVars, queueVars, sleeping, credits, seen, ret, batch,
                 ran, call>>

\* A write by another thread becomes visible to unlocked reads in the end.
Visible ==
  /\ seen # hasPosted
  /\ seen' = hasPosted
  /\ UNCHANGED <<runVars, queueVars, wakeVars, pc, ret, batch, ran, call>>

-----------------------------------------------------------------------------
CallStep(a) == Poke(a) \/ Wake(a)

\* Every step of the loop but the two that only the clock brings about.
LoopStep ==
  \/ RunCallback \/ CallbackDone \/ BatchDone
  \/ ArmWakeSocket \/ InitDispatched \/ LoopTop \/ AdvanceTimers
  \/ DispatchTick \/ TickDone \/ SocketsAgain \/ SocketsDone
  \/ PollFirst \/ PollNone \/ PollAgain \/ PollOver
  \/ PollWoken \/ PollHandled
  \/ WaitOver \/ WaitRunsPosted \/ WaitSleeps \/ ShortSleep
  \/ FallAsleep \/ StayAwake \/ WaitWoken \/ WakeUp
  \/ FinalizeExit \/ ClosePosts \/ DrainPosted \/ ReleaseAll

Timeout == PollTimeout \/ WaitTimeout

Next ==
  \/ \E a \in Agents : Post(a) \/ PostRefused(a) \/ Exit(a) \/ CallStep(a)
  \/ LoopStep
  \/ Timeout
  \/ Visible

Spec == Init /\ [][Next]_vars

-----------------------------------------------------------------------------
(* Properties.                                                             *)

\* The state is of the types the code declares; the credits of the wake
\* lock are a count, the wake socket holds no more than its buffer.
TypeOK ==
  /\ loopType \in LoopTypes /\ running \in BOOLEAN
  /\ posted \in Seq(Nat)
  /\ hasPosted \in BOOLEAN
  /\ postClosed \in BOOLEAN
  /\ sleeping \in BOOLEAN
  /\ credits \in Nat
  /\ wakeSocket \in {"none", "open"}
  /\ bytes \in 0..SocketBuffer
  /\ seen \in BOOLEAN
  /\ pc \in LoopPoints
  /\ ret \in ReturnPoints
  /\ batch \in Seq(Nat)
  /\ call \in [Agents -> {"idle", "poke", "wake"}]
  /\ accepted \in Seq(Nat)
  /\ ran \in Seq(Nat)

\* post(): "Callbacks run in the order they were posted", each once: what was
\* taken is what has run, then what the loop has in hand, then the queue.
FifoOnce == accepted = ran \o batch \o posted

\* post() and exit() end the wait the loop is in: a loop blocked on its lock
\* with no release coming to it has nothing posted, and was not told to stop
\* unless whoever told it is still on the way to waking it; a loop blocked in
\* poll has nothing posted and was not told to stop unless a byte is coming.
NoLostWake ==
  /\ pc = "waiting" /\ credits = 0 =>
       /\ ~hasPosted
       /\ running \/ \E a \in Agents : call[a] = "wake"
  /\ pc = "polling" /\ bytes = 0 /\ wakeSocket = "open" =>
       /\ hasPosted => \E a \in Agents : call[a] = "poke"
       /\ running \/ \E a \in Agents : call[a] # "idle"

\* post() @return: "False once the runtime has exited, when it would never
\* run", so true means it runs: a runtime that has finished exiting has run
\* every callback it ever took, however late it was posted.
NothingStranded == pc = "done" => ran = accepted

\* The lock is "released only while the loop is waiting on it", so releases
\* do not pile up: one may be left from a wait that timed out as it was being
\* woken, and one more is given to the next wait.
WakeCreditsBounded ==
  /\ credits <= 2
  /\ pc # "waiting" => credits <= 1

\* exit(): "From any thread; from another, it stops now rather than once its
\* frame is out": a runtime told to stop finishes its exit, with no timeout
\* needed to end the wait it was in.
ExitCompletes == ~running ~> pc = "done"

PQ == INSTANCE PostQueue WITH pending <- batch \o posted, closed <- postClosed

\* The queue, its lock and the batches take, run and refuse callbacks as the
\* queue that post() promises does.
ImplementsPostQueue == PQ!PQSafety

\* With the wakes, what was taken is also run in the end: "Runs callback on
\* this runtime's thread, as soon as the runtime is free to".
RunsWhatItTakes == PQ!PQSpec

\* Both at once: what post() takes is run, and exit() is completed, by a loop
\* that nothing but the wakes they give gets out of its waits.
WorkIsServed == ExitCompletes /\ RunsWhatItTakes
=============================================================================
