-------------------------------- MODULE Task --------------------------------
(***************************************************************************)
(* One task (sys/Task.hx): a pool thread starts and ends it, any thread    *)
(* cancels it, waits for it with await() or gives it a handler with        *)
(* onComplete, onError or onCancel, and its end is told on the thread of   *)
(* the runtime it was made on, if it has one that still takes posts.  A    *)
(* section under the task's lock is one step.  A posted callback runs once *)
(* taken (module Runtime); that one worker at most takes the task is the   *)
(* pool's doing (module TaskPool).                                         *)
(***************************************************************************)
EXTENDS Naturals, Sequences, FiniteSets

CONSTANTS
  Own,        \* the thread the task is made on
  Pool,       \* the worker that runs it
  Others,     \* threads besides
  Handlers    \* Bound: the handlers it is given

ASSUME TaskAssumption ==
  /\ Own # Pool
  /\ Own \notin Others /\ Pool \notin Others

\* The worker that runs it neither waits for it nor cancels it.
Callers == {Own} \cup Others

VARIABLES
  runtime,     \* "none", or how far the runtime of Own has got
  turn,        \* whether the callback of that runtime that made it still runs
  listener,    \* what has come of the addEventListener of that callback
  taskState,       \* TaskState
  awaiters,    \* __awaiters
  completion,  \* releases of __completion not yet taken
  waiting,     \* __waiting: handlers kept, in order
  awaits,      \* per thread, where it is in await()
  given,       \* per handler, what has come of it
  heard,       \* per handler, each outcome it was told
  ender,       \* the thread that ended the task
  delivery,    \* how far the end has been told
  teller,      \* the thread that tells it
  taken        \* the handlers it has still to tell

homeVars == <<runtime, turn, listener>>
lockVars == <<taskState, awaiters, completion, waiting>>
tellVars == <<ender, delivery, teller, taken>>
taskStateVars == <<homeVars, lockVars, awaits, given, heard, tellVars>>

Ended == {"completed", "failed", "cancelled"}
IsDone == taskState \in Ended

\* A runtime that is closing still runs its last callbacks.
TaskInit ==
  /\ runtime \in {"none", "live", "closing"}
  /\ turn = (runtime # "none")
  /\ listener = "no"
  /\ taskState = "pending"
  /\ awaiters = 0
  /\ completion = 0
  /\ waiting = <<>>
  /\ awaits = [c \in Callers |-> "no"]
  /\ given = [h \in Handlers |-> "no"]
  /\ heard = [h \in Handlers |-> <<>>]
  /\ ender = Pool
  /\ delivery = "no"
  /\ teller = Pool
  /\ taken = <<>>

\* c is not inside await().
Free(c) == awaits[c] \in {"no", "returned"}

\* Own's callback or call is over: it is not inside await(), ending the task or
\* telling of its end.
OwnIsBack ==
  /\ Free(Own)
  /\ ~(delivery = "dispatch" /\ ender = Own)
  /\ ~(delivery \in {"events", "handlers"} /\ teller = Own)

-----------------------------------------------------------------------------
(* The end.                                                                *)

\* __start.
StartTask ==
  /\ taskState = "pending"
  /\ taskState' = "running"
  /\ UNCHANGED <<homeVars, awaiters, completion, waiting, awaits, given, heard,
                 tellVars>>

\* Variant of NotifyWaiters: one release for all of them.
NotifyOne ==
  /\ completion' = IF awaiters > 0 THEN completion + 1 ELSE completion
  /\ awaiters' = 0

\* __notifyWaiters.
NotifyWaiters ==
  /\ completion' = completion + awaiters
  /\ awaiters' = 0

\* The section of cancel, __complete and __fail, by thread c.
End(c, outcome) ==
  /\ taskState' = outcome
  /\ NotifyWaiters
  /\ taken' = waiting
  /\ waiting' = <<>>
  /\ ender' = c
  /\ delivery' = "dispatch"
  /\ UNCHANGED <<homeVars, awaits, given, heard, teller>>

\* The job returns or throws.
FinishTask == taskState = "running" /\ \E outcome \in {"completed", "failed"} : End(Pool, outcome)

CancelTask(c) ==
  /\ Free(c)
  /\ taskState = "pending"
  /\ End(c, "cancelled")

\* __dispatchTerminalEvent: handed to the runtime, unless this is its thread,
\* it has none, or the runtime refuses it.
Dispatch ==
  /\ delivery = "dispatch"
  /\ IF runtime = "live" /\ ender # Own
       THEN delivery' = "posted" /\ UNCHANGED teller
       ELSE delivery' = "events" /\ teller' = ender
  /\ UNCHANGED <<homeVars, lockVars, awaits, given, heard, ender, taken>>

\* The runtime runs what was posted to it.
RunsPosted ==
  /\ delivery = "posted"
  /\ ~turn /\ OwnIsBack
  /\ delivery' = "events"
  /\ teller' = Own
  /\ UNCHANGED <<homeVars, lockVars, awaits, given, heard, ender, taken>>

\* __deliver: the listeners there are hear the event, ...
DispatchEvent ==
  /\ delivery = "events"
  /\ delivery' = "handlers"
  /\ listener' = IF listener = "added" THEN "heard" ELSE listener
  /\ UNCHANGED <<runtime, turn, lockVars, awaits, given, heard, ender, teller, taken>>

\* h is told the outcome; what it throws is contained.
Told(h) ==
  /\ given' = [given EXCEPT ![h] = "told"]
  /\ heard' = [heard EXCEPT ![h] = Append(@, taskState)]

\* ... then each handler that was waiting, ...
DeliverEnd ==
  /\ delivery = "handlers"
  /\ taken # <<>>
  /\ Told(Head(taken))
  /\ taken' = Tail(taken)
  /\ UNCHANGED <<homeVars, lockVars, awaits, ender, delivery, teller>>

\* ... and the pool lets the task go (__maybeRelease).
Release ==
  /\ delivery = "handlers"
  /\ taken = <<>>
  /\ delivery' = "released"
  /\ UNCHANGED <<homeVars, lockVars, awaits, given, heard, ender, teller, taken>>

TaskEndStep == Dispatch \/ RunsPosted \/ DispatchEvent \/ DeliverEnd \/ Release

-----------------------------------------------------------------------------
(* Those who ask.                                                          *)

\* Variant of WhenDone: kept, whatever the state.
WhenDoneKept(h) ==
  /\ given[h] = "no"
  /\ given' = [given EXCEPT ![h] = "kept"]
  /\ waiting' = Append(waiting, h)
  /\ UNCHANGED <<homeVars, taskState, awaiters, completion, awaits, heard, tellVars>>

\* __whenDone's section: kept, or to be called at once.
WhenDone(h) ==
  /\ given[h] = "no"
  /\ IF IsDone
       THEN /\ given' = [given EXCEPT ![h] = "now"]
            /\ UNCHANGED waiting
       ELSE /\ given' = [given EXCEPT ![h] = "kept"]
            /\ waiting' = Append(waiting, h)
  /\ UNCHANGED <<homeVars, taskState, awaiters, completion, awaits, heard, tellVars>>

CalledNow(h) ==
  /\ given[h] = "now"
  /\ Told(h)
  /\ UNCHANGED <<homeVars, lockVars, awaits, tellVars>>

\* await's section: waits, or returns.
Await(c) ==
  /\ awaits[c] \in {"no", "woken"}
  /\ IF IsDone
       THEN /\ awaits' = [awaits EXCEPT ![c] = "returned"]
            /\ UNCHANGED awaiters
       ELSE /\ awaits' = [awaits EXCEPT ![c] = "blocked"]
            /\ awaiters' = awaiters + 1
  /\ UNCHANGED <<homeVars, taskState, completion, waiting, given, heard, tellVars>>

AwaitWoken(c) ==
  /\ awaits[c] = "blocked"
  /\ completion > 0
  /\ completion' = completion - 1
  /\ awaits' = [awaits EXCEPT ![c] = "woken"]
  /\ UNCHANGED <<homeVars, taskState, awaiters, waiting, given, heard, tellVars>>

-----------------------------------------------------------------------------
(* The runtime.                                                            *)

\* The callback that made the task listens to it, ...
Listen ==
  /\ turn /\ OwnIsBack
  /\ listener = "no"
  /\ listener' = "added"
  /\ UNCHANGED <<runtime, turn, lockVars, awaits, given, heard, tellVars>>

\* ... and returns.
EndTurn ==
  /\ turn /\ OwnIsBack
  /\ turn' = FALSE
  /\ UNCHANGED <<runtime, listener, lockVars, awaits, given, heard, tellVars>>

\* __finalizeExit refuses posts, ...
RefusesPosts ==
  /\ runtime = "live"
  /\ ~turn /\ OwnIsBack
  /\ runtime' = "closing"
  /\ UNCHANGED <<turn, listener, lockVars, awaits, given, heard, tellVars>>

\* ... runs those it took, and is done with its thread.
HomeExits ==
  /\ runtime = "closing"
  /\ ~turn /\ OwnIsBack
  /\ delivery # "posted"
  /\ runtime' = "exited"
  /\ UNCHANGED <<turn, listener, lockVars, awaits, given, heard, tellVars>>

TaskNext ==
  \/ StartTask \/ FinishTask \/ TaskEndStep
  \/ \E c \in Callers : CancelTask(c) \/ Await(c) \/ AwaitWoken(c)
  \/ \E h \in Handlers : WhenDone(h) \/ CalledNow(h)
  \/ Listen \/ EndTurn \/ RefusesPosts \/ HomeExits

TaskSpec == TaskInit /\ [][TaskNext]_taskStateVars

-----------------------------------------------------------------------------
(* Properties.                                                             *)

\* onComplete, onError, onCancel: a handler hears the one outcome the task
\* has, once, however the end, a cancel and its being given cross.
HeardOnce ==
  \A h \in Handlers : heard[h] = IF given[h] = "told" THEN <<taskState>> ELSE <<>>

\* "a handler given before then is called and one given after is called at
\* once: never neither": one that is kept is with the thread that tells of the
\* end, or the task has not ended.
NeverNeither ==
  /\ \A h \in Handlers : given[h] = "kept" <=>
       \E i \in DOMAIN (waiting \o taken) : (waiting \o taken)[i] = h
  /\ IsDone => waiting = <<>>
  /\ delivery = "released" => taken = <<>>

\* "Its events are dispatched on the runtime of the thread that made it": while
\* that runtime is live no other thread tells of the end, and the runtime does
\* so only after the callback that made the task, so that a listener added
\* there is in time, unless that callback itself cancels it.
ToldAtHome ==
  runtime = "live" /\ delivery \in {"events", "handlers", "released"} =>
    teller = Own /\ (turn => ender = Own)

\* await() returns.
AwaitReturns == \A c \in Callers : awaits[c] = "blocked" ~> awaits[c] = "returned"

\* A handler that was given hears the outcome, and the pool lets go of a task
\* that has started or ended.
AllAreTold ==
  /\ \A h \in Handlers : given[h] # "no" ~> given[h] = "told"
  /\ taskState # "pending" ~> delivery = "released"

\* onComplete, onError, onCancel and the events: each handler that was given
\* hears the one outcome, once and never neither, and on the task's own runtime
\* while that is live.
HeardOnceAtHome == HeardOnce /\ NeverNeither /\ ToldAtHome

\* The end of a task gets to everyone: each thread in await() returns,
\* each handler hears, and the pool lets go.
EndReachesAll == AwaitReturns /\ AllAreTold
=============================================================================
