------------------------------ MODULE TaskPool ------------------------------
(***************************************************************************)
(* A pool of worker threads (sys/TaskPool.hx) and the life of the tasks it *)
(* runs (sys/Task.hx): submit, cancel, shutdown and shutdownNow from any   *)
(* thread, a job's own included.  A section under __stateLock or under a   *)
(* task's lock is one step, and so is each call on the queue between them. *)
(* What hears of a task's end, and who waits for it, is module Task.       *)
(***************************************************************************)
EXTENDS Integers, Sequences, FiniteSets, SequencesExt

CONSTANTS
  Workers,
  Clients,   \* threads that use the pool and are not its own
  Tasks,     \* Bound: the tasks there can be
  MaxShutdowns, \* Bound: calls of shutdown and shutdownNow
  Token      \* the entry that retires a worker

ASSUME PoolAssumption ==
  /\ IsFiniteSet(Workers) /\ Workers # {}
  /\ Workers \cap Clients = {}
  /\ Token \notin Tasks
  /\ MaxShutdowns \in Nat

VARIABLES
  isShutdown,    \* __isShutdown
  queued,        \* __queued
  runningCount,       \* __running
  activeWorkers, \* __activeWorkers
  queue,         \* __queue
  drained,       \* releases of __drained not yet taken
  retained,      \* __retained
  slot,          \* per task, __poolSlot
  state,         \* per task, its TaskState, or "unmade"
  finishing,     \* the tasks that have ended and whose end is still to be told
  workerAt,            \* per worker, where it is in __workerLoop
  job,           \* per worker, the entry it took
  call,          \* per thread, where it is in a call on the pool
  hand,          \* per thread, the entry that call holds
  tokens,        \* per thread, the tokens that call has still to add
  drains,        \* per thread, whether that call waits for the workers
  toCancel,      \* per thread, what shutdownNow took from the queue
  early,         \* history: the tasks in the queue before any shutdown
  shutdowns      \* history: the calls of shutdown and shutdownNow so far

poolVars == <<isShutdown, queued, runningCount, activeWorkers, drained>>
taskVars == <<retained, slot, state, finishing>>
workVars == <<workerAt, job>>
callVars == <<call, hand, tokens, drains, toCancel>>
ghosts == <<early, shutdowns>>
allPoolVars == <<poolVars, queue, taskVars, workVars, callVars, ghosts>>

PoolThreads == Workers \cup Clients

WorkPoints == {"pop", "start", "countStarted", "countSkipped", "run", "ran",
               "retire", "last", "gone"}

CallPoints == {"idle", "add", "sweep", "uncount", "putBack", "tokens", "cancel",
               "drain", "waiting", "passing"}

Settled == {"completed", "failed", "cancelled"}

PoolInit ==
  /\ isShutdown = FALSE
  /\ queued = 0
  /\ runningCount = 0
  /\ activeWorkers = Cardinality(Workers)
  /\ queue = <<>>
  /\ drained = 0
  /\ retained = <<>>
  /\ slot = [t \in Tasks |-> -1]
  /\ state = [t \in Tasks |-> "unmade"]
  /\ finishing = {}
  /\ workerAt = [w \in Workers |-> "pop"]
  /\ job = [w \in Workers |-> Token]
  /\ call = [c \in PoolThreads |-> "idle"]
  /\ hand = [c \in PoolThreads |-> Token]
  /\ tokens = [c \in PoolThreads |-> 0]
  /\ drains = [c \in PoolThreads |-> FALSE]
  /\ toCancel = [c \in PoolThreads |-> {}]
  /\ early = {}
  /\ shutdowns = 0

-----------------------------------------------------------------------------
(* Calls.                                                                  *)

\* Code that can call runs on c: a client's, or the job of a worker.
PoolMayCall(c) == call[c] = "idle" /\ (c \in Workers => workerAt[c] = "run")

CallGoes(c, p, q) == call[c] = p /\ call' = [call EXCEPT ![c] = q]

\* submit's section under the lock.
Submit(c, t) ==
  /\ PoolMayCall(c)
  /\ state[t] = "unmade"
  /\ ~isShutdown
  /\ state' = [state EXCEPT ![t] = "pending"]
  /\ queued' = queued + 1
  /\ slot' = [slot EXCEPT ![t] = Len(retained)]
  /\ retained' = Append(retained, t)
  /\ CallGoes(c, "idle", "add")
  /\ hand' = [hand EXCEPT ![c] = t]
  /\ UNCHANGED <<isShutdown, runningCount, activeWorkers, queue, drained, finishing,
                 workVars, tokens, drains, toCancel, ghosts>>

\* submit's __queue.add, with the lock released.
Enqueue(c) ==
  /\ CallGoes(c, "add", "idle")
  /\ queue' = Append(queue, hand[c])
  /\ hand' = [hand EXCEPT ![c] = Token]
  /\ early' = IF isShutdown THEN early ELSE early \cup {hand[c]}
  /\ UNCHANGED <<poolVars, taskVars, workVars, tokens, drains, toCancel,
                 shutdowns>>

\* The section both shutdowns begin with.
CloseOnce(c) ==
  /\ shutdowns < MaxShutdowns
  /\ shutdowns' = shutdowns + 1
  /\ isShutdown' = TRUE
  /\ tokens' = [tokens EXCEPT ![c] = IF isShutdown THEN 0 ELSE activeWorkers]

\* shutdown.  A job does not ask to wait for its own worker.
Shutdown(c, drain) ==
  /\ PoolMayCall(c)
  /\ drain => c \in Clients
  /\ CloseOnce(c)
  /\ drains' = [drains EXCEPT ![c] = drain]
  /\ CallGoes(c, "idle", "tokens")
  /\ UNCHANGED <<queued, runningCount, activeWorkers, queue, drained, taskVars,
                 workVars, hand, toCancel, early>>

ShutdownNow(c) ==
  /\ PoolMayCall(c)
  /\ CloseOnce(c)
  /\ drains' = [drains EXCEPT ![c] = FALSE]
  /\ CallGoes(c, "idle", "sweep")
  /\ UNCHANGED <<queued, runningCount, activeWorkers, queue, drained, taskVars,
                 workVars, hand, toCancel, early>>

\* __drainQueuedTasks: the next entry is taken, ...
SweepNext(c) ==
  /\ queue # <<>>
  /\ CallGoes(c, "sweep", IF Head(queue) = Token THEN "putBack" ELSE "uncount")
  /\ hand' = [hand EXCEPT ![c] = Head(queue)]
  /\ queue' = Tail(queue)
  /\ UNCHANGED <<poolVars, taskVars, workVars, tokens, drains, toCancel, ghosts>>

SweepEnds(c) ==
  /\ queue = <<>>
  /\ CallGoes(c, "sweep", "tokens")
  /\ UNCHANGED <<poolVars, queue, taskVars, workVars, hand, tokens, drains,
                 toCancel, ghosts>>

\* Variant of PutBack: the token is thrown away.
PutBackDropped(c) ==
  /\ CallGoes(c, "putBack", "tokens")
  /\ UNCHANGED <<poolVars, queue, taskVars, workVars, hand, tokens, drains,
                 toCancel, ghosts>>

\* ... a token is put back, which ends it, ...
PutBack(c) ==
  /\ CallGoes(c, "putBack", "tokens")
  /\ queue' = Append(queue, hand[c])
  /\ UNCHANGED <<poolVars, taskVars, workVars, hand, tokens, drains, toCancel,
                 ghosts>>

\* ... and a task is kept to be cancelled.
Uncount(c) ==
  /\ CallGoes(c, "uncount", "sweep")
  /\ queued' = queued - 1
  /\ toCancel' = [toCancel EXCEPT ![c] = @ \cup {hand[c]}]
  /\ hand' = [hand EXCEPT ![c] = Token]
  /\ UNCHANGED <<isShutdown, runningCount, activeWorkers, queue, drained, taskVars,
                 workVars, tokens, drains, ghosts>>

\* __wakeWorkersForShutdown, an entry at a time.
AddToken(c) ==
  /\ call[c] = "tokens"
  /\ tokens[c] > 0
  /\ queue' = Append(queue, Token)
  /\ tokens' = [tokens EXCEPT ![c] = @ - 1]
  /\ UNCHANGED <<poolVars, taskVars, workVars, call, hand, drains, toCancel,
                 ghosts>>

TokensAdded(c) ==
  /\ tokens[c] = 0
  /\ CallGoes(c, "tokens", IF drains[c] THEN "drain" ELSE "cancel")
  /\ drains' = [drains EXCEPT ![c] = FALSE]
  /\ UNCHANGED <<poolVars, queue, taskVars, workVars, hand, tokens, toCancel,
                 ghosts>>

\* Task.cancel: a task that has started is left alone.
Cancelled(t) ==
  IF state[t] = "pending"
    THEN /\ state' = [state EXCEPT ![t] = "cancelled"]
         /\ finishing' = finishing \cup {t}
    ELSE UNCHANGED <<state, finishing>>

\* shutdownNow's cancelling of what it took.
CancelNext(c) ==
  /\ call[c] = "cancel"
  /\ \E t \in toCancel[c] :
       /\ Cancelled(t)
       /\ toCancel' = [toCancel EXCEPT ![c] = @ \ {t}]
  /\ UNCHANGED <<poolVars, queue, retained, slot, workVars, call, hand, tokens,
                 drains, ghosts>>

CancelEnds(c) ==
  /\ toCancel[c] = {}
  /\ CallGoes(c, "cancel", "idle")
  /\ UNCHANGED <<poolVars, queue, taskVars, workVars, hand, tokens, drains,
                 toCancel, ghosts>>

\* __awaitDrain: nobody is left, or the last worker's release is waited for ...
AwaitDrain(c) ==
  /\ CallGoes(c, "drain", IF activeWorkers = 0 THEN "idle" ELSE "waiting")
  /\ UNCHANGED <<poolVars, queue, taskVars, workVars, hand, tokens, drains,
                 toCancel, ghosts>>

DrainWoken(c) ==
  /\ drained > 0
  /\ CallGoes(c, "waiting", "passing")
  /\ drained' = drained - 1
  /\ UNCHANGED <<isShutdown, queued, runningCount, activeWorkers, queue, taskVars,
                 workVars, hand, tokens, drains, toCancel, ghosts>>

\* Variant of PassOn: the release is kept.
PassOnTaken(c) ==
  /\ CallGoes(c, "passing", "idle")
  /\ UNCHANGED <<poolVars, queue, taskVars, workVars, hand, tokens, drains,
                 toCancel, ghosts>>

\* ... and passed on.
PassOn(c) ==
  /\ CallGoes(c, "passing", "idle")
  /\ drained' = drained + 1
  /\ UNCHANGED <<isShutdown, queued, runningCount, activeWorkers, queue, taskVars,
                 workVars, hand, tokens, drains, toCancel, ghosts>>

\* cancel() of a task that submit has returned.
Cancel(c, t) ==
  /\ PoolMayCall(c)
  /\ state[t] = "pending"
  /\ \A d \in PoolThreads : call[d] = "add" => hand[d] # t
  /\ Cancelled(t)
  /\ UNCHANGED <<poolVars, queue, retained, slot, workVars, callVars, ghosts>>

CallStep(c) ==
  \/ Enqueue(c) \/ SweepNext(c) \/ SweepEnds(c) \/ PutBack(c) \/ Uncount(c)
  \/ AddToken(c) \/ TokensAdded(c) \/ CancelNext(c) \/ CancelEnds(c)
  \/ AwaitDrain(c) \/ DrainWoken(c) \/ PassOn(c)

-----------------------------------------------------------------------------
(* __workerLoop.                                                           *)

WorkGoes(w, p, q) == workerAt[w] = p /\ workerAt' = [workerAt EXCEPT ![w] = q]

Pop(w) ==
  /\ queue # <<>>
  /\ WorkGoes(w, "pop", IF Head(queue) = Token THEN "retire" ELSE "start")
  /\ job' = [job EXCEPT ![w] = Head(queue)]
  /\ queue' = Tail(queue)
  /\ UNCHANGED <<poolVars, taskVars, callVars, ghosts>>

\* Task.__start.
StartJob(w) ==
  LET t == job[w]
      starts == state[t] = "pending" IN
  /\ WorkGoes(w, "start", IF starts THEN "countStarted" ELSE "countSkipped")
  /\ state' = IF starts THEN [state EXCEPT ![t] = "running"] ELSE state
  /\ UNCHANGED <<poolVars, queue, retained, slot, finishing, job, callVars, ghosts>>

CountStarted(w) ==
  /\ WorkGoes(w, "countStarted", "run")
  /\ queued' = queued - 1
  /\ runningCount' = runningCount + 1
  /\ UNCHANGED <<isShutdown, activeWorkers, drained, queue, taskVars, job,
                 callVars, ghosts>>

CountSkipped(w) ==
  /\ WorkGoes(w, "countSkipped", "pop")
  /\ job' = [job EXCEPT ![w] = Token]
  /\ queued' = queued - 1
  /\ UNCHANGED <<isShutdown, runningCount, activeWorkers, drained, queue, taskVars,
                 callVars, ghosts>>

\* The job returns or throws: Task.__complete, Task.__fail.
Run(w) ==
  /\ call[w] = "idle"
  /\ WorkGoes(w, "run", "ran")
  /\ \E outcome \in {"completed", "failed"} :
       state' = [state EXCEPT ![job[w]] = outcome]
  /\ finishing' = finishing \cup {job[w]}
  /\ job' = [job EXCEPT ![w] = Token]
  /\ UNCHANGED <<poolVars, queue, retained, slot, callVars, ghosts>>

Ran(w) ==
  /\ WorkGoes(w, "ran", "pop")
  /\ runningCount' = runningCount - 1
  /\ UNCHANGED <<isShutdown, queued, activeWorkers, drained, queue, taskVars,
                 job, callVars, ghosts>>

\* __retireWorker: the last one says so.
RetireWorker(w) ==
  /\ WorkGoes(w, "retire", IF activeWorkers = 1 THEN "last" ELSE "gone")
  /\ activeWorkers' = activeWorkers - 1
  /\ UNCHANGED <<isShutdown, queued, runningCount, drained, queue, taskVars, job,
                 callVars, ghosts>>

ReleaseDrained(w) ==
  /\ WorkGoes(w, "last", "gone")
  /\ drained' = drained + 1
  /\ UNCHANGED <<isShutdown, queued, runningCount, activeWorkers, queue, taskVars,
                 job, callVars, ghosts>>

WorkStep(w) ==
  \/ Pop(w) \/ StartJob(w) \/ CountStarted(w) \/ CountSkipped(w) \/ Run(w)
  \/ Ran(w) \/ RetireWorker(w) \/ ReleaseDrained(w)

\* The end of a task has been told (module Task), and its pool lets it go:
\* __releaseTask moves the last of the list into its place.
Deliver(t) ==
  LET end == Len(retained)
      place == slot[t] + 1 IN
  /\ t \in finishing
  /\ finishing' = finishing \ {t}
  /\ IF place \in 1..end /\ retained[place] = t
       THEN /\ retained' = Front([retained EXCEPT ![place] = retained[end]])
            /\ slot' = [slot EXCEPT ![retained[end]] = slot[t], ![t] = -1]
       ELSE UNCHANGED <<retained, slot>>
  /\ UNCHANGED <<poolVars, queue, state, workVars, callVars, ghosts>>

PoolNext ==
  \/ \E c \in PoolThreads, t \in Tasks : Submit(c, t) \/ Cancel(c, t)
  \/ \E c \in PoolThreads, drain \in BOOLEAN : Shutdown(c, drain)
  \/ \E c \in PoolThreads : ShutdownNow(c) \/ CallStep(c)
  \/ \E w \in Workers : WorkStep(w)
  \/ \E t \in Tasks : Deliver(t)

PoolSpec == PoolInit /\ [][PoolNext]_allPoolVars

-----------------------------------------------------------------------------
(* Properties.                                                             *)

\* The pool's fields and every call under way have their types.
PoolTypeOK ==
  /\ isShutdown \in BOOLEAN
  /\ queued \in Nat /\ runningCount \in Nat /\ drained \in Nat
  /\ activeWorkers \in 0..Cardinality(Workers)
  /\ queue \in Seq(Tasks \cup {Token})
  /\ retained \in Seq(Tasks)
  /\ slot \in [Tasks -> Nat \cup {-1}]
  /\ state \in [Tasks -> {"unmade", "pending", "running"} \cup Settled]
  /\ finishing \subseteq Tasks
  /\ workerAt \in [Workers -> WorkPoints]
  /\ job \in [Workers -> Tasks \cup {Token}]
  /\ call \in [PoolThreads -> CallPoints]
  /\ hand \in [PoolThreads -> Tasks \cup {Token}]
  /\ tokens \in [PoolThreads -> 0..Cardinality(Workers)]
  /\ drains \in [PoolThreads -> BOOLEAN]
  /\ toCancel \in [PoolThreads -> SUBSET Tasks]
  /\ early \subseteq Tasks
  /\ shutdowns \in 0..MaxShutdowns

\* queuedCount and activeCount: each task that submit took is counted until a
\* worker or shutdownNow has it, wherever it is on its way there, and each job
\* under way is counted.
CountsAgree ==
  /\ queued = Cardinality({i \in DOMAIN queue : queue[i] # Token})
               + Cardinality({c \in PoolThreads : call[c] \in {"add", "uncount"}})
               + Cardinality({w \in Workers :
                   workerAt[w] \in {"start", "countStarted", "countSkipped"}})
  /\ runningCount = Cardinality({w \in Workers : workerAt[w] \in {"run", "ran"}})

\* __retained and __poolSlot: the pool keeps just the tasks it took whose end
\* has not been told, and each knows its place, however they are let go.
KeptUntilTold ==
  /\ \A i \in DOMAIN retained : slot[retained[i]] = i - 1
  /\ \A t \in Tasks : t \in ToSet(retained) <=>
       t \in finishing \/ state[t] \in {"pending", "running"}

\* Tokens there are for the workers to take, now or later.
TokensLeft ==
  Cardinality({i \in DOMAIN queue : queue[i] = Token})
  + Cardinality({c \in PoolThreads : call[c] = "putBack"})
  + FoldFunction(+, 0, tokens)
  + Cardinality({w \in Workers : workerAt[w] = "retire"})

\* "One token per live worker: each token wakes exactly one parked worker and
\* tells it to retire", with shutdown and shutdownNow called by several threads
\* at once and shutdownNow taking tokens out and putting them back.
OneTokenEach == TokensLeft = IF isShutdown THEN activeWorkers ELSE 0

\* __drained: "The last worker releases this exactly once; re-release so
\* repeated or concurrent drains also pass through".
DrainedOnce ==
  drained + Cardinality({c \in PoolThreads : call[c] = "passing"})
    = IF \A w \in Workers : workerAt[w] = "gone" THEN 1 ELSE 0

\* shutdown(true) runs what was in the queue when it was called: with the
\* workers gone each such task has ended, or shutdownNow has it to cancel.
DrainLeavesNone ==
  activeWorkers = 0 =>
    \A t \in early :
      \/ state[t] \in Settled
      \/ \E c \in PoolThreads : t = hand[c] \/ t \in toCancel[c]

\* A task ends once: one that is cancelled is not run, and one that runs is
\* not cancelled.
EndsOnce ==
  [][\A t \in Tasks :
       /\ state[t] \in Settled => state'[t] = state[t]
       /\ state[t] = "running" => state'[t] # "cancelled"]_allPoolVars

\* A pool that is shut down loses its workers, and shutdown(true) returns.
WorkersRetire == isShutdown ~> activeWorkers = 0

DrainReturns == \A c \in Clients : call[c] = "drain" ~> call[c] = "idle"

\* What was in the queue before the pool was shut down ends, by running or by
\* being cancelled, and is let go.
QueuedIsEnded ==
  \A t \in Tasks : t \in early ~> state[t] \in Settled /\ t \notin ToSet(retained)

\* "shutdown(drain = true) runs every submitted job before returning"
\* (tests/stress/TaskPoolDrainStress.hx): with no worker left no task in the
\* queue is still to be run.
SubmittedAreRun ==
  activeWorkers = 0 =>
    \A i \in DOMAIN queue : queue[i] = Token \/ state[queue[i]] \in Settled

\* The pool's counts, its kept tasks, its tokens, its one drained release and
\* its queue agree with what the workers and the callers of submit, shutdown
\* and shutdownNow are doing, and no task ends twice.
BooksAgree ==
  /\ [](CountsAgree /\ KeptUntilTold /\ OneTokenEach /\ DrainedOnce /\ DrainLeavesNone)
  /\ EndsOnce

\* shutdown and shutdownNow finish, however often and by whom they are called:
\* the workers retire, drains return, what was queued ends and is let go.
ShutdownFinishes == WorkersRetire /\ DrainReturns /\ QueuedIsEnded
=============================================================================
