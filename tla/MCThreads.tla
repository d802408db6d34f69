----------------------------- MODULE MCThreads -----------------------------
(***************************************************************************)
(* A runtime's pass, the pool that runs tasks and the tree of runtimes on  *)
(* small instances.  The three share nothing, so a behaviour is one of one *)
(* of them, the part, while the others stay as they begin: one run checks  *)
(* each by itself.                                                         *)
(***************************************************************************)
EXTENDS LoopPass, TaskPool, RuntimeTree

VARIABLE part   \* the component whose behaviour this is

threadsVars == <<part, loopVars, allPoolVars, vars>>

\* A component that is not the part begins in one of its states alone.
ThreadsInit ==
  /\ part \in {"loop", "pool", "tree"}
  /\ LoopInit /\ (part = "loop" \/ driver = "DEFAULT")
  /\ PoolInit
  /\ Init

ThreadsNext ==
  /\ UNCHANGED part
  /\ \/ /\ part = "loop" /\ LoopNext
        /\ UNCHANGED <<allPoolVars, vars>>
     \/ /\ part = "pool" /\ PoolNext
        /\ UNCHANGED <<loopVars, vars>>
     \/ /\ part = "tree" /\ Next
        /\ UNCHANGED <<loopVars, allPoolVars>>

ThreadsSpec == ThreadsInit /\ [][ThreadsNext]_threadsVars

\* The thread is scheduled, handlers return, time passes, and a host goes on
\* pumping.
LoopFairness ==
  /\ WF_loopVars(part = "loop" /\ LoopStep)
  /\ WF_loopVars(part = "loop" /\ ClockPasses)
  /\ WF_loopVars(part = "loop" /\ Pump)

\* Threads are scheduled, jobs return, and what a task's end was handed to goes
\* on to tell it.
PoolFairness ==
  /\ \A c \in PoolThreads : WF_allPoolVars(part = "pool" /\ CallStep(c))
  /\ \A w \in Workers : WF_allPoolVars(part = "pool" /\ WorkStep(w))
  /\ \A t \in Tasks : WF_allPoolVars(part = "pool" /\ Deliver(t))

\* Calls under way finish and a runtime told to stop ends: each thread is
\* scheduled, and each listener and configure returns, however often it calls
\* exit() before it does.
TreeFairness ==
  /\ \A t \in Threads : WF_vars(part = "tree" /\ MakeStep(t))
  /\ \A t \in Threads : WF_vars(part = "tree" /\ Deregister(t))
  /\ \A r \in Runtimes : SF_vars(part = "tree" /\ EndStep(r))

ThreadsFairSpec ==
  ThreadsSpec /\ LoopFairness /\ PoolFairness /\ TreeFairness

\* Every variable of the loop, the pool and the tree keeps its type.
ThreadsTypeOK == LoopTypeOK /\ PoolTypeOK /\ TypeOK
=============================================================================
