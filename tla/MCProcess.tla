----------------------------- MODULE MCProcess -----------------------------
(***************************************************************************)
(* A process's children, signals, service controls and keys on small       *)
(* instances.  The four share nothing, so a behaviour is one of one of     *)
(* them, the part, while the others stay as they begin: one run checks     *)
(* each by itself.                                                         *)
(***************************************************************************)
EXTENDS Child, Lifecycle, ServiceControl, PkKey

VARIABLE part   \* the component whose behaviour this is

processVars == <<part, childVars, lifecycleVars, serviceVars, keyVars>>

\* A component that is not the part begins in one of its states alone.
ProcessInit ==
  /\ part \in {"child", "lifecycle", "service", "key"}
  /\ ChildInit /\ (part = "child" \/ target = "linux")
  /\ LifecycleInit
  /\ \/ part = "lifecycle"
     \/ platform = "posix" /\ handler["HUP"] = "default" /\ exitOnShutdown
  /\ ServiceInit /\ (part = "service" \/ ~selfStops)
  /\ KeyInit /\ (part = "key" \/ ~isPrivate)

ProcessNext ==
  /\ UNCHANGED part
  /\ \/ /\ part = "child" /\ ChildNext
        /\ UNCHANGED <<lifecycleVars, serviceVars, keyVars>>
     \/ /\ part = "lifecycle" /\ LifecycleNext
        /\ UNCHANGED <<childVars, serviceVars, keyVars>>
     \/ /\ part = "service" /\ ServiceNext
        /\ UNCHANGED <<childVars, lifecycleVars, keyVars>>
     \/ /\ part = "key" /\ KeyNext
        /\ UNCHANGED <<childVars, lifecycleVars, serviceVars>>

\* This process's threads go on, the runtime's comes round to what it was
\* sent however much it writes, and a child reaches its exec, the sibling
\* too; no child need ever end.
ChildFairness ==
  /\ WF_childVars(part = "child" /\ StartStep)
  /\ WF_childVars(part = "child" /\ ChildStep)
  /\ WF_childVars(part = "child" /\ WorkerStep)
  /\ SF_childVars(part = "child" /\ DispatchExit)
  /\ WF_childVars(part = "child" /\ SiblingExecs)
  /\ WF_childVars(part = "child" /\ WriteReturns)
  /\ \A o \in Outputs : WF_childVars(part = "child" /\ OutputReaderStep(o))

\* The watched runtime polls at each of its ticks, and a poll that has begun,
\* or a loop told to exit, ends.
LifecycleFairness ==
  \A t \in Pollers : WF_lifecycleVars(part = "lifecycle" /\ RuntimeStep(t))

\* Each thread of a service goes on.
ServiceFairness ==
  /\ WF_serviceVars(part = "service" /\ MainStep)
  /\ WF_serviceVars(part = "service" /\ HandlerStep)
  /\ WF_serviceVars(part = "service" /\ ProgramStep)

\* Each thread goes on while it can, and so does a collection.
KeyFairness ==
  /\ \A t \in KeyUsers : WF_keyVars(part = "key" /\ KeySteps(t))
  /\ WF_keyVars(part = "key" /\ GcRuns) /\ WF_keyVars(part = "key" /\ GcEnds)

ProcessSpec ==
  /\ ProcessInit /\ [][ProcessNext]_processVars
  /\ ChildFairness /\ LifecycleFairness /\ ServiceFairness /\ KeyFairness

\* Every variable of the four components keeps its type.
ProcessTypeOK ==
  ChildTypeOK /\ LifecycleTypeOK /\ ServiceTypeOK /\ KeyTypeOK
=============================================================================
