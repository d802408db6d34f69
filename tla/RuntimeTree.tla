---------------------------- MODULE RuntimeTree ----------------------------
(***************************************************************************)
(* The runtimes of one process (core/CrossByte.hx): CrossByte.make from    *)
(* any thread, __adopt, exit() from any thread, and __finalizeExit's       *)
(* __exitChildren, with the registry lock's sections as single steps.  How *)
(* a loop comes to see that it was told to stop is module Runtime; here it *)
(* sees it at once.                                                        *)
(*                                                                         *)
(* A runtime stands for its own thread as well.  Application code is what  *)
(* calls make() and exit(): on a runtime's thread until its EXIT listeners *)
(* are done, and on threads with no runtime at any time.                   *)
(***************************************************************************)
EXTENDS Naturals, FiniteSets

CONSTANTS
  Runtimes,     \* every runtime there can be
  Primordial,   \* the application's own
  Plain,        \* threads with no runtime
  None

ASSUME TreeAssumption ==
  /\ Primordial \in Runtimes
  /\ Runtimes \cap Plain = {}
  /\ None \notin Runtimes

VARIABLES
  primordial,   \* __primordial
  stage,        \* where each runtime is in its life
  running,      \* __isRunning
  children,     \* __children
  released,     \* __childrenReleased
  home,         \* the parent the constructor found, or None
  deregistered, \* __didDeregister
  leaving,      \* the children __exitChildren has still to tell
  at,           \* per thread, where it is in a call of make() or exit()
  which         \* per thread, the runtime that call is about

vars == <<primordial, stage, running, children, released, home, deregistered,
          leaving, at, which>>

Threads == Runtimes \cup Plain

Stages == {"unborn", "made", "looping", "exitEvent", "telling", "done"}

Init ==
  /\ primordial = Primordial
  /\ stage = [r \in Runtimes |-> IF r = Primordial THEN "looping" ELSE "unborn"]
  /\ running = [r \in Runtimes |-> r = Primordial]
  /\ children = [r \in Runtimes |-> {}]
  /\ released = [r \in Runtimes |-> FALSE]
  /\ home = [r \in Runtimes |-> None]
  /\ deregistered = [r \in Runtimes |-> FALSE]
  /\ leaving = [r \in Runtimes |-> {}]
  /\ at = [t \in Threads |-> "idle"]
  /\ which = [t \in Threads |-> None]

-----------------------------------------------------------------------------
\* Application code can run on t, and is not inside a call already.
MayCall(t) ==
  /\ at[t] = "idle"
  /\ t \in Runtimes => stage[t] \in {"looping", "exitEvent"}

Move(t, p, q) == at[t] = p /\ at' = [at EXCEPT ![t] = q]

\* Bound: a runtime is left for every make() under way.
RuntimesLeft ==
  Cardinality({r \in Runtimes : stage[r] = "unborn"})
    > Cardinality({t \in Threads : at[t] = "new"})

\* make(): refused with no primordial runtime; looked at with no lock.
Make(t) ==
  /\ MayCall(t)
  /\ RuntimesLeft
  /\ primordial # None
  /\ Move(t, "idle", "new")
  /\ UNCHANGED <<primordial, stage, running, children, released, home,
                 deregistered, leaving, which>>

\* The constructor: the parent is the thread's runtime, or the primordial one
\* as it is now, or nobody.
Construct(t) ==
  \E r \in Runtimes :
    LET parent == IF t \in Runtimes THEN t ELSE primordial IN
    /\ stage[r] = "unborn"
    /\ Move(t, "new", IF parent = None THEN "configure" ELSE "adopt")
    /\ stage' = [stage EXCEPT ![r] = "made"]
    /\ running' = [running EXCEPT ![r] = TRUE]
    /\ home' = [home EXCEPT ![r] = parent]
    /\ which' = [which EXCEPT ![t] = r]
    /\ UNCHANGED <<primordial, children, released, deregistered, leaving>>

\* Variant of Adopt: a parent on its way out takes the child all the same.
AdoptAlways(t) ==
  /\ Move(t, "adopt", "configure")
  /\ children' = [children EXCEPT ![home[which[t]]] = @ \cup {which[t]}]
  /\ UNCHANGED <<primordial, stage, running, released, home, deregistered,
                 leaving, which>>

\* __adopt: taken, or exited at once by a parent that has let its children go.
Adopt(t) ==
  LET child == which[t]
      parent == home[child] IN
  /\ Move(t, "adopt", "configure")
  /\ IF released[parent]
       THEN /\ running' = [running EXCEPT ![child] = FALSE]
            /\ deregistered' = [deregistered EXCEPT ![child] = TRUE]
            /\ UNCHANGED children
       ELSE /\ children' = [children EXCEPT ![parent] = @ \cup {child}]
            /\ UNCHANGED <<running, deregistered>>
  /\ UNCHANGED <<primordial, stage, released, home, leaving, which>>

\* exit()'s section under the lock, for runtime r.
RemovedFromParent(r) ==
  [p \in Runtimes |-> IF p = home[r] THEN children[p] \ {r} ELSE children[p]]

\* configure throws: the child never starts, and is finished here.
ConfigureThrows(t) ==
  LET child == which[t] IN
  /\ Move(t, "configure", "idle")
  /\ running' = [running EXCEPT ![child] = FALSE]
  /\ deregistered' = [deregistered EXCEPT ![child] = TRUE]
  /\ children' = IF deregistered[child] THEN children ELSE RemovedFromParent(child)
  /\ stage' = [stage EXCEPT ![child] = "done"]
  /\ released' = [released EXCEPT ![child] = TRUE]
  /\ which' = [which EXCEPT ![t] = None]
  /\ UNCHANGED <<primordial, home, leaving>>

\* configure calls exit() on the child, and goes on.
ConfigureExits(t) ==
  LET child == which[t] IN
  /\ at[t] = "configure"
  /\ running[child]
  /\ running' = [running EXCEPT ![child] = FALSE]
  /\ deregistered' = [deregistered EXCEPT ![child] = TRUE]
  /\ children' = IF deregistered[child] THEN children ELSE RemovedFromParent(child)
  /\ UNCHANGED <<primordial, stage, released, home, leaving, at, which>>

\* configure returns: the child's thread starts, or, told to stop meanwhile,
\* it is finished here.
Start(t) ==
  LET child == which[t] IN
  /\ Move(t, "configure", "idle")
  /\ stage' = [stage EXCEPT ![child] = IF running[child] THEN "looping" ELSE "done"]
  /\ released' = [released EXCEPT ![child] = ~running[child]]
  /\ which' = [which EXCEPT ![t] = None]
  /\ UNCHANGED <<primordial, running, children, home, deregistered, leaving>>

MakeStep(t) ==
  Construct(t) \/ Adopt(t) \/ ConfigureThrows(t) \/ ConfigureExits(t) \/ Start(t)

-----------------------------------------------------------------------------
\* A runtime others can have a reference to: its configure has been called.
Reachable(r) ==
  /\ stage[r] # "unborn"
  /\ \A t \in Threads : at[t] = "adopt" => which[t] # r

\* exit(), up to the lock.
Exit(t, r) ==
  /\ MayCall(t)
  /\ Reachable(r)
  /\ running' = [running EXCEPT ![r] = FALSE]
  /\ Move(t, "idle", "exit")
  /\ which' = [which EXCEPT ![t] = r]
  /\ UNCHANGED <<primordial, stage, children, released, home, deregistered,
                 leaving>>

\* exit(), from the lock on.
Deregister(t) ==
  LET r == which[t] IN
  /\ Move(t, "exit", "idle")
  /\ children' = IF deregistered[r] THEN children ELSE RemovedFromParent(r)
  /\ deregistered' = [deregistered EXCEPT ![r] = TRUE]
  /\ which' = [which EXCEPT ![t] = None]
  /\ UNCHANGED <<primordial, stage, running, released, home, leaving>>

-----------------------------------------------------------------------------
(* The end of a runtime's own thread.                                      *)

\* The loop ends, and EXIT's listeners run.
LoopEnds(r) ==
  /\ stage[r] = "looping"
  /\ ~running[r]
  /\ at[r] = "idle"
  /\ stage' = [stage EXCEPT ![r] = "exitEvent"]
  /\ UNCHANGED <<primordial, running, children, released, home, deregistered,
                 leaving, at, which>>

\* Variant of ExitChildren: the children are let go and not told.
ExitChildrenDropped(r) ==
  /\ stage[r] = "exitEvent"
  /\ at[r] = "idle"
  /\ children' = [children EXCEPT ![r] = {}]
  /\ released' = [released EXCEPT ![r] = TRUE]
  /\ stage' = [stage EXCEPT ![r] = "telling"]
  /\ UNCHANGED <<primordial, running, home, deregistered, leaving, at, which>>

\* __exitChildren's section under the lock.
ExitChildren(r) ==
  /\ stage[r] = "exitEvent"
  /\ at[r] = "idle"
  /\ leaving' = [leaving EXCEPT ![r] = children[r]]
  /\ children' = [children EXCEPT ![r] = {}]
  /\ released' = [released EXCEPT ![r] = TRUE]
  /\ stage' = [stage EXCEPT ![r] = "telling"]
  /\ UNCHANGED <<primordial, running, home, deregistered, at, which>>

\* child.exit(), up to the lock.
TellChild(r) ==
  /\ stage[r] = "telling"
  /\ \E child \in leaving[r] :
       /\ leaving' = [leaving EXCEPT ![r] = @ \ {child}]
       /\ running' = [running EXCEPT ![child] = FALSE]
       /\ which' = [which EXCEPT ![r] = child]
  /\ Move(r, "idle", "exit")
  /\ UNCHANGED <<primordial, stage, children, released, home, deregistered>>

\* The rest of __finalizeExit; the primordial runtime is the process's no more.
Finish(r) ==
  /\ stage[r] = "telling"
  /\ at[r] = "idle"
  /\ leaving[r] = {}
  /\ stage' = [stage EXCEPT ![r] = "done"]
  /\ primordial' = IF r = Primordial THEN None ELSE primordial
  /\ UNCHANGED <<running, children, released, home, deregistered, leaving, at,
                 which>>

EndStep(r) == LoopEnds(r) \/ ExitChildren(r) \/ TellChild(r) \/ Finish(r)

Next ==
  \/ \E t \in Threads : Make(t) \/ MakeStep(t) \/ Deregister(t)
  \/ \E t \in Threads, r \in Runtimes : Exit(t, r)
  \/ \E r \in Runtimes : EndStep(r)

Spec == Init /\ [][Next]_vars

-----------------------------------------------------------------------------
(* Properties.                                                             *)

\* Every runtime has a life, at most one parent, and children that are made.
TypeOK ==
  /\ primordial \in {Primordial, None}
  /\ stage \in [Runtimes -> Stages]
  /\ running \in [Runtimes -> BOOLEAN]
  /\ children \in [Runtimes -> SUBSET Runtimes]
  /\ released \in [Runtimes -> BOOLEAN]
  /\ home \in [Runtimes -> Runtimes \cup {None}]
  /\ deregistered \in [Runtimes -> BOOLEAN]
  /\ leaving \in [Runtimes -> SUBSET Runtimes]
  /\ at \in [Threads -> {"idle", "new", "adopt", "configure", "exit"}]
  /\ which \in [Threads -> Runtimes \cup {None}]

\* Somebody is going to tell r to stop when its parent exits: the list of a
\* parent that has let its children go is not looked at again.
Owned(r) ==
  \E p \in Runtimes : (r \in children[p] /\ ~released[p]) \/ r \in leaving[p]

\* __adopt: "A runtime that has already begun exiting exits it at once
\* instead, so nothing it makes on the way out outlives it": a child that has
\* a parent and still runs is one that its parent has yet to let go.
StoppedWithParent ==
  \A r \in Runtimes :
    stage[r] = "looping" /\ running[r] /\ home[r] # None => Owned(r)

\* __exitChildren: "so no child keeps running, and the process with it, after
\* the primordial runtime has exited and nothing is left to stop it".
NoneLeftBehind ==
  \A r \in Runtimes \ {Primordial} :
    stage[r] = "looping" /\ running[r] => Owned(r)

\* exit() takes the runtime out of its parent's list, so a long-lived parent
\* does not keep every child that ever exited: one that has ended is in it
\* only while whoever told it to stop is still inside exit().
NoExitedChildKept ==
  \A p \in Runtimes : \A r \in children[p] :
    stage[r] = "done" => \E t \in Threads : at[t] = "exit" /\ which[t] = r

\* make(): the child "exits with it, so a process whose primordial runtime
\* has exited ends": told to stop, the primordial runtime ends and every other
\* one with it, those made meanwhile included.
AllEnd ==
  ~running[Primordial] ~> \A r \in Runtimes : stage[r] \in {"unborn", "done"}
=============================================================================
