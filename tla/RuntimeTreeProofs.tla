------------------------- MODULE RuntimeTreeProofs -------------------------
(***************************************************************************)
(* Theorems about RuntimeTree, for any number of runtimes and threads.     *)
(***************************************************************************)
EXTENDS RuntimeTree, TLAPS

\* A call is about a runtime that is there; make()'s is its own until it
\* returns, and is not started before that.
CallInv ==
  /\ \A t \in Threads : at[t] \in {"adopt", "configure", "exit"} =>
       which[t] \in Runtimes /\ stage[which[t]] # "unborn"
  /\ \A t \in Threads : at[t] \in {"adopt", "configure"} =>
       stage[which[t]] = "made"
  /\ \A t \in Threads : at[t] = "adopt" => home[which[t]] \in Runtimes
  /\ \A t, u \in Threads :
       /\ at[t] \in {"adopt", "configure"}
       /\ at[u] \in {"adopt", "configure"}
       /\ which[t] = which[u]
       => t = u

\* A runtime some exit() is about has been told to stop, and nothing starts
\* it again; nor does one run that has left its loop.
StopInv ==
  /\ \A t \in Threads : at[t] = "exit" => ~running[which[t]]
  /\ \A r \in Runtimes :
       stage[r] \notin {"made", "looping"} => ~running[r]

\* The lists of children: kept by the parent the constructor found, until the
\* child is taken out or the parent lets all of them go.
ChildInv ==
  /\ \A r, p \in Runtimes : r \in children[p] \cup leaving[p] =>
       home[r] = p /\ stage[r] # "unborn"
  /\ \A r \in Runtimes : stage[r] = "unborn" => home[r] = None
  /\ \A r \in Runtimes : leaving[r] # {} => stage[r] = "telling"

\* A runtime with a parent runs only while the parent has it in hand, or is
\* about to be asked to take it.
OwnedInv ==
  \A r \in Runtimes : running[r] /\ home[r] # None =>
    \/ r \in children[home[r]] \cup leaving[home[r]]
    \/ \E t \in Threads : at[t] = "adopt" /\ which[t] = r

IInv == TypeOK /\ CallInv /\ StopInv /\ ChildInv /\ OwnedInv

USE DEF Threads, Stages, Move, MayCall

-----------------------------------------------------------------------------
\* make() up to the constructor changes nothing but where the caller is.
LEMMA MakeKeeps ==
  ASSUME IInv, NEW t \in Threads, Make(t)
  PROVE  IInv'
<1>. USE TreeAssumption DEF IInv, Make
<1>1. TypeOK'
  BY DEF TypeOK
<1>2. CallInv' /\ StopInv'
  BY DEF CallInv, StopInv, TypeOK
<1>3. ChildInv' /\ OwnedInv'
  BY DEF ChildInv, OwnedInv, TypeOK
<1>. QED
  BY <1>1, <1>2, <1>3

\* The constructor: a runtime nobody else knows of, on its way to its parent.
LEMMA ConstructKeeps ==
  ASSUME IInv, NEW t \in Threads, Construct(t)
  PROVE  IInv'
<1>. DEFINE parent == IF t \in Runtimes THEN t ELSE primordial
<1>1. PICK r \in Runtimes :
        /\ stage[r] = "unborn"
        /\ Move(t, "new", IF parent = None THEN "configure" ELSE "adopt")
        /\ stage' = [stage EXCEPT ![r] = "made"]
        /\ running' = [running EXCEPT ![r] = TRUE]
        /\ home' = [home EXCEPT ![r] = parent]
        /\ which' = [which EXCEPT ![t] = r]
        /\ UNCHANGED <<primordial, children, released, deregistered, leaving>>
  BY Zenon DEF Construct
<1>2. parent \in Runtimes \cup {None}
  BY TreeAssumption DEF IInv, TypeOK
<1>3. None \notin Runtimes
  BY TreeAssumption
<1>. HIDE DEF parent
<1>. USE DEF IInv
<1>4. TypeOK'
  BY <1>1, <1>2 DEF TypeOK
<1>5. CallInv'
  BY <1>1, <1>2, <1>3 DEF CallInv, TypeOK
<1>6. StopInv'
  BY <1>1 DEF StopInv, TypeOK, CallInv
<1>7. ChildInv'
  BY <1>1 DEF ChildInv, TypeOK
<1>8. OwnedInv'
  BY <1>1, <1>2, <1>3 DEF OwnedInv, TypeOK, CallInv, ChildInv
<1>. QED
  BY <1>4, <1>5, <1>6, <1>7, <1>8

\* __adopt: the parent takes the child, or the child is told to stop.
LEMMA AdoptKeeps ==
  ASSUME IInv, NEW t \in Threads, Adopt(t)
  PROVE  IInv'
<1>. USE DEF IInv, Adopt
<1>1. which[t] \in Runtimes /\ home[which[t]] \in Runtimes
  BY DEF CallInv
<1>2. TypeOK'
  <2>1. CASE released[home[which[t]]]
    BY <1>1, <2>1, Zenon DEF TypeOK
  <2>2. CASE ~released[home[which[t]]]
    BY <1>1, <2>2 DEF TypeOK
  <2>. QED
    BY <2>1, <2>2
<1>3. CallInv'
  BY <1>1 DEF CallInv, TypeOK
<1>4. StopInv'
  <2>1. /\ \A u \in Threads : at'[u] = "exit" => at[u] = "exit"
        /\ which' = which /\ stage' = stage
    BY DEF TypeOK
  <2>2. \A r \in Runtimes : running'[r] => running[r]
    BY <1>1 DEF TypeOK
  <2>3. \A u \in Threads : at[u] = "exit" => which[u] \in Runtimes
    BY DEF CallInv
  <2>. QED
    BY <2>1, <2>2, <2>3 DEF StopInv
<1>5. ChildInv'
  BY <1>1 DEF ChildInv, TypeOK, CallInv
<1>6. OwnedInv'
  BY <1>1 DEF OwnedInv, TypeOK, CallInv
<1>. QED
  BY <1>2, <1>3, <1>4, <1>5, <1>6

\* configure threw: the child is finished where it was made.
LEMMA ConfigureThrowsKeeps ==
  ASSUME IInv, NEW t \in Threads, ConfigureThrows(t)
  PROVE  IInv'
<1>. USE DEF IInv, ConfigureThrows, RemovedFromParent
<1>1. which[t] \in Runtimes
  BY DEF CallInv
<1>2. TypeOK'
  BY <1>1 DEF TypeOK
<1>3. CallInv'
  BY <1>1 DEF CallInv, TypeOK
<1>4. StopInv'
  BY <1>1 DEF StopInv, TypeOK, CallInv
<1>5. ChildInv'
  BY <1>1 DEF ChildInv, TypeOK, CallInv
<1>6. OwnedInv'
  BY <1>1 DEF OwnedInv, TypeOK, CallInv
<1>. QED
  BY <1>2, <1>3, <1>4, <1>5, <1>6

\* configure told the child to stop: as for any exit(), it is taken out.
LEMMA ConfigureExitsKeeps ==
  ASSUME IInv, NEW t \in Threads, ConfigureExits(t)
  PROVE  IInv'
<1>. USE DEF IInv, ConfigureExits, RemovedFromParent
<1>1. which[t] \in Runtimes
  BY DEF CallInv
<1>2. TypeOK'
  BY <1>1 DEF TypeOK
<1>3. CallInv' /\ StopInv'
  BY <1>1 DEF CallInv, StopInv, TypeOK
<1>4. ChildInv'
  BY <1>1 DEF ChildInv, TypeOK
<1>5. OwnedInv'
  BY <1>1 DEF OwnedInv, TypeOK
<1>. QED
  BY <1>2, <1>3, <1>4, <1>5

\* make() returns: the child is started, or finished if told to stop.
LEMMA StartKeeps ==
  ASSUME IInv, NEW t \in Threads, Start(t)
  PROVE  IInv'
<1>. USE DEF IInv, Start
<1>1. which[t] \in Runtimes /\ stage[which[t]] = "made"
  BY DEF CallInv
<1>2. \A r \in Runtimes : stage'[r] =
        IF r # which[t] THEN stage[r]
        ELSE IF running[r] THEN "looping" ELSE "done"
  BY <1>1 DEF TypeOK
<1>3. TypeOK'
  <2>1. released' \in [Runtimes -> BOOLEAN]
    BY <1>1, Zenon DEF TypeOK
  <2>2. stage' \in [Runtimes -> Stages]
    BY <1>1 DEF TypeOK
  <2>3. at' \in [Threads -> {"idle", "new", "adopt", "configure", "exit"}]
    BY DEF TypeOK
  <2>4. which' \in [Threads -> Runtimes \cup {None}]
    BY DEF TypeOK
  <2>. QED
    BY <2>1, <2>2, <2>3, <2>4 DEF TypeOK
<1>4. CallInv'
  BY <1>1, <1>2 DEF CallInv, TypeOK
<1>5. StopInv'
  BY <1>1, <1>2 DEF StopInv, TypeOK
<1>6. ChildInv'
  BY <1>1, <1>2 DEF ChildInv, TypeOK
<1>7. OwnedInv'
  BY <1>1 DEF OwnedInv, TypeOK
<1>. QED
  BY <1>3, <1>4, <1>5, <1>6, <1>7

\* exit() by any thread, and __exitChildren's of a child.
LEMMA ExitKeeps ==
  ASSUME IInv,
         \/ \E t \in Threads, r \in Runtimes : Exit(t, r)
         \/ \E r \in Runtimes : TellChild(r)
  PROVE  IInv'
<1>. USE DEF IInv
<1>1. ASSUME NEW t \in Threads, NEW r \in Runtimes, Exit(t, r)
      PROVE  IInv'
  <2>. USE <1>1 DEF Exit, Reachable
  <2>1. TypeOK'
    BY DEF TypeOK
  <2>2. CallInv' /\ StopInv'
    BY DEF CallInv, StopInv, TypeOK
  <2>3. ChildInv' /\ OwnedInv'
    BY DEF ChildInv, OwnedInv, TypeOK
  <2>. QED
    BY <2>1, <2>2, <2>3
<1>2. ASSUME NEW p \in Runtimes, TellChild(p)
      PROVE  IInv'
  <2>. USE <1>2 DEF TellChild
  <2>1. PICK child \in leaving[p] :
          /\ leaving' = [leaving EXCEPT ![p] = @ \ {child}]
          /\ running' = [running EXCEPT ![child] = FALSE]
          /\ which' = [which EXCEPT ![p] = child]
    BY Zenon
  <2>2. child \in Runtimes /\ stage[child] # "unborn"
    BY DEF TypeOK, ChildInv
  <2>3. TypeOK'
    BY <2>1, <2>2 DEF TypeOK
  <2>4. CallInv' /\ StopInv'
    BY <2>1, <2>2 DEF CallInv, StopInv, TypeOK
  <2>5. ChildInv'
    BY <2>1, <2>2 DEF ChildInv, TypeOK
  <2>6. OwnedInv'
    BY <2>1, <2>2 DEF OwnedInv, TypeOK
  <2>. QED
    BY <2>3, <2>4, <2>5, <2>6
<1>. QED
  BY <1>1, <1>2

\* exit()'s section under the lock: only a runtime told to stop is taken out.
LEMMA DeregisterKeeps ==
  ASSUME IInv, NEW t \in Threads, Deregister(t)
  PROVE  IInv'
<1>. USE DEF IInv, Deregister, RemovedFromParent
<1>1. which[t] \in Runtimes /\ ~running[which[t]]
  BY DEF CallInv, StopInv
<1>2. TypeOK'
  BY <1>1 DEF TypeOK
<1>3. CallInv' /\ StopInv'
  BY DEF CallInv, StopInv, TypeOK
<1>4. ChildInv'
  BY <1>1 DEF ChildInv, TypeOK
<1>5. OwnedInv'
  BY <1>1 DEF OwnedInv, TypeOK
<1>. QED
  BY <1>2, <1>3, <1>4, <1>5

\* The end of a runtime's thread: its children go from its list to the ones
\* it has still to tell.
LEMMA EndKeeps ==
  ASSUME IInv, NEW r \in Runtimes, LoopEnds(r) \/ ExitChildren(r) \/ Finish(r)
  PROVE  IInv'
<1>. USE DEF IInv
<1>1. CASE LoopEnds(r)
  <2>. USE <1>1 DEF LoopEnds
  <2>1. TypeOK' /\ CallInv' /\ StopInv'
    BY DEF TypeOK, CallInv, StopInv
  <2>2. ChildInv' /\ OwnedInv'
    BY DEF TypeOK, ChildInv, OwnedInv
  <2>. QED
    BY <2>1, <2>2
<1>2. CASE ExitChildren(r)
  <2>. USE <1>2 DEF ExitChildren
  <2>1. TypeOK' /\ CallInv' /\ StopInv'
    BY DEF TypeOK, CallInv, StopInv
  <2>2. leaving[r] = {}
    BY DEF ChildInv
  <2>3. ChildInv'
    BY <2>2 DEF TypeOK, ChildInv
  <2>4. OwnedInv'
    BY <2>2 DEF TypeOK, OwnedInv
  <2>. QED
    BY <2>1, <2>3, <2>4
<1>3. CASE Finish(r)
  <2>. USE <1>3 DEF Finish
  <2>1. TypeOK' /\ CallInv' /\ StopInv'
    BY DEF TypeOK, CallInv, StopInv
  <2>2. ChildInv' /\ OwnedInv'
    BY DEF TypeOK, ChildInv, OwnedInv
  <2>. QED
    BY <2>1, <2>2
<1>. QED
  BY <1>1, <1>2, <1>3

-----------------------------------------------------------------------------
\* The process as it starts, with the primordial runtime alone.
LEMMA InitEstablishes == Init => IInv
<1>. SUFFICES ASSUME Init PROVE IInv
  OBVIOUS
<1>1. TypeOK
  BY TreeAssumption DEF Init, TypeOK
<1>. QED
  BY <1>1, TreeAssumption, Zenon DEF Init, IInv, CallInv, StopInv, ChildInv, OwnedInv

\* Every step of every thread keeps the invariant.
LEMMA NextKeeps == IInv /\ [Next]_vars => IInv'
<1>. SUFFICES ASSUME IInv, [Next]_vars PROVE IInv'
  OBVIOUS
<1>1. CASE UNCHANGED vars
  BY <1>1 DEF vars, IInv, TypeOK, CallInv, StopInv, ChildInv, OwnedInv
<1>. QED
  BY <1>1, MakeKeeps, ConstructKeeps, AdoptKeeps, ConfigureThrowsKeeps,
     ConfigureExitsKeeps, StartKeeps, ExitKeeps, DeregisterKeeps, EndKeeps
  DEF Next, MakeStep, EndStep

\* The registry of runtimes keeps IInv.
THEOREM TreeInvariance == Spec => []IInv
  BY InitEstablishes, NextKeeps, PTL DEF Spec

\* TypeOK: the registry keeps its types.
THEOREM TreeTypeCorrect == Spec => []TypeOK
<1>1. IInv => TypeOK
  BY DEF IInv
<1>. QED
  BY <1>1, TreeInvariance, PTL

-----------------------------------------------------------------------------
(* A parent that has let its children go is given no more.                 *)

Started(r) == stage[r] \notin {"unborn", "made"}

\* make() runs on a thread that has started, and gives the child to a runtime
\* that has.
StartedInv ==
  /\ \A t \in Runtimes : at[t] # "idle" => Started(t)
  /\ \A r \in Runtimes : home[r] # None => Started(home[r])
  /\ primordial # None => Started(primordial)

ReleasedInv ==
  \A p \in Runtimes : released[p] \/ ~Started(p) => children[p] = {}

\* A runtime that has started is never one that make() has in hand.
LEMMA StartedStays ==
  ASSUME IInv, [Next]_vars, NEW r \in Runtimes, Started(r)
  PROVE  Started(r)'
<1>. USE DEF Started, IInv, TypeOK
<1>1. CASE \E t \in Threads : Construct(t)
  <2>1. PICK x \in Runtimes : stage[x] = "unborn" /\ stage' = [stage EXCEPT ![x] = "made"]
    BY <1>1, Zenon DEF Construct
  <2>. QED
    BY <2>1
<1>2. CASE \E t \in Threads : ConfigureThrows(t) \/ Start(t)
  BY <1>2 DEF ConfigureThrows, Start
<1>3. CASE \E t \in Threads : Make(t) \/ Adopt(t) \/ ConfigureExits(t) \/ Deregister(t)
  BY <1>3 DEF Make, Adopt, ConfigureExits, Deregister
<1>4. CASE \E t \in Threads, x \in Runtimes : Exit(t, x)
  BY <1>4 DEF Exit
<1>5. CASE \E x \in Runtimes : EndStep(x)
  BY <1>5 DEF EndStep, LoopEnds, ExitChildren, TellChild, Finish
<1>6. CASE UNCHANGED vars
  BY <1>6 DEF vars
<1>. QED
  BY <1>1, <1>2, <1>3, <1>4, <1>5, <1>6 DEF Next, MakeStep

\* Calls begin on threads that have started, and parents are found there.
LEMMA StartedKept ==
  ASSUME IInv, StartedInv, [Next]_vars
  PROVE  StartedInv'
<1>1. \A t \in Runtimes : at[t] = "idle" /\ at'[t] # "idle" => Started(t)
  <2>. USE DEF Started, IInv, TypeOK
  <2>1. CASE \E t \in Threads : MakeStep(t) \/ Deregister(t)
    <3>1. PICK t \in Threads, q \in {"idle", "new", "adopt", "configure", "exit"} :
            at[t] # "idle" /\ at' = [at EXCEPT ![t] = q]
      BY <2>1 DEF MakeStep, Construct, Adopt, ConfigureThrows, ConfigureExits,
                  Start, Deregister
    <3>. QED
      BY <3>1
  <2>2. CASE \E t \in Threads : Make(t)
    BY <2>2 DEF Make
  <2>3. CASE \E t \in Threads, r \in Runtimes : Exit(t, r)
    BY <2>3 DEF Exit
  <2>4. CASE \E r \in Runtimes : EndStep(r)
    BY <2>4 DEF EndStep, LoopEnds, ExitChildren, TellChild, Finish
  <2>5. CASE UNCHANGED vars
    BY <2>5 DEF vars
  <2>. QED
    BY <2>1, <2>2, <2>3, <2>4, <2>5 DEF Next
<1>2. \A r \in Runtimes : home'[r] \in {home[r], None} \/ Started(home'[r])
  <2>1. CASE \E t \in Threads : Construct(t)
    <3>1. PICK t \in Threads, r \in Runtimes :
            /\ at[t] = "new"
            /\ home' = [home EXCEPT ![r] = IF t \in Runtimes THEN t ELSE primordial]
      BY <2>1, Zenon DEF Construct
    <3>. QED
      BY <3>1 DEF StartedInv, IInv, TypeOK
  <2>2. CASE ~ \E t \in Threads : Construct(t)
    BY <2>2 DEF Next, MakeStep, Make, Adopt, ConfigureThrows, ConfigureExits,
                Start, Deregister, Exit, EndStep, LoopEnds, ExitChildren,
                TellChild, Finish, vars
  <2>. QED
    BY <2>1, <2>2
<1>3. primordial' \in {primordial, None}
  <2>1. CASE \E r \in Runtimes : EndStep(r)
    BY <2>1, Zenon DEF EndStep, LoopEnds, ExitChildren, TellChild, Finish
  <2>2. CASE ~ \E r \in Runtimes : EndStep(r)
    BY <2>2, Zenon DEF Next, MakeStep, Make, Construct, Adopt, ConfigureThrows,
                       ConfigureExits, Start, Deregister, Exit, vars
  <2>. QED
    BY <2>1, <2>2
<1>4. \A r \in Runtimes : Started(r) => Started(r)'
  BY StartedStays
<1>5. home' \in [Runtimes -> Runtimes \cup {None}] /\ primordial \in Runtimes \cup {None}
  BY NextKeeps, TreeAssumption DEF IInv, TypeOK
<1>6. \A t \in Runtimes : at'[t] # "idle" => stage'[t] \notin {"unborn", "made"}
  BY <1>1, <1>4 DEF StartedInv, Started
<1>7. \A r \in Runtimes : home'[r] # None => stage'[home'[r]] \notin {"unborn", "made"}
  BY <1>2, <1>4, <1>5 DEF StartedInv, Started
<1>8. primordial' # None => stage'[primordial'] \notin {"unborn", "made"}
  BY <1>3, <1>4, <1>5 DEF StartedInv, Started
<1>. QED
  BY <1>6, <1>7, <1>8, ZenonT(30) DEF StartedInv, Started

\* __adopt looks at the parent under the lock: a list that has been let go
\* stays empty.
LEMMA ReleasedKept ==
  ASSUME IInv, StartedInv, ReleasedInv, [Next]_vars
  PROVE  ReleasedInv'
<1>1. \A p \in Runtimes :
        /\ children'[p] \subseteq children[p]
        /\ released'[p] => released[p] \/ ~Started(p) \/ children'[p] = {}
        => (released'[p] \/ ~Started(p)' => children'[p] = {})
  BY StartedStays DEF ReleasedInv
<1>. SUFFICES ASSUME NEW p \in Runtimes
              PROVE  released'[p] \/ ~Started(p)' => children'[p] = {}
  BY DEF ReleasedInv, Started
<1>2. CASE \E t \in Threads : Adopt(t)
  <2>1. PICK t \in Threads : Adopt(t)
    BY <1>2
  <2>2. /\ which[t] \in Runtimes /\ home[which[t]] \in Runtimes
        /\ Started(home[which[t]])
    BY <2>1, TreeAssumption DEF Adopt, IInv, CallInv, StartedInv
  <2>3. CASE children'[p] = children[p]
    BY <1>1, <2>1, <2>3 DEF Adopt
  <2>4. CASE children'[p] # children[p]
    <3>1. p = home[which[t]] /\ ~released[p]
      BY <2>1, <2>2, <2>4 DEF Adopt, IInv, TypeOK
    <3>. QED
      BY <2>1, <2>2, <3>1, StartedStays DEF Adopt
  <2>. QED
    BY <2>3, <2>4
<1>3. CASE \E t \in Threads : ConfigureThrows(t) \/ Start(t)
  <2>1. PICK t \in Threads : ConfigureThrows(t) \/ Start(t)
    BY <1>3
  <2>2. which[t] \in Runtimes /\ ~Started(which[t])
    BY <2>1 DEF ConfigureThrows, Start, IInv, CallInv, Started
  <2>3. children'[p] \subseteq children[p]
    BY <2>1 DEF ConfigureThrows, Start, RemovedFromParent, IInv, TypeOK
  <2>4. released'[p] => released[p] \/ ~Started(p)
    BY <2>1, <2>2 DEF ConfigureThrows, Start, IInv, TypeOK
  <2>. QED
    BY <1>1, <2>3, <2>4
<1>4. CASE \E t \in Threads : Make(t) \/ Construct(t) \/ ConfigureExits(t) \/ Deregister(t)
  <2>1. children'[p] \subseteq children[p] /\ released' = released
    BY <1>4 DEF Make, Construct, ConfigureExits, Deregister, RemovedFromParent
  <2>. QED
    BY <1>1, <2>1
<1>5. CASE \/ \E t \in Threads, r \in Runtimes : Exit(t, r)
           \/ \E r \in Runtimes : EndStep(r)
           \/ UNCHANGED vars
  <2>1. children'[p] \subseteq children[p]
    BY <1>5 DEF Exit, EndStep, LoopEnds, ExitChildren, TellChild, Finish, vars,
                IInv, TypeOK
  <2>2. released'[p] => released[p] \/ children'[p] = {}
    BY <1>5 DEF Exit, EndStep, LoopEnds, ExitChildren, TellChild, Finish, vars,
                IInv, TypeOK
  <2>. QED
    BY <1>1, <2>1, <2>2
<1>. QED
  BY <1>2, <1>3, <1>4, <1>5, ZenonT(30) DEF Next, MakeStep

\* StoppedWithParent: however make(), exit() and the parent's own exit fall
\* between each other, a child with a parent runs on only while the parent
\* still has it to stop.
THEOREM ChildrenStopWithParents == Spec => []StoppedWithParent
<1>1. Init => StartedInv /\ ReleasedInv
  BY TreeAssumption, Zenon DEF Init, StartedInv, ReleasedInv, Started
<1>2. IInv /\ StartedInv /\ ReleasedInv /\ [Next]_vars => StartedInv' /\ ReleasedInv'
  BY StartedKept, ReleasedKept
<1>3. IInv /\ ReleasedInv => StoppedWithParent
  <2>. SUFFICES ASSUME IInv, ReleasedInv, NEW r \in Runtimes,
                       stage[r] = "looping", running[r], home[r] # None
                PROVE  Owned(r)
    BY DEF StoppedWithParent
  <2>1. home[r] \in Runtimes
    BY DEF IInv, TypeOK
  <2>2. r \in children[home[r]] \cup leaving[home[r]]
    BY DEF IInv, OwnedInv, CallInv
  <2>. QED
    BY <2>1, <2>2 DEF Owned, ReleasedInv
<1>. QED
  BY <1>1, <1>2, <1>3, TreeInvariance, PTL DEF Spec
-----------------------------------------------------------------------------
(* No thread makes a runtime that belongs to nobody, if every thread has a *)
(* runtime of its own.                                                     *)

HomeInv ==
  \A r \in Runtimes \ {Primordial} : stage[r] # "unborn" => home[r] # None

\* make() on a runtime's own thread always finds that runtime.
LEMMA HomeKept ==
  ASSUME Plain = {}, IInv, HomeInv, [Next]_vars
  PROVE  HomeInv'
<1>1. CASE \E t \in Threads : Construct(t)
  <2>1. PICK t \in Threads, r \in Runtimes :
          /\ stage' = [stage EXCEPT ![r] = "made"]
          /\ home' = [home EXCEPT ![r] = IF t \in Runtimes THEN t ELSE primordial]
    BY <1>1, Zenon DEF Construct
  <2>2. home' = [home EXCEPT ![r] = t] /\ t # None
    BY <2>1, TreeAssumption
  <2>. QED
    BY <2>1, <2>2 DEF HomeInv, IInv, TypeOK
<1>2. CASE \E t \in Threads : ConfigureThrows(t) \/ Start(t)
  <2>1. PICK t \in Threads : ConfigureThrows(t) \/ Start(t)
    BY <1>2
  <2>2. which[t] \in Runtimes /\ stage[which[t]] # "unborn" /\ home' = home
    BY <2>1 DEF IInv, CallInv, ConfigureThrows, Start
  <2>3. \A r \in Runtimes : stage'[r] # "unborn" => stage[r] # "unborn"
    BY <2>1, <2>2 DEF IInv, TypeOK, ConfigureThrows, Start
  <2>. QED
    BY <2>2, <2>3 DEF HomeInv
<1>3. CASE \E t \in Threads : Make(t) \/ Adopt(t) \/ ConfigureExits(t) \/ Deregister(t)
  BY <1>3 DEF HomeInv, Make, Adopt, ConfigureExits, Deregister
<1>4. CASE \E t \in Threads, r \in Runtimes : Exit(t, r)
  BY <1>4 DEF HomeInv, Exit
<1>5. CASE \E r \in Runtimes : EndStep(r)
  BY <1>5 DEF HomeInv, EndStep, LoopEnds, ExitChildren, TellChild, Finish,
              IInv, TypeOK
<1>6. CASE UNCHANGED vars
  BY <1>6 DEF HomeInv, vars
<1>. QED
  BY <1>1, <1>2, <1>3, <1>4, <1>5, <1>6 DEF Next, MakeStep

\* NoneLeftBehind: where make() is only called on threads that have a
\* runtime, no child runs on with nobody left to stop it.
THEOREM NobodyIsLeftBehind ==
  ASSUME Plain = {}
  PROVE  Spec => []NoneLeftBehind
<1>1. Init => HomeInv
  BY DEF Init, HomeInv
<1>2. IInv /\ HomeInv /\ [Next]_vars => HomeInv'
  BY HomeKept
<1>3. StoppedWithParent /\ HomeInv => NoneLeftBehind
  BY DEF StoppedWithParent, HomeInv, NoneLeftBehind
<1>. QED
  BY <1>1, <1>2, <1>3, TreeInvariance, ChildrenStopWithParents, PTL DEF Spec

-----------------------------------------------------------------------------
(* What a parent's list of children holds.                                 *)

KeptInv ==
  /\ \A r \in Runtimes : stage[r] = "unborn" => ~deregistered[r]
  /\ \A t \in Threads : at[t] = "adopt" =>
       /\ running[which[t]]
       /\ ~deregistered[which[t]]
       /\ \A p \in Runtimes : which[t] \notin children[p] \cup leaving[p]
  /\ \A p \in Runtimes : \A r \in children[p] :
       /\ ~deregistered[r]
       /\ running[r] \/ \E t \in Threads : at[t] = "exit" /\ which[t] = r

\* make() hands a parent a child that nobody has told to stop.
LEMMA MakeKeepsLists ==
  ASSUME IInv, KeptInv, NEW t \in Threads, Make(t) \/ MakeStep(t)
  PROVE  KeptInv'
<1>1. CASE Make(t)
  BY <1>1 DEF IInv, TypeOK, KeptInv, Make
<1>2. CASE Construct(t)
  <2>1. PICK r \in Runtimes :
          /\ stage[r] = "unborn"
          /\ at[t] = "new"
          /\ \/ at' = [at EXCEPT ![t] = "configure"]
             \/ at' = [at EXCEPT ![t] = "adopt"]
          /\ stage' = [stage EXCEPT ![r] = "made"]
          /\ running' = [running EXCEPT ![r] = TRUE]
          /\ which' = [which EXCEPT ![t] = r]
          /\ UNCHANGED <<children, deregistered, leaving>>
    BY <1>2, Zenon DEF Construct
  <2>2. \A u \in Threads : at[u] \in {"adopt", "exit"} =>
          u # t /\ at'[u] = at[u] /\ which'[u] = which[u] /\ which[u] # r
    BY <2>1 DEF IInv, TypeOK, CallInv
  <2>3. \A u \in Threads : at'[u] = "adopt" => u = t \/ at[u] = "adopt"
    BY <2>1 DEF IInv, TypeOK
  <2>4. \A p \in Runtimes : r \notin children[p] \cup leaving[p]
    BY <2>1 DEF IInv, ChildInv
  <2>. QED
    BY <2>1, <2>2, <2>3, <2>4 DEF IInv, TypeOK, KeptInv
<1>3. CASE Adopt(t)
  <2>1. which[t] \in Runtimes /\ home[which[t]] \in Runtimes
    BY <1>3 DEF IInv, CallInv, Adopt
  <2>2. CASE released[home[which[t]]]
    BY <1>3, <2>1, <2>2 DEF Adopt, IInv, TypeOK, KeptInv, CallInv
  <2>3. CASE ~released[home[which[t]]]
    <3>1. /\ \A p \in Runtimes : children'[p] =
               IF p = home[which[t]] THEN children[p] \cup {which[t]}
               ELSE children[p]
          /\ UNCHANGED <<stage, running, deregistered, leaving, which>>
      BY <1>3, <2>1, <2>3 DEF Adopt, IInv, TypeOK
    <3>2. \A u \in Threads : at'[u] = "adopt" =>
            at[u] = "adopt" /\ which[u] # which[t]
      BY <1>3 DEF Adopt, IInv, TypeOK, CallInv
    <3>3. \A u \in Threads : at[u] = "exit" => at'[u] = "exit"
      BY <1>3 DEF Adopt, IInv, TypeOK
    <3>4. running[which[t]] /\ ~deregistered[which[t]]
      BY <1>3 DEF Adopt, KeptInv
    <3>5. \A p \in Runtimes : \A r \in children'[p] :
            r \in children[p] \/ r = which[t]
      BY <3>1, Zenon
    <3>6. \A p \in Runtimes : \A r \in children'[p] :
            /\ ~deregistered[r]
            /\ running[r] \/ \E u \in Threads : at'[u] = "exit" /\ which[u] = r
      BY <3>3, <3>4, <3>5 DEF KeptInv
    <3>7. \A u \in Threads : at'[u] = "adopt" =>
            \A p \in Runtimes : which[u] \notin children'[p] \cup leaving[p]
      BY <3>2, <3>5 DEF KeptInv
    <3>. QED
      BY <3>1, <3>2, <3>6, <3>7, Zenon DEF KeptInv
  <2>. QED
    BY <2>2, <2>3
<1>4. CASE ConfigureThrows(t)
  <2>1. which[t] \in Runtimes
    BY <1>4 DEF IInv, CallInv, ConfigureThrows
  <2>. QED
    BY <1>4, <2>1 DEF ConfigureThrows, RemovedFromParent, IInv, TypeOK,
                      KeptInv, CallInv, ChildInv
<1>5. CASE Start(t)
  <2>1. which[t] \in Runtimes /\ stage[which[t]] # "unborn"
    BY <1>5 DEF IInv, CallInv, Start
  <2>2. \A r \in Runtimes : stage'[r] = "unborn" => stage[r] = "unborn"
    BY <1>5, <2>1 DEF Start, IInv, TypeOK
  <2>. QED
    BY <1>5, <2>1, <2>2 DEF Start, IInv, TypeOK, KeptInv
<1>6. CASE ConfigureExits(t)
  <2>1. which[t] \in Runtimes /\ stage[which[t]] # "unborn"
    BY <1>6 DEF IInv, CallInv, ConfigureExits
  <2>2. \A p \in Runtimes : children'[p] = children[p] \ {which[t]}
    BY <1>6, <2>1 DEF ConfigureExits, RemovedFromParent, IInv, TypeOK, KeptInv,
                      ChildInv
  <2>. QED
    BY <1>6, <2>1, <2>2 DEF ConfigureExits, IInv, TypeOK, KeptInv, CallInv
<1>. QED
  BY <1>1, <1>2, <1>3, <1>4, <1>5, <1>6 DEF MakeStep

\* exit() takes out of the list what it has told to stop.
LEMMA ExitKeepsLists ==
  ASSUME IInv, KeptInv,
         \/ \E t \in Threads, r \in Runtimes : Exit(t, r)
         \/ \E t \in Threads : Deregister(t)
         \/ \E r \in Runtimes : EndStep(r)
  PROVE  KeptInv'
<1>1. ASSUME NEW t \in Threads, NEW r \in Runtimes, Exit(t, r)
      PROVE  KeptInv'
  <2>. USE <1>1 DEF Exit, IInv, TypeOK
  <2>1. \A u \in Threads : at'[u] = "adopt" =>
          u # t /\ at[u] = "adopt" /\ which'[u] = which[u] /\ which[u] # r
    BY DEF Reachable
  <2>2. \A u \in Threads : at[u] = "exit" =>
          at'[u] = "exit" /\ which'[u] = which[u]
    OBVIOUS
  <2>3. at'[t] = "exit" /\ which'[t] = r
    OBVIOUS
  <2>4. \A x \in Runtimes : x # r => running'[x] = running[x]
    OBVIOUS
  <2>5. /\ \A u \in Threads : at[u] = "adopt" => which[u] \in Runtimes
        /\ UNCHANGED <<stage, deregistered, children, leaving>>
    BY DEF CallInv
  <2>6. \A u \in Threads : at'[u] = "adopt" =>
          running'[which'[u]] /\ ~deregistered'[which'[u]]
    BY <2>1, <2>4, <2>5 DEF KeptInv
  <2>7. \A p \in Runtimes : \A x \in children[p] :
          running'[x] \/ \E u \in Threads : at'[u] = "exit" /\ which'[u] = x
    BY <2>2, <2>3, <2>4 DEF KeptInv
  <2>. HIDE <1>1 DEF Exit, IInv, TypeOK
  <2>. QED
    BY <2>1, <2>5, <2>6, <2>7 DEF KeptInv
<1>2. ASSUME NEW t \in Threads, Deregister(t)
      PROVE  KeptInv'
  <2>1. which[t] \in Runtimes /\ ~running[which[t]] /\ stage[which[t]] # "unborn"
    BY <1>2 DEF IInv, CallInv, StopInv, Deregister
  <2>2. \A p \in Runtimes : children'[p] = children[p] \ {which[t]}
    BY <1>2, <2>1 DEF Deregister, RemovedFromParent, IInv, TypeOK, KeptInv, ChildInv
  <2>. QED
    BY <1>2, <2>1, <2>2 DEF Deregister, IInv, TypeOK, KeptInv
<1>3. ASSUME NEW r \in Runtimes, EndStep(r)
      PROVE  KeptInv'
  <2>1. CASE LoopEnds(r) \/ Finish(r)
    BY <2>1 DEF LoopEnds, Finish, IInv, TypeOK, KeptInv
  <2>2. CASE ExitChildren(r)
    BY <2>2 DEF ExitChildren, IInv, TypeOK, KeptInv
  <2>3. CASE TellChild(r)
    <3>1. PICK child \in leaving[r] :
            /\ leaving' = [leaving EXCEPT ![r] = @ \ {child}]
            /\ running' = [running EXCEPT ![child] = FALSE]
            /\ which' = [which EXCEPT ![r] = child]
      BY <2>3, Zenon DEF TellChild
    <3>2. child \in Runtimes
      BY DEF IInv, TypeOK
    <3>. QED
      BY <2>3, <3>1, <3>2 DEF TellChild, IInv, TypeOK, KeptInv
  <2>. QED
    BY <1>3, <2>1, <2>2, <2>3 DEF EndStep
<1>. QED
  BY <1>1, <1>2, <1>3

\* NoExitedChildKept: a child that has ended is in its parent's list only
\* while whoever stopped it is still inside exit().
THEOREM ExitedChildrenAreLetGo == Spec => []NoExitedChildKept
<1>1. Init => KeptInv
  BY DEF Init, KeptInv
<1>2. IInv /\ KeptInv /\ [Next]_vars => KeptInv'
  <2>1. IInv /\ KeptInv /\ UNCHANGED vars => KeptInv'
    BY DEF vars, KeptInv
  <2>. QED
    BY <2>1, MakeKeepsLists, ExitKeepsLists DEF Next
<1>3. IInv /\ KeptInv => NoExitedChildKept
  BY DEF IInv, TypeOK, StopInv, KeptInv, NoExitedChildKept
<1>. QED
  BY <1>1, <1>2, <1>3, TreeInvariance, PTL DEF Spec
=============================================================================
