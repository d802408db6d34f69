-------------------------- MODULE LifecycleProofs --------------------------
(***************************************************************************)
(* Proofs about Lifecycle, for any number of polling threads and of        *)
(* callbacks.                                                              *)
(***************************************************************************)
EXTENDS Lifecycle, TLAPS

Typed ==
  /\ handler \in [Signals -> {"default", "ignored", "ours"}]
  /\ dispatched \in BOOLEAN
  /\ waiting \subseteq Callbacks
  /\ running \in [Pollers -> SUBSET Callbacks]
  /\ polling \in [Pollers -> {"idle", "claim", "run"}]
  /\ registering \in [Callbacks -> {"new", "kept", "invoke"}]
  /\ ran \in [Callbacks -> Nat]

\* One thread at most has claimed the dispatch: it has what rounds, and
\* nothing waits any more.
DispatchInv ==
  /\ dispatched => waiting = {}
  /\ \A t \in Pollers : polling[t] = "run" => dispatched
  /\ \A t, u \in Pollers : (polling[t] = "run" /\ polling[u] = "run") => t = u
  /\ \A t \in Pollers : running[t] # {} => polling[t] = "run"

\* A callback is still to be run in one place, or it has been run.
PlaceInv ==
  \A c \in Callbacks :
    LET toRun == c \in waiting \/ \E t \in Pollers : c \in running[t]
    IN  /\ registering[c] \in {"new", "invoke"} => ran[c] = 0 /\ ~toRun
        /\ registering[c] = "kept" => ran[c] = IF toRun THEN 0 ELSE 1

\* A runtime told to exit, and a process that has exited by itself, leave
\* nothing to run.
ExitInv ==
  (life = "exited" \/ exiting # {}) =>
    dispatched /\ waiting = {} /\ \A t \in Pollers : running[t] = {}

OnceInv == Typed /\ DispatchInv /\ PlaceInv /\ ExitInv

-----------------------------------------------------------------------------
\* Before anything is registered or dispatched the invariant holds.
LEMMA OnceInitially == LifecycleInit => OnceInv
<1>. SUFFICES ASSUME LifecycleInit PROVE OnceInv
  OBVIOUS
<1>1. handler \in [Signals -> {"default", "ignored", "ours"}]
  <2>1. PICK h \in {"default", "ignored"} :
          handler = [s \in Signals |-> IF s = "HUP" THEN h ELSE "default"]
    BY DEF LifecycleInit
  <2>. QED
    BY <2>1
<1>2. Typed
  BY <1>1 DEF LifecycleInit, Typed
<1>3. DispatchInv /\ PlaceInv /\ ExitInv
  BY DEF LifecycleInit, DispatchInv, PlaceInv, ExitInv
<1>. QED
  BY <1>2, <1>3 DEF OnceInv

\* What neither registers nor dispatches leaves all of it alone, and none of
\* it makes the process exit by itself.
LEMMA OthersKeep ==
  ASSUME OnceInv, UNCHANGED dispatch, life' = "exited" => life = "exited",
         handler' \in [Signals -> {"default", "ignored", "ours"}]
  PROVE  OnceInv'
BY DEF OnceInv, Typed, DispatchInv, PlaceInv, ExitInv, dispatch

\* onShutdown: the callback is to be run in one place, now or by the dispatch.
LEMMA RegistrationKeeps ==
  ASSUME OnceInv, NEW c \in Callbacks, OnShutdown(c) \/ InvokeLate(c)
  PROVE  OnceInv'
<1>. USE DEF OnceInv, Typed, Alive, handlers
<1>1. CASE OnShutdown(c)
  BY <1>1 DEF OnShutdown, DispatchInv, PlaceInv, ExitInv
<1>2. CASE InvokeLate(c)
  BY <1>2 DEF InvokeLate, DispatchInv, PlaceInv, ExitInv
<1>. QED
  BY <1>1, <1>2

\* poll: one thread claims the dispatch, with every callback there is.
LEMMA PollKeeps ==
  ASSUME OnceInv, NEW t \in Pollers, PollLooks(t) \/ PollGoesOn(t)
  PROVE  OnceInv'
<1>. USE DEF OnceInv, Typed, Alive, handlers
<1>1. CASE PollLooks(t)
  BY <1>1 DEF PollLooks, DispatchInv, PlaceInv, ExitInv
<1>2. CASE PollClaims(t)
  <2>1. Typed'
    BY <1>2 DEF PollClaims
  <2>4. DispatchInv'
    <3>1. CASE dispatched
      BY <1>2, <3>1 DEF PollClaims, DispatchInv
    <3>2. CASE ~dispatched
      <4>1. /\ dispatched' /\ waiting' = {}
            /\ running' = [running EXCEPT ![t] = waiting]
            /\ polling' = [polling EXCEPT ![t] = "run"]
        BY <1>2, <3>2 DEF PollClaims
      <4>2. \A u \in Pollers : polling[u] # "run" /\ running[u] = {}
        BY <3>2 DEF DispatchInv
      <4>. QED
        BY <4>1, <4>2 DEF DispatchInv
    <3>. QED
      BY <3>1, <3>2
  <2>2. PlaceInv'
    BY <1>2 DEF PollClaims, DispatchInv, PlaceInv
  <2>3. ExitInv'
    BY <1>2 DEF PollClaims, ExitInv
  <2>. QED
    BY <2>1, <2>2, <2>3, <2>4
<1>3. ASSUME NEW c \in Callbacks, PollRuns(t, c) PROVE OnceInv'
  <2>1. Typed' /\ DispatchInv' /\ ExitInv'
    BY <1>3 DEF PollRuns, DispatchInv, ExitInv
  <2>2. PlaceInv'
    BY <1>3 DEF PollRuns, DispatchInv, PlaceInv
  <2>. QED
    BY <2>1, <2>2
<1>4. CASE PollExits(t)
  BY <1>4 DEF PollExits, DispatchInv, PlaceInv, ExitInv
<1>5. CASE LoopEnds(t)
  BY <1>5 DEF LoopEnds, DispatchInv, PlaceInv, ExitInv
<1>. QED
  BY <1>1, <1>2, <1>3, <1>4, <1>5 DEF PollGoesOn

\* Every step of the process, of its threads and of the system keeps the
\* invariant.
LEMMA OnceStep == OnceInv /\ [LifecycleNext]_lifecycleVars => OnceInv'
<1>. SUFFICES ASSUME OnceInv, [LifecycleNext]_lifecycleVars PROVE OnceInv'
  OBVIOUS
<1>0. handler \in [Signals -> {"default", "ignored", "ours"}]
  BY DEF OnceInv, Typed
<1>1. ASSUME NEW t \in Pollers,
             \/ InstallBegins(t) \/ InstallHandlers(t) \/ InstallFails(t)
             \/ StartSessionWindow(t)
      PROVE  OnceInv'
  BY <1>0, <1>1, OthersKeep
  DEF InstallBegins, InstallHandlers, InstallFails, StartSessionWindow,
      handlers, Handle
<1>2. ASSUME NEW s \in Signals, Signal(s) PROVE OnceInv'
  BY <1>0, <1>2, OthersKeep DEF Signal, handlers
<1>3. ASSUME NEW e \in ConsoleEvents, ConsoleEvent(e) PROVE OnceInv'
  BY <1>0, <1>3, OthersKeep DEF ConsoleEvent, HoldWhileShuttingDown, handlers
<1>4. ASSUME HoldGoesOn \/ HandlerReturns PROVE OnceInv'
  BY <1>0, <1>4, OthersKeep DEF HoldGoesOn, HandlerReturns, handlers
<1>5. ASSUME SessionWindowReady \/ LoadUser32 \/ SessionEnds \/ RequestShutdown
      PROVE  OnceInv'
  BY <1>0, <1>5, OthersKeep
  DEF SessionWindowReady, LoadUser32, SessionEnds, RequestShutdown, HoldWhileShuttingDown, handlers
<1>6. CASE UNCHANGED lifecycleVars
  BY <1>0, <1>6, OthersKeep DEF lifecycleVars, handlers
<1>. QED
  BY <1>1, <1>2, <1>3, <1>4, <1>5, <1>6, RegistrationKeeps, PollKeeps
  DEF LifecycleNext

\* EachCallbackOnce: no callback runs twice, and a process that exits by itself
\* has run every one that was registered in time, whichever threads poll,
\* register and are signalled meanwhile.
THEOREM CallbacksRunOnce == LifecycleSpec => []EachCallbackOnce
<1>1. OnceInv => EachCallbackOnce
  BY DEF OnceInv, Typed, PlaceInv, ExitInv, EachCallbackOnce, CallbackOnce, NoneDropped
<1>. QED
  BY <1>1, OnceInitially, OnceStep, PTL DEF LifecycleSpec
=============================================================================
