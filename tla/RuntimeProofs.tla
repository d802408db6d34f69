--------------------------- MODULE RuntimeProofs ---------------------------
(***************************************************************************)
(* Theorems about Runtime, for any number of threads, posts and bytes.     *)
(***************************************************************************)
EXTENDS Runtime, SequenceTheorems, TLAPS

ExitPoints == {"fin", "exitEvent", "drain", "release", "done"}

\* The queue's flag says whether it is empty, and the loop's last certain
\* look at it never claims more than there is.
FlagInv ==
  /\ hasPosted <=> posted # <<>>
  /\ seen => hasPosted

\* A batch is in hand only while __runPosted runs it.
BatchInv == pc \notin {"batch", "callback"} => batch = <<>>

\* Once posts are refused the queue cannot grow, and the last batch empties
\* it.
Closing ==
  \/ pc \in {"drain", "release", "done"}
  \/ pc \in {"batch", "callback"} /\ ret = "release"

CloseInv ==
  /\ postClosed <=> Closing
  /\ pc = "drain" => seen = hasPosted
  /\ Closing /\ pc # "drain" => posted = <<>>

\* The lock: asleep with nothing posted, or a release is there to be taken.
SleepInv ==
  /\ sleeping => pc \in {"waiting", "woke"}
  /\ pc = "waiting" /\ sleeping =>
       /\ ~hasPosted
       /\ credits <= 1
       /\ running \/ \E a \in Agents : call[a] = "wake"
  /\ pc = "waiting" /\ ~sleeping => credits \in 1..2
  /\ pc = "woke" => credits <= 1
  /\ pc = "woke" /\ sleeping => credits = 0
  /\ pc \notin {"waiting", "woke"} => credits <= 1

\* The wake socket: something posted has a byte waiting or on its way, unless
\* the loop has seen it and looks before it polls again.
PollInv ==
  /\ wakeSocket = "open" /\ hasPosted /\ pc \notin ExitPoints =>
       \/ bytes > 0
       \/ \E a \in Agents : call[a] = "poke"
       \/ seen /\ pc \in {"init", "loop", "timers", "tick", "polled"}
  /\ wakeSocket = "open" /\ pc = "polling" /\ ~running =>
       bytes > 0 \/ \E a \in Agents : call[a] # "idle"

IInv == TypeOK /\ FlagInv /\ FifoOnce /\ BatchInv /\ CloseInv /\ SleepInv /\ PollInv

-----------------------------------------------------------------------------
(* Facts about sequences.                                                  *)

\* What post() adds to the queue is added to everything taken so far.
LEMMA AppendAssociates ==
  ASSUME NEW s \in Seq(Nat), NEW t \in Seq(Nat), NEW x \in Nat
  PROVE  s \o Append(t, x) = Append(s \o t, x)
  OBVIOUS

\* An empty queue adds nothing to what is in hand.
LEMMA EmptyRight ==
  ASSUME NEW s \in Seq(Nat)
  PROVE  s \o <<>> = s
  BY ConcatEmptySeq

\* With nothing in hand, what is left is the queue.
LEMMA EmptyLeft ==
  ASSUME NEW s \in Seq(Nat)
  PROVE  <<>> \o s = s
  BY ConcatEmptySeq

\* The queue that __runPosted leaves behind is a queue.
LEMMA EmptyIsSeq == <<>> \in Seq(Nat)
  OBVIOUS

\* Running the first callback of a batch moves it from the batch to what has
\* run, and changes neither's order.
LEMMA HeadMoves ==
  ASSUME NEW r \in Seq(Nat), NEW b \in Seq(Nat), b # <<>>
  PROVE  /\ Head(b) \in Nat
         /\ Tail(b) \in Seq(Nat)
         /\ Append(r, Head(b)) \o Tail(b) = r \o b
  BY SMTT(20)

-----------------------------------------------------------------------------
(* Every action keeps the invariant.                                       *)

USE DEF runVars, queueVars, wakeVars, loopVars, vars, Agents, HandlerPoints,
        ReturnPoints, LoopPoints, ExitPoints, Closing, At, GoTo, Step,
        MayCall, ReadHasPosted, ReleaseIfAsleep, AfterPost, BytesAfterWake,
        MustStayAwake

\* The steps around a frame keep the invariant: none takes the lock.
LEMMA FrameStepsKeep ==
  ASSUME IInv,
         \/ CallbackDone \/ BatchDone \/ InitDispatched \/ LoopTop
         \/ AdvanceTimers \/ TickDone \/ SocketsDone \/ WaitOver
         \/ ArmWakeSocket
  PROVE  IInv'
<1>. USE DEF IInv, TypeOK, FlagInv, FifoOnce, BatchInv, CloseInv, SleepInv, PollInv
<1>1. CASE CallbackDone
  BY <1>1, RuntimeAssumption DEF CallbackDone
<1>2. CASE BatchDone
  BY <1>2, RuntimeAssumption DEF BatchDone
<1>3. CASE InitDispatched
  BY <1>3, RuntimeAssumption DEF InitDispatched
<1>4. CASE LoopTop
  BY <1>4, RuntimeAssumption DEF LoopTop
<1>5. CASE AdvanceTimers
  BY <1>5, RuntimeAssumption DEF AdvanceTimers
<1>6. CASE TickDone
  BY <1>6, RuntimeAssumption DEF TickDone
<1>7. CASE SocketsDone
  BY <1>7, RuntimeAssumption DEF SocketsDone
<1>8. CASE WaitOver
  BY <1>8, RuntimeAssumption DEF WaitOver
<1>9. CASE ArmWakeSocket
  BY <1>9, RuntimeAssumption DEF ArmWakeSocket
<1>. QED
  BY <1>1, <1>2, <1>3, <1>4, <1>5, <1>6, <1>7, <1>8, <1>9, Zenon

\* The wait in poll: a byte that is read is followed by a look at the queue.
LEMMA PollStepsKeep ==
  ASSUME IInv, PollFirst \/ PollNone \/ PollAgain \/ PollOver \/ PollWoken \/ PollTimeout
  PROVE  IInv'
<1>. USE DEF IInv, TypeOK, FlagInv, FifoOnce, BatchInv, CloseInv, SleepInv, PollInv
<1>1. CASE PollFirst
  BY <1>1, RuntimeAssumption DEF PollFirst
<1>2. CASE PollNone
  BY <1>2, RuntimeAssumption DEF PollNone
<1>3. CASE PollAgain
  BY <1>3, RuntimeAssumption DEF PollAgain
<1>4. CASE PollOver
  BY <1>4, RuntimeAssumption DEF PollOver
<1>5. CASE PollWoken
  BY <1>5, RuntimeAssumption DEF PollWoken
<1>6. CASE PollTimeout
  BY <1>6, RuntimeAssumption DEF PollTimeout
<1>. QED
  BY <1>1, <1>2, <1>3, <1>4, <1>5, <1>6, Zenon

\* The wait on the lock: the loop looks at the queue again under the lock
\* before it sleeps, and no release is left over but one.
LEMMA SleepStepsKeep ==
  ASSUME IInv,
         \/ WaitSleeps \/ ShortSleep \/ FallAsleep \/ StayAwake
         \/ WaitWoken \/ WaitTimeout \/ WakeUp
  PROVE  IInv'
<1>. USE DEF IInv, TypeOK, FlagInv, FifoOnce, BatchInv, CloseInv, SleepInv, PollInv
<1>1. CASE WaitSleeps
  BY <1>1, RuntimeAssumption DEF WaitSleeps, SkipPosted
<1>2. CASE ShortSleep
  BY <1>2, RuntimeAssumption DEF ShortSleep
<1>3. CASE FallAsleep
  BY <1>3, RuntimeAssumption DEF FallAsleep
<1>4. CASE StayAwake
  BY <1>4, RuntimeAssumption DEF StayAwake
<1>5. CASE WaitWoken
  BY <1>5, RuntimeAssumption DEF WaitWoken
<1>6. CASE WaitTimeout
  BY <1>6, RuntimeAssumption DEF WaitTimeout
<1>7. CASE WakeUp
  BY <1>7, RuntimeAssumption, Zenon DEF WakeUp
<1>. QED
  BY <1>1, <1>2, <1>3, <1>4, <1>5, <1>6, <1>7, Zenon

\* The steps of __finalizeExit that run no callback: posts are refused
\* before the last look at the queue.
LEMMA ExitStepsKeep ==
  ASSUME IInv, ClosePosts \/ ReleaseAll \/ Visible
  PROVE  IInv'
<1>. USE DEF IInv, TypeOK, FlagInv, FifoOnce, BatchInv, CloseInv, SleepInv, PollInv
<1>1. CASE ClosePosts
  BY <1>1, RuntimeAssumption DEF ClosePosts
<1>2. CASE ReleaseAll
  BY <1>2, RuntimeAssumption DEF ReleaseAll
<1>3. CASE Visible
  BY <1>3, RuntimeAssumption DEF Visible
<1>. QED
  BY <1>1, <1>2, <1>3, Zenon

\* __runPosted, wherever the loop calls it from: the batch it takes is the
\* whole queue.
LEMMA RunPostedKeeps ==
  ASSUME IInv,
         NEW p \in {"tick", "sockets", "polled", "wait", "fin", "drain"},
         NEW r \in ReturnPoints,
         r = "release" <=> p = "drain",
         RunPosted(p, r)
  PROVE  IInv'
<1>. USE DEF IInv, RunPosted, TakeBatch
<1>1. TypeOK'
  BY EmptyIsSeq, Zenon DEF TypeOK
<1>2. FlagInv'
  BY DEF FlagInv
<1>3. FifoOnce'
  <2>1. batch = <<>>
    BY DEF BatchInv
  <2>2. ran \o batch \o posted = ran \o posted
    BY <2>1, EmptyRight DEF TypeOK
  <2>3. (ran \o posted) \o <<>> = ran \o posted
    BY EmptyRight, ConcatProperties DEF TypeOK
  <2>. QED
    BY <2>2, <2>3 DEF FifoOnce
<1>4. BatchInv'
  BY DEF BatchInv
<1>5. CloseInv'
  BY DEF CloseInv
<1>6. SleepInv'
  BY DEF SleepInv, TypeOK
<1>7. PollInv'
  BY DEF PollInv
<1>. QED
  BY <1>1, <1>2, <1>3, <1>4, <1>5, <1>6, <1>7

\* The reads of __hasPosted that answer false.  The loop then goes on to
\* finish only if the queue really is empty: it closed the queue first.
LEMMA SkipPostedKeeps ==
  ASSUME IInv,
         \/ SkipPosted("tick", "work")
         \/ SkipPosted("polled", "pollAgain")
         \/ SkipPosted("fin", "exitEvent")
         \/ SkipPosted("drain", "release")
  PROVE  IInv'
<1>. USE DEF IInv, TypeOK, FlagInv, FifoOnce, BatchInv, CloseInv, SleepInv,
             PollInv, SkipPosted
<1>1. CASE SkipPosted("tick", "work")
  BY <1>1, Zenon
<1>2. CASE SkipPosted("polled", "pollAgain")
  BY <1>2, Zenon
<1>3. CASE SkipPosted("fin", "exitEvent")
  BY <1>3
<1>4. CASE SkipPosted("drain", "release")
  BY <1>4, Zenon
<1>. QED
  BY <1>1, <1>2, <1>3, <1>4, Zenon

\* One callback of __runPosted's batch.
LEMMA RunCallbackKeeps ==
  ASSUME IInv, RunCallback
  PROVE  IInv'
<1>. USE DEF IInv, RunCallback
<1>1. /\ Head(batch) \in Nat
      /\ Tail(batch) \in Seq(Nat)
      /\ Append(ran, Head(batch)) \o Tail(batch) = ran \o batch
  BY HeadMoves, Zenon DEF TypeOK
<1>2. TypeOK'
  BY <1>1 DEF TypeOK
<1>3. FifoOnce'
  BY <1>1, SMTT(20) DEF FifoOnce
<1>4. FlagInv' /\ BatchInv' /\ CloseInv' /\ SleepInv' /\ PollInv'
  BY DEF FlagInv, BatchInv, CloseInv, SleepInv, PollInv, TypeOK
<1>. QED
  BY <1>2, <1>3, <1>4

\* post() on a runtime that takes it: the queue grows at its end, and a loop
\* asleep on an empty queue has its release.
LEMMA PostKeeps ==
  ASSUME IInv, NEW a \in Agents, Post(a)
  PROVE  IInv'
<1>. USE DEF IInv, Post, ReleaseWakeLock
<1>1. Len(accepted) + 1 \in Nat
  BY DEF TypeOK
<1>2. posted' # <<>> /\ posted' \in Seq(Nat) /\ accepted' \in Seq(Nat)
  <2>1. posted \in Seq(Nat) /\ accepted \in Seq(Nat)
    BY DEF TypeOK
  <2>2. /\ posted' = Append(posted, Len(accepted) + 1)
        /\ accepted' = Append(accepted, Len(accepted) + 1)
    OBVIOUS
  <2>. HIDE DEF IInv, Post
  <2>. QED
    BY <1>1, <2>1, <2>2, AppendProperties
<1>3. TypeOK'
  <2>1. hasPosted' \in BOOLEAN
    BY Zenon
  <2>2. sleeping' = sleeping \/ sleeping' = FALSE
    BY Zenon
  <2>3. sleeping' \in BOOLEAN
    BY <2>2, Zenon DEF TypeOK
  <2>4. credits' \in Nat
    BY DEF TypeOK
  <2>5. call' \in [Agents -> {"idle", "poke", "wake"}]
    BY DEF TypeOK
  <2>. QED
    BY <1>2, <2>1, <2>3, <2>4, <2>5 DEF TypeOK
<1>4. FlagInv'
  BY <1>2 DEF FlagInv
<1>5. FifoOnce'
  <2>1. ran \o batch \in Seq(Nat)
    BY ConcatProperties DEF TypeOK
  <2>2. (ran \o batch) \o posted' = Append((ran \o batch) \o posted, Len(accepted) + 1)
    BY <1>1, <2>1, AppendAssociates, Zenon DEF TypeOK
  <2>. QED
    BY <2>2, SMTT(20) DEF FifoOnce
<1>6. BatchInv' /\ CloseInv'
  BY Zenon DEF BatchInv, CloseInv
<1>7. SleepInv'
  BY DEF SleepInv, TypeOK, FlagInv
<1>8. PollInv'
  BY DEF PollInv, TypeOK, FlagInv
<1>. QED
  BY <1>3, <1>4, <1>5, <1>6, <1>7, <1>8

\* WakeSocket.wake(): whether or not the byte fits, one is there to be read.
LEMMA PokeKeeps ==
  ASSUME IInv, NEW a \in Agents, Poke(a)
  PROVE  IInv'
<1>. USE DEF IInv, Poke
<1>1. TypeOK'
  BY RuntimeAssumption DEF TypeOK
<1>2. FlagInv' /\ FifoOnce' /\ BatchInv' /\ CloseInv' /\ SleepInv'
  BY DEF FlagInv, FifoOnce, BatchInv, CloseInv, SleepInv, TypeOK
<1>3. wakeSocket = "open" => bytes' > 0
  BY RuntimeAssumption DEF TypeOK
<1>4. PollInv'
  BY <1>3 DEF PollInv, TypeOK
<1>. QED
  BY <1>1, <1>2, <1>4

\* exit()'s stop flag, with the caller's __wake() still to come.
LEMMA ExitKeeps ==
  ASSUME IInv, NEW a \in Agents, Exit(a)
  PROVE  IInv'
<1>. USE DEF IInv, Exit
<1>1. TypeOK'
  <2>1. running' \in BOOLEAN
    BY Zenon
  <2>2. call' \in [Agents -> {"idle", "poke", "wake"}]
    BY DEF TypeOK
  <2>. QED
    BY <2>1, <2>2 DEF TypeOK
<1>2. FlagInv' /\ FifoOnce' /\ BatchInv' /\ CloseInv'
  BY DEF FlagInv, FifoOnce, BatchInv, CloseInv
<1>3. SleepInv'
  BY DEF SleepInv, TypeOK
<1>4. PollInv'
  BY DEF PollInv, TypeOK
<1>. QED
  BY <1>1, <1>2, <1>3, <1>4

\* __wake()'s section under the lock: a loop asleep is released once.
LEMMA WakeKeeps ==
  ASSUME IInv, NEW a \in Agents, Wake(a)
  PROVE  IInv'
<1>. USE DEF IInv, Wake, ReleaseWakeLock
<1>1. TypeOK'
  <2>1. sleeping' \in BOOLEAN
    BY Zenon DEF TypeOK
  <2>2. credits' \in Nat
    BY DEF TypeOK
  <2>3. call' \in [Agents -> {"idle", "poke", "wake"}]
    BY DEF TypeOK
  <2>. QED
    BY <2>1, <2>2, <2>3 DEF TypeOK
<1>2. FlagInv' /\ FifoOnce' /\ BatchInv' /\ CloseInv'
  BY DEF FlagInv, FifoOnce, BatchInv, CloseInv
<1>3. SleepInv'
  BY DEF SleepInv, TypeOK
<1>4. PollInv'
  BY DEF PollInv, TypeOK
<1>. QED
  BY <1>1, <1>2, <1>3, <1>4

-----------------------------------------------------------------------------
\* A runtime that has just been made.
LEMMA InitEstablishes == Init => IInv
<1>. SUFFICES ASSUME Init PROVE IInv
  OBVIOUS
<1>1. <<>> = <<>> \o <<>> \o <<>>
  BY EmptyLeft
<1>2. /\ {running, hasPosted, postClosed, sleeping, seen} \subseteq BOOLEAN
      /\ call \in [Agents -> {"idle", "poke", "wake"}]
  BY Zenon DEF Init
<1>3. TypeOK
  BY <1>2, EmptyIsSeq, RuntimeAssumption DEF Init, TypeOK
<1>4. FifoOnce
  BY <1>1 DEF Init, FifoOnce
<1>. QED
  BY <1>3, <1>4
  DEF Init, IInv, FlagInv, BatchInv, CloseInv, SleepInv, PollInv

\* Every step of every thread keeps the invariant.
LEMMA NextKeeps == IInv /\ [Next]_vars => IInv'
<1>. SUFFICES ASSUME IInv, [Next]_vars PROVE IInv'
  OBVIOUS
<1>1. CASE \E a \in Agents : Post(a) \/ PostRefused(a) \/ Exit(a) \/ CallStep(a)
  <2>1. PICK a \in Agents : Post(a) \/ PostRefused(a) \/ Exit(a) \/ CallStep(a)
    BY <1>1
  <2>2. CASE PostRefused(a)
    BY <2>2 DEF PostRefused, IInv, TypeOK, FlagInv, FifoOnce, BatchInv,
                CloseInv, SleepInv, PollInv
  <2>. QED
    BY <2>1, <2>2, PostKeeps, ExitKeeps, PokeKeeps, WakeKeeps DEF CallStep
<1>2. CASE LoopStep
  <2>1. ASSUME \/ CallbackDone \/ BatchDone \/ InitDispatched \/ LoopTop
               \/ AdvanceTimers \/ TickDone \/ SocketsDone \/ WaitOver
               \/ ArmWakeSocket
        PROVE  IInv'
    BY <2>1, FrameStepsKeep
  <2>2. ASSUME \/ PollFirst \/ PollNone \/ PollAgain \/ PollOver \/ PollWoken
        PROVE  IInv'
    BY <2>2, PollStepsKeep
  <2>3. ASSUME \/ WaitSleeps \/ ShortSleep \/ FallAsleep \/ StayAwake
               \/ WaitWoken \/ WakeUp
        PROVE  IInv'
    BY <2>3, SleepStepsKeep
  <2>4. ASSUME DispatchTick \/ PollHandled \/ FinalizeExit \/ DrainPosted
        PROVE  IInv'
    BY <2>4, RunPostedKeeps, SkipPostedKeeps
    DEF DispatchTick, PollHandled, FinalizeExit, DrainPosted, RunPostedIfAny
  <2>5. ASSUME SocketsAgain \/ WaitRunsPosted
        PROVE  IInv'
    BY <2>5, RunPostedKeeps DEF SocketsAgain, WaitRunsPosted
  <2>6. ASSUME ClosePosts \/ ReleaseAll
        PROVE  IInv'
    BY <2>6, ExitStepsKeep
  <2>. QED
    BY <1>2, <2>1, <2>2, <2>3, <2>4, <2>5, <2>6, RunCallbackKeeps DEF LoopStep
<1>3. CASE Timeout
  BY <1>3, PollStepsKeep, SleepStepsKeep DEF Timeout
<1>4. CASE Visible
  BY <1>4, ExitStepsKeep
<1>5. CASE UNCHANGED vars
  BY <1>5 DEF IInv, TypeOK, FlagInv, FifoOnce, BatchInv, CloseInv, SleepInv, PollInv
<1>. QED
  BY <1>1, <1>2, <1>3, <1>4, <1>5 DEF Next

\* The queue, the lock and the wake socket of a runtime keep the invariant
\* IInv, which is what the properties below are read off.
THEOREM Invariance == Spec => []IInv
  BY InitEstablishes, NextKeeps, PTL DEF Spec

\* TypeOK: the state keeps its types, whatever the threads do.
THEOREM TypeCorrect == Spec => []TypeOK
<1>1. IInv => TypeOK
  BY DEF IInv
<1>. QED
  BY <1>1, Invariance, PTL

\* FifoOnce: what post() took runs once, in the order it was taken.
THEOREM CallbacksRunInOrder == Spec => []FifoOnce
<1>1. IInv => FifoOnce
  BY DEF IInv
<1>. QED
  BY <1>1, Invariance, PTL

\* NoLostWake: neither a post nor an exit can be missed by a loop that is
\* going to sleep or to poll.
THEOREM WakesAreNotLost == Spec => []NoLostWake
<1>1. IInv => NoLostWake
  BY DEF IInv, TypeOK, SleepInv, PollInv, NoLostWake
<1>. QED
  BY <1>1, Invariance, PTL

\* NothingStranded: a runtime that has exited has run all it took.
THEOREM TakenMeansRun == Spec => []NothingStranded
<1>1. ASSUME IInv, pc = "done" PROVE ran = accepted
  <2>1. batch = <<>> /\ posted = <<>>
    BY <1>1 DEF IInv, BatchInv, CloseInv
  <2>2. ran \o <<>> \o <<>> = ran
    BY <1>1, EmptyRight DEF IInv, TypeOK
  <2>. QED
    BY <1>1, <2>1, <2>2 DEF IInv, FifoOnce
<1>2. IInv => NothingStranded
  BY <1>1 DEF NothingStranded
<1>. QED
  BY <1>2, Invariance, PTL

\* WakeCreditsBounded: releases of the wake lock do not pile up.
THEOREM CreditsAreBounded == Spec => []WakeCreditsBounded
<1>1. IInv => WakeCreditsBounded
  BY DEF IInv, TypeOK, SleepInv, WakeCreditsBounded
<1>. QED
  BY <1>1, Invariance, PTL
-----------------------------------------------------------------------------
(* The runtime's queue implements PostQueue.                               *)

\* The first of what is in hand is the first of all that is left to run.
LEMMA HeadOfConcat ==
  ASSUME NEW s \in Seq(Nat), NEW t \in Seq(Nat), s # <<>>
  PROVE  /\ s \o t # <<>>
         /\ Head(s \o t) = Head(s)
         /\ Tail(s \o t) = Tail(s) \o t
  OBVIOUS

\* post() takes a callback as PostQueue does: the next number, at the end.
LEMMA PostIsTake ==
  ASSUME IInv, NEW a \in Agents, Post(a)
  PROVE  PQ!Take
<1>. USE DEF IInv, Post
<1>1. ran \in Seq(Nat) /\ batch \in Seq(Nat) /\ posted \in Seq(Nat)
  BY DEF TypeOK
<1>2. /\ ran \o batch \in Seq(Nat)
      /\ Len(ran \o batch) = Len(ran) + Len(batch)
      /\ Len(batch \o posted) = Len(batch) + Len(posted)
  BY <1>1, ConcatProperties
<1>3. Len(accepted) = Len(ran) + Len(batch \o posted)
  BY <1>1, <1>2, ConcatProperties DEF FifoOnce
<1>4. Len(accepted) + 1 \in Nat
  BY DEF TypeOK
<1>5. batch \o posted' = Append(batch \o posted, Len(accepted) + 1)
  BY <1>1, <1>4, AppendAssociates, SMTT(20)
<1>. QED
  BY <1>3, <1>5, SMTT(20) DEF PQ!Take, PQ!Taken

\* The loop runs the callback PostQueue would: the oldest one left.
LEMMA RunCallbackIsRun ==
  ASSUME IInv, RunCallback
  PROVE  PQ!Run
<1>1. batch \in Seq(Nat) /\ posted \in Seq(Nat) /\ batch # <<>>
  BY DEF IInv, TypeOK, RunCallback
<1>2. /\ batch \o posted # <<>>
      /\ Head(batch \o posted) = Head(batch)
      /\ Tail(batch \o posted) = Tail(batch) \o posted
  BY <1>1, HeadOfConcat
<1>. QED
  BY <1>2 DEF RunCallback, PQ!Run

\* Taking a batch moves callbacks from the queue into hand, which PostQueue
\* cannot see: there was nothing in hand.
LEMMA RunPostedStutters ==
  ASSUME IInv,
         NEW p \in {"tick", "sockets", "polled", "wait", "fin", "drain"},
         NEW r, RunPosted(p, r)
  PROVE  UNCHANGED PQ!pqVars
<1>1. batch = <<>>
  BY DEF IInv, BatchInv, RunPosted
<1>2. posted \o <<>> = <<>> \o posted
  BY EmptyLeft, EmptyRight DEF IInv, TypeOK
<1>. QED
  BY <1>1, <1>2 DEF RunPosted, TakeBatch, PQ!pqVars

\* Every step is a step of PostQueue, or one it cannot see.
LEMMA NextImplements == IInv /\ [Next]_vars => [PQ!PQNext]_(PQ!pqVars)
<1>. SUFFICES ASSUME IInv, [Next]_vars PROVE [PQ!PQNext]_(PQ!pqVars)
  OBVIOUS
<1>. USE DEF PQ!PQNext, PQ!pqVars
<1>1. CASE \E a \in Agents : Post(a) \/ PostRefused(a) \/ Exit(a) \/ CallStep(a)
  BY <1>1, PostIsTake DEF PostRefused, Exit, CallStep, Poke, Wake
<1>2. CASE LoopStep
  <2>1. CASE RunCallback
    BY <2>1, RunCallbackIsRun
  <2>2. CASE DispatchTick \/ PollHandled \/ FinalizeExit \/ DrainPosted
             \/ SocketsAgain \/ WaitRunsPosted
    BY <2>2, RunPostedStutters, Zenon
    DEF DispatchTick, PollHandled, FinalizeExit, DrainPosted, SocketsAgain,
        WaitRunsPosted, RunPostedIfAny, SkipPosted
  <2>3. CASE ClosePosts
    BY <2>3, Zenon DEF ClosePosts, PQ!Close, IInv, CloseInv, TypeOK
  <2>4. CASE \/ CallbackDone \/ BatchDone \/ InitDispatched \/ LoopTop
             \/ AdvanceTimers \/ TickDone \/ SocketsDone \/ WaitOver
             \/ ArmWakeSocket \/ PollFirst \/ PollNone \/ PollAgain
             \/ PollOver \/ PollWoken \/ WaitSleeps \/ ShortSleep
             \/ FallAsleep \/ StayAwake \/ WaitWoken \/ WakeUp
             \/ ReleaseAll
    BY <2>4, Zenon DEF CallbackDone, BatchDone, InitDispatched, LoopTop,
                AdvanceTimers, TickDone, SocketsDone, WaitOver, ArmWakeSocket,
                PollFirst, PollNone, PollAgain, PollOver, PollWoken,
                WaitSleeps, SkipPosted, ShortSleep, FallAsleep, StayAwake,
                WaitWoken, WakeUp, ReleaseAll
  <2>. QED
    BY <1>2, <2>1, <2>2, <2>3, <2>4 DEF LoopStep
<1>3. CASE Timeout
  BY <1>3 DEF Timeout, PollTimeout, WaitTimeout
<1>4. CASE Visible
  BY <1>4 DEF Visible
<1>5. CASE UNCHANGED vars
  BY <1>5
<1>. QED
  BY <1>1, <1>2, <1>3, <1>4, <1>5 DEF Next

\* ImplementsPostQueue: with what is posted and what is in hand as the
\* pending callbacks, every step of every thread is a step of PostQueue or
\* changes nothing it can see.
THEOREM RuntimeImplementsPostQueue == Spec => ImplementsPostQueue
<1>1. Init => PQ!PQInit
  BY EmptyLeft DEF Init, PQ!PQInit
<1>. QED
  BY <1>1, NextImplements, Invariance, PTL DEF Spec, ImplementsPostQueue, PQ!PQSafety
=============================================================================
