------------------------------ MODULE LoopPass ------------------------------
(***************************************************************************)
(* The passes of a runtime's loop (core/CrossByte.hx) and what is held for *)
(* their ends: __queuePassFlush, __queueNextPassFlush, __flushHeld and the *)
(* loops that call it, __defaultMainLoop, __pollBasedMainLoop, __stepHost  *)
(* with its pump, and __wait; and the flush that ends __finalizeExit.      *)
(*                                                                         *)
(* A holder is a PassFlush: a socket, a session or a channel that holds    *)
(* its output.  It asks once for what it holds, and is flushed once for    *)
(* it.  Handlers (timers, listeners, posted callbacks, socket callbacks    *)
(* and the flushes themselves) ask, and may call exit().                   *)
(*                                                                         *)
(* The clock is what is left of the frame: two stands for enough to wait   *)
(* in poll (MIN_POLL_WAIT), one for less than that, zero for none.         *)
(***************************************************************************)
EXTENDS Naturals, Sequences, FiniteSets, SequencesExt

CONSTANTS
  Holders,      \* what can ask to be flushed
  Drivers,      \* the loops looked at: of "DEFAULT", "POLL" and "HOST"
  MaxFailures   \* bound: asks for this pass made from inside a flush

ASSUME LoopPassAssumption ==
  /\ Drivers \subseteq {"DEFAULT", "POLL", "HOST"}
  /\ MaxFailures \in Nat

VARIABLES
  driver,       \* __loopType, or __usesHostLoop
  loopRunning,  \* __isRunning
  hasPosted,    \* __hasPosted
  more,         \* __socketRegistry.__moreToRead
  left,         \* what is left of the frame
  polled,       \* whether this frame has looked at its sockets
  flushes,      \* __passFlushes, from __passFlushAt on
  later,        \* __laterFlushes
  flushing,     \* __flushingPass
  asked,        \* the holders that have asked and are not flushed yet
  deferred,     \* those of them that asked in a walk for the next one
  failures,     \* asks made for this pass from inside a flush, so far
  open,         \* whether the sockets are still there to send with
  pc,           \* where the thread is
  stack         \* where it goes on, innermost first

runVars == <<driver, loopRunning, hasPosted>>
frameVars == <<more, left, polled>>
flushVars == <<flushes, later, flushing, asked, deferred, failures>>
loopVars == <<runVars, frameVars, flushVars, open, pc, stack>>

\* The points at which application code runs.
HandlerPoints == {"timers", "tick", "update", "posted", "postedNow", "flush",
                  "exitEvent"}

Points == HandlerPoints \cup {"idle", "top", "ticked", "look", "blocked", "wait",
                              "asleep", "walk", "close", "done"}

LoopInit ==
  /\ driver \in Drivers
  /\ loopRunning = TRUE
  /\ hasPosted = FALSE
  /\ more = FALSE
  /\ left = 2
  /\ polled = FALSE
  /\ flushes = <<>>
  /\ later = <<>>
  /\ flushing = FALSE
  /\ asked = {}
  /\ deferred = {}
  /\ failures = 0
  /\ open = TRUE
  /\ pc = IF driver = "HOST" THEN "idle" ELSE "top"
  /\ stack = <<>>

GoTo(p, q) == pc = p /\ pc' = q

\* A move that changes nothing but where the thread is.
Step(p, q) ==
  GoTo(p, q) /\ UNCHANGED <<runVars, frameVars, flushVars, open, stack>>

-----------------------------------------------------------------------------
(* What handlers, other threads and the clock do.                          *)

\* __queuePassFlush, by a holder that has not asked yet.  One asked from
\* inside a flush (an error's handler sending elsewhere) is for this pass too.
QueuePassFlush(h) ==
  /\ pc \in HandlerPoints
  /\ h \notin asked
  /\ flushing => failures < MaxFailures
  /\ failures' = IF flushing THEN failures + 1 ELSE failures
  /\ flushes' = Append(flushes, h)
  /\ asked' = asked \cup {h}
  /\ UNCHANGED <<runVars, frameVars, later, flushing, deferred,
                 open, pc, stack>>

\* Variant of QueueNextPassFlush: the walk under way takes it in.
QueueNextPassFlushNow(h) ==
  /\ pc \in HandlerPoints
  /\ h \notin asked
  /\ flushing
  /\ flushes' = Append(flushes, h)
  /\ asked' = asked \cup {h}
  /\ deferred' = deferred \cup {h}
  /\ UNCHANGED <<runVars, frameVars, later, flushing, failures,
                 open, pc, stack>>

\* Variant of QueueNextPassFlush: not asked whether a walk is under way.
QueueNextPassFlushAnytime(h) ==
  /\ pc \in HandlerPoints
  /\ h \notin asked
  /\ later' = Append(later, h)
  /\ asked' = asked \cup {h}
  /\ deferred' = deferred \cup {h}
  /\ UNCHANGED <<runVars, frameVars, flushes, flushing, failures,
                 open, pc, stack>>

\* __queueNextPassFlush inside a walk; outside one it is __queuePassFlush.
QueueNextPassFlush(h) ==
  /\ pc \in HandlerPoints
  /\ h \notin asked
  /\ flushing
  /\ later' = Append(later, h)
  /\ asked' = asked \cup {h}
  /\ deferred' = deferred \cup {h}
  /\ UNCHANGED <<runVars, frameVars, flushes, flushing, failures,
                 open, pc, stack>>

\* exit() on a runtime that loops by itself, from any thread.
LoopExit ==
  /\ driver # "HOST"
  /\ loopRunning
  /\ loopRunning' = FALSE
  /\ UNCHANGED <<driver, hasPosted, frameVars, flushVars, open, pc, stack>>

\* exit() on a host's runtime, from a handler or between pumps: it finishes
\* here, inside whatever called it.
HostExit ==
  /\ driver = "HOST"
  /\ loopRunning
  /\ pc \in HandlerPoints \cup {"idle"}
  /\ loopRunning' = FALSE
  /\ pc' = "exitEvent"
  /\ stack' = <<pc>> \o stack
  /\ UNCHANGED <<driver, hasPosted, frameVars, flushVars, open>>

PostedElsewhere ==
  /\ ~hasPosted
  /\ hasPosted' = TRUE
  /\ UNCHANGED <<driver, loopRunning, frameVars, flushVars, open, pc, stack>>

ClockPasses ==
  /\ left > 0
  /\ left' = left - 1
  /\ UNCHANGED <<runVars, more, polled, flushVars, open, pc, stack>>

-----------------------------------------------------------------------------
(* __flushHeld.                                                            *)

\* Called at p, on to r; inside a walk, or with nothing held, it returns.
FlushHeld(p, r) ==
  /\ pc = p
  /\ IF flushing \/ flushes = <<>>
       THEN pc' = r /\ UNCHANGED <<flushing, stack>>
       ELSE pc' = "walk" /\ flushing' = TRUE /\ stack' = <<r>> \o stack
  /\ UNCHANGED <<runVars, frameVars, flushes, later, asked,
                 deferred, failures, open>>

WalkOn ==
  /\ flushes # <<>>
  /\ GoTo("walk", "flush")
  /\ flushes' = Tail(flushes)
  /\ asked' = asked \ {Head(flushes)}
  /\ deferred' = deferred \ {Head(flushes)}
  /\ UNCHANGED <<runVars, frameVars, later, flushing, failures,
                 open, stack>>

\* What the flush threw, if it did, is reported, and the walk goes on.
FlushDone == Step("flush", "walk")

\* Variant of WalkEnds: the list is emptied before it is queued.
WalkEndsEmptied ==
  /\ pc = "walk"
  /\ flushes = <<>>
  /\ later' = <<>>
  /\ flushing' = FALSE
  /\ pc' = Head(stack)
  /\ stack' = Tail(stack)
  /\ UNCHANGED <<runVars, frameVars, flushes, asked, deferred,
                 failures, open>>

\* Variant of WalkEnds: __flushingPass stays set.
WalkEndsStillFlushing ==
  /\ pc = "walk"
  /\ flushes = <<>>
  /\ flushes' = later
  /\ later' = <<>>
  /\ pc' = Head(stack)
  /\ stack' = Tail(stack)
  /\ UNCHANGED <<runVars, frameVars, flushing, asked, deferred,
                 failures, open>>

\* The walk is over: what asked for the next pass is queued for it.
WalkEnds ==
  /\ pc = "walk"
  /\ flushes = <<>>
  /\ flushes' = later
  /\ later' = <<>>
  /\ flushing' = FALSE
  /\ pc' = Head(stack)
  /\ stack' = Tail(stack)
  /\ UNCHANGED <<runVars, frameVars, asked, deferred, failures,
                 open>>

-----------------------------------------------------------------------------
(* A frame.                                                                *)

FlushesWaiting == flushes # <<>>

\* __runEventLoop's test.
Top == Step("top", IF loopRunning THEN "timers" ELSE "exitEvent")

\* A host's pump.  Once the runtime has exited it does nothing.
Pump ==
  /\ loopRunning
  /\ GoTo("idle", "timers")
  /\ left' \in 0..2
  /\ polled' = FALSE
  /\ UNCHANGED <<runVars, more, flushVars, open, stack>>

\* What was posted is run, then the tick's listeners.
DispatchTick ==
  /\ GoTo("timers", "tick")
  /\ hasPosted' = FALSE
  /\ UNCHANGED <<driver, loopRunning, frameVars, flushVars, open, stack>>

FlushTick == FlushHeld("tick", "ticked")

\* Told to stop, the frame ends here.
TickEndsFrame ==
  /\ ~loopRunning
  /\ Step("ticked", IF driver = "HOST" THEN "idle" ELSE "top")

TickDone == loopRunning /\ Step("ticked", "look")

\* A POLL loop with no socket to look at waits on the clock alone.
NoSockets ==
  /\ driver = "POLL"
  /\ loopRunning
  /\ Step("ticked", "wait")

\* Whether the sockets are looked at, and then again, in this frame.
LooksAgain ==
  IF ~polled
    THEN loopRunning \/ driver # "POLL"
    ELSE loopRunning /\ \/ driver = "POLL" /\ left = 2
                        \/ (more \/ FlushesWaiting) /\ left > 0

\* Whether that look may wait for a socket to be ready.
MayBlock ==
  \/ driver = "POLL" /\ left = 2 /\ ~FlushesWaiting
  \/ driver = "HOST" /\ ~polled

Look ==
  /\ LooksAgain
  /\ pc = "look"
  /\ \/ pc' = "update"
     \/ MayBlock /\ pc' = "blocked"
  /\ more' = FALSE
  /\ UNCHANGED <<runVars, left, polled, flushVars, open, stack>>

LookedEnough ==
  /\ ~LooksAgain
  /\ Step("look", IF driver = "HOST" THEN "idle" ELSE "wait")

\* Ready, woken or out of time.
Unblocked == Step("blocked", "update")

\* A socket stops with its share of the pass taken and more to read.
LeavesMore ==
  /\ pc = "update"
  /\ ~more
  /\ more' = TRUE
  /\ UNCHANGED <<runVars, left, polled, flushVars, open, pc, stack>>

\* What was posted runs after a look too, but for a DEFAULT loop's first and
\* a host's.
RunsPostedAfterLook == driver = "POLL" \/ (driver = "DEFAULT" /\ polled)

Updated ==
  /\ pc = "update"
  /\ pc' = "posted"
  /\ polled' = TRUE
  /\ hasPosted' = (hasPosted /\ ~RunsPostedAfterLook)
  /\ UNCHANGED <<driver, loopRunning, more, left, flushVars, open, stack>>

PassDone == FlushHeld("posted", "look")

\* __wait: to the deadline, ...
WaitOver ==
  /\ ~loopRunning \/ left = 0
  /\ GoTo("wait", "top")
  /\ left' \in 0..2
  /\ polled' = FALSE
  /\ UNCHANGED <<runVars, more, flushVars, open, stack>>

\* ... with what is posted run, and what it asked to send sent, ...
WaitRunsPosted ==
  /\ loopRunning
  /\ left > 0
  /\ hasPosted
  /\ GoTo("wait", "postedNow")
  /\ hasPosted' = FALSE
  /\ UNCHANGED <<driver, loopRunning, frameVars, flushVars, open, stack>>

RunPostedNow == FlushHeld("postedNow", "wait")

\* ... and asleep in between.
WaitSleeps ==
  /\ loopRunning
  /\ left > 0
  /\ ~hasPosted
  /\ Step("wait", "asleep")

WokenUp == Step("asleep", "wait")

-----------------------------------------------------------------------------
(* __finalizeExit: EXIT's listeners, what is held, then the sockets.       *)

FinalFlush == FlushHeld("exitEvent", "close")

Close ==
  /\ pc = "close"
  /\ open' = FALSE
  /\ pc' = IF stack = <<>> THEN "done" ELSE Head(stack)
  /\ stack' = IF stack = <<>> THEN stack ELSE Tail(stack)
  /\ UNCHANGED <<runVars, frameVars, flushVars>>

LoopStep ==
  \/ WalkOn \/ FlushDone \/ WalkEnds
  \/ Top \/ DispatchTick \/ FlushTick \/ TickEndsFrame \/ TickDone
  \/ NoSockets \/ Look \/ LookedEnough \/ Unblocked \/ Updated \/ PassDone
  \/ WaitOver \/ WaitRunsPosted \/ RunPostedNow \/ WaitSleeps \/ WokenUp
  \/ FinalFlush \/ Close

LoopNext ==
  \/ LoopStep
  \/ \E h \in Holders : QueuePassFlush(h) \/ QueueNextPassFlush(h)
  \/ LoopExit \/ HostExit \/ Pump
  \/ PostedElsewhere \/ ClockPasses \/ LeavesMore

LoopSpec == LoopInit /\ [][LoopNext]_loopVars

-----------------------------------------------------------------------------
(* Properties.                                                             *)

\* The lists hold holders, the later one only in a walk, and the thread is at
\* one of its points.
LoopTypeOK ==
  /\ driver \in Drivers
  /\ {loopRunning, hasPosted, more, polled, flushing, open} \subseteq BOOLEAN
  /\ left \in 0..2
  /\ flushes \in Seq(Holders)
  /\ later \in Seq(Holders)
  /\ later # <<>> => flushing
  /\ asked \subseteq Holders
  /\ deferred \subseteq asked
  /\ failures \in 0..MaxFailures
  /\ pc \in Points
  /\ stack \in Seq(Points)

\* __queuePassFlush: "so what a handler sends in answer to what just arrived
\* goes out before the loop waits": a loop that is blocked or asleep holds
\* nothing but what asked for the next pass from inside a flush.
SentBeforeWaiting ==
  pc \in {"blocked", "asleep"} => Range(flushes) \subseteq deferred

\* "Not blocking while a flush waits for its turn: it is work in hand": a
\* POLL loop does not wait in poll with anything held.
NoFlushWaitsInPoll == driver = "POLL" /\ pc = "blocked" => ~FlushesWaiting

\* __finalizeExit: "Whatever the last pass, or an exit handler, left held
\* goes out while the sockets are still there to send it", on a runtime that
\* loops by itself, whose exit comes between frames.
LoopSendsBeforeClosing ==
  [][open /\ ~open' /\ driver # "HOST" => Range(flushes) \subseteq deferred]_loopVars

\* A holder that keeps asking from its own flush cannot keep the loop from
\* its timers and its sockets.
FramesComeRound ==
  pc \notin {"idle", "top", "timers"} ~> pc = "timers" \/ ~loopRunning

\* What is held goes out before the loop waits, in poll or asleep, and before
\* its sockets close.
HeldGoesOutFirst ==
  [](SentBeforeWaiting /\ NoFlushWaitsInPoll) /\ LoopSendsBeforeClosing

\* PassFlush: "Called once for each time it asked": a holder that has asked
\* is in exactly one place of the two lists, and no other is in them at all,
\* though the walk, the swap at its end and the holders' own asks from inside
\* it all change the lists; and it is flushed, unless the runtime closes first.
FlushedOncePerAsk ==
  /\ [](Range(flushes \o later) = asked /\ Len(flushes \o later) = Cardinality(asked))
  /\ \A h \in Holders : h \in asked ~> h \notin asked \/ ~open
=============================================================================
