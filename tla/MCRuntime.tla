----------------------------- MODULE MCRuntime -----------------------------
(***************************************************************************)
(* A runtime's loop with the threads that post to it, and a task with those*)
(* that wait for it, on small instances.  The two share nothing, so a      *)
(* behaviour is one of one of them, the part, while the other stays as it  *)
(* begins: one run checks each by itself.                                  *)
(***************************************************************************)
EXTENDS Runtime, Task

VARIABLE part   \* the component whose behaviour this is

runtimeVars == <<part, vars, taskStateVars>>

\* A component that is not the part begins in one of its states alone.
RuntimeInit ==
  /\ part \in {"loop", "task"}
  /\ Init /\ (part = "loop" \/ loopType = "POLL")
  /\ TaskInit /\ (part = "task" \/ runtime = "none")

\* A task may be over; a runtime may not come to a stop short of its exit.
RuntimeNext ==
  /\ UNCHANGED part
  /\ \/ part = "loop" /\ Next /\ UNCHANGED taskStateVars
     \/ part = "task" /\ TaskNext /\ UNCHANGED vars
     \/ part = "task" /\ UNCHANGED <<vars, taskStateVars>>

\* The loop's thread is scheduled and its handlers return, however often they
\* call post() or exit() meanwhile; a call under way finishes; and a write
\* becomes visible.  Timeouts are left out, since what is promised must not
\* wait for one, except where a POLL loop has no wake socket: it is woken by
\* nothing else.
RuntimeFairness ==
  /\ SF_vars(part = "loop" /\ LoopStep)
  /\ \A a \in Agents : WF_vars(part = "loop" /\ CallStep(a))
  /\ WF_vars(part = "loop" /\ Visible)
  /\ SF_vars(part = "loop" /\ loopType = "POLL" /\ wakeSocket = "none" /\ Timeout)

\* The pool runs its tasks and jobs return; callbacks return, and a loop that
\* is not held up by one runs what was posted.
TaskFairness ==
  /\ WF_taskStateVars(part = "task" /\ (StartTask \/ FinishTask \/ TaskEndStep))
  /\ WF_taskStateVars(part = "task" /\ EndTurn)
  /\ \A c \in Callers :
       WF_taskStateVars(part = "task" /\ (AwaitWoken(c) \/ (awaits[c] = "woken" /\ Await(c))))
  /\ \A h \in Handlers : WF_taskStateVars(part = "task" /\ CalledNow(h))

RuntimeSpec ==
  RuntimeInit /\ [][RuntimeNext]_runtimeVars /\ RuntimeFairness /\ TaskFairness
=============================================================================
