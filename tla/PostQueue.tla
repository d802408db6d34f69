----------------------------- MODULE PostQueue -----------------------------
(***************************************************************************)
(* What CrossByte.post promises, with no threads, locks or loop in it: a   *)
(* callback is either refused or taken; what was taken runs once, in the   *)
(* order it was taken; and once the runtime has exited nothing is taken,   *)
(* while what was taken before still runs.                                 *)
(***************************************************************************)
EXTENDS Naturals, Sequences

VARIABLES pending,   \* taken and not yet run, oldest first
          ran,       \* run, in the order they ran
          closed     \* whether posts are refused

pqVars == <<pending, ran, closed>>

Taken == Len(ran) + Len(pending)

PQInit ==
  /\ pending = <<>>
  /\ ran = <<>>
  /\ closed = FALSE

\* Callbacks are told apart by the order they were taken in.
Take ==
  /\ ~closed
  /\ pending' = Append(pending, Taken + 1)
  /\ UNCHANGED <<ran, closed>>

Run ==
  /\ pending # <<>>
  /\ ran' = Append(ran, Head(pending))
  /\ pending' = Tail(pending)
  /\ UNCHANGED closed

Close ==
  /\ ~closed
  /\ closed' = TRUE
  /\ UNCHANGED <<pending, ran>>

PQNext == Take \/ Run \/ Close

PQSafety == PQInit /\ [][PQNext]_pqVars

\* Whatever was taken is run in the end.
PQSpec == PQSafety /\ WF_pqVars(Run)
=============================================================================
