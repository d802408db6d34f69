---------------------------- MODULE MCLocalPipe ----------------------------
(***************************************************************************)
(* LocalPipe on a small instance, with the fairness of its threads.        *)
(***************************************************************************)
EXTENDS LocalPipe

\* Every wait has a timeout and every call returns: readers go round, and a
\* thread inside a call finishes it.  A reader takes its lock in the end
\* however often the runtime's frames take it.
PipeFairness ==
  /\ \A e \in Ends : SF_pipeVars(ReaderStep(e))
  /\ \A e \in Ends : WF_pipeVars(SenderStep(e))

PipeSpec == LocalPipeSpec /\ PipeFairness
=============================================================================
