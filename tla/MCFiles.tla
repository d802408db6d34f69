------------------------------ MODULE MCFiles ------------------------------
(***************************************************************************)
(* What processes share through files, on small instances: a local         *)
(* connection's name, a shared memory region and a store of values.  They  *)
(* share nothing with each other, so a behaviour is one of one of them,    *)
(* the part, while the others stay as they begin.                          *)
(***************************************************************************)
EXTENDS LocalName, SharedRegion, FileStore

VARIABLE part   \* the component whose behaviour this is

filesVars == <<part, localNameVars, sharedVars, storeVars>>

\* A component that is not the part begins in one of its states alone.
FilesInit ==
  /\ part \in {"name", "region", "store"}
  /\ LocalNameInit /\ (part = "name" \/ (directory = "own" /\ socketPath = "nothing"))
  /\ SharedRegionInit /\ (part = "region" \/ system = "linux")
  /\ StoreInit /\ (part = "store" \/ (disk = "posix" /\ temps = {}))

FilesNext ==
  /\ UNCHANGED part
  /\ \/ part = "name" /\ LocalNameNext /\ UNCHANGED <<sharedVars, storeVars>>
     \/ part = "region" /\ SharedRegionNext /\ UNCHANGED <<localNameVars, storeVars>>
     \/ part = "store" /\ StoreNext /\ UNCHANGED <<localNameVars, sharedVars>>

\* A client with time left tries again, and a listener's reader takes who
\* waits while it has nobody.
NameFairness ==
  /\ \A c \in Clients : WF_localNameVars(part = "name" /\ ConnectReached(c))
  /\ \A c \in Clients : WF_localNameVars(part = "name" /\ ConnectGivesUp(c))
  /\ \A p \in Procs : WF_localNameVars(part = "name" /\ Accept(p))

\* A participant that is not stopped goes on with its call.
RegionFairness ==
  \A u \in Users : WF_sharedVars(part = "region" /\ (LockStep(u) \/ InnerStep(u)))

FilesSpec ==
  FilesInit /\ [][FilesNext]_filesVars /\ NameFairness /\ RegionFairness

\* Every variable of the three components keeps its type.
FilesTypeOK == LocalNameTypeOK /\ SharedRegionTypeOK /\ StoreTypeOK
=============================================================================
