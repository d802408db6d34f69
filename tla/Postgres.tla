------------------------------ MODULE Postgres ------------------------------
(***************************************************************************)
(* The libpq bridge (NativePostgres.cpp) under PostgresConnection: each    *)
(* connection is opened, queried and closed by its own thread and may be   *)
(* cancelled from any other. The library is looked for in the order given, *)
(* loaded once for each path, under a lock, and never unloaded; a handle   *)
(* owns its connection and its cancel object and is freed by close.        *)
(***************************************************************************)
EXTENDS Naturals, Sequences, FiniteSets

CONSTANTS
  Owners,      \* the threads with a PostgresConnection each
  Watchers,    \* the threads that cancel
  Candidates,  \* the library paths, in the order they are tried
  Loadable,    \* the paths at which there is a libpq
  MaxOpens     \* bound: connections opened

ASSUME PostgresAssumption ==
  MaxOpens \in Nat /\ \A i, j \in DOMAIN Candidates : Candidates[i] = Candidates[j] => i = j

Handles == 1..MaxOpens
Nobody == "nobody"

VARIABLES
  g_libraries,  \* the paths of the libraries loaded, in order
  g_loadLock,   \* the thread that holds it
  opens,        \* how many handles have been made
  handle,       \* handle[h]: "unused", "alive" or "freed"
  conn,         \* conn[h]: its PGconn: "none", "open" or "finished"
  cancelOf,     \* cancelOf[h]: its PGcancel: "none", "made" or "freed"
  api,          \* api[h]: the path of the library it uses, or Nobody
  results,      \* results[h]: the PGresults not cleared
  nativeHandle, \* nativeHandle[o]: __nativeHandle of o's connection, or 0
  handleLock,   \* handleLock[o]: the thread that holds its __handleLock
  pq            \* pq[t]: the call thread t is in

pqVars == <<g_libraries, g_loadLock, opens, handle, conn, cancelOf, api, results,
            nativeHandle, handleLock, pq>>

PostgresInit ==
  /\ g_libraries = <<>> /\ g_loadLock = Nobody /\ opens = 0
  /\ handle = [h \in Handles |-> "unused"] /\ conn = [h \in Handles |-> "none"]
  /\ cancelOf = [h \in Handles |-> "none"] /\ api = [h \in Handles |-> Nobody]
  /\ results = [h \in Handles |-> 0]
  /\ nativeHandle = [o \in Owners |-> 0] /\ handleLock = [o \in Owners |-> Nobody]
  /\ pq = [t \in Owners \cup Watchers |-> [in |-> "idle"]]

Goes(t, next) == pq' = [pq EXCEPT ![t] = next]

-----------------------------------------------------------------------------
\* PostgresConnection.open: what was open is closed, and a handle made.
OpenBegins(o) ==
  /\ pq[o].in = "idle" /\ opens < MaxOpens
  /\ IF nativeHandle[o] # 0
     THEN Goes(o, [in |-> "take"]) /\ UNCHANGED <<opens, handle>>
     ELSE /\ opens' = opens + 1 /\ handle' = [handle EXCEPT ![opens + 1] = "alive"]
          /\ Goes(o, [in |-> "load", h |-> opens + 1])
  /\ UNCHANGED <<g_libraries, g_loadLock, conn, cancelOf, api, results, nativeHandle, handleLock>>

LoadLocks(o) ==
  /\ pq[o].in = "load" /\ g_loadLock = Nobody
  /\ g_loadLock' = o /\ Goes(o, [pq[o] EXCEPT !.in = "look"])
  /\ UNCHANGED <<g_libraries, opens, handle, conn, cancelOf, api, results, nativeHandle, handleLock>>

Loaded(path) == \E i \in DOMAIN g_libraries : g_libraries[i] = path

\* The candidates that are loaded or can be, and the first of them.
UsableLibraries == {i \in DOMAIN Candidates : Loaded(Candidates[i]) \/ Candidates[i] \in Loadable}
FirstUsableLibrary == CHOOSE i \in UsableLibraries : \A j \in UsableLibraries : i <= j

\* loadLibrary: the first candidate already loaded, or that can be (tryLoad) ...
LoadLooks(o) ==
  /\ pq[o].in = "look"
  /\ Goes(o, IF UsableLibraries = {} THEN [in |-> "unlock", h |-> pq[o].h, path |-> Nobody, fresh |-> FALSE]
             ELSE [in |-> "unlock", h |-> pq[o].h, path |-> Candidates[FirstUsableLibrary],
                   fresh |-> ~Loaded(Candidates[FirstUsableLibrary])])
  /\ UNCHANGED <<g_libraries, g_loadLock, opens, handle, conn, cancelOf, api, results,
                 nativeHandle, handleLock>>

\* ... kept for every later open.
LoadUnlocks(o) ==
  /\ pq[o].in = "unlock"
  /\ LET h == pq[o].h
         path == pq[o].path
     IN  /\ g_libraries' = IF pq[o].fresh THEN Append(g_libraries, path) ELSE g_libraries
         /\ api' = [api EXCEPT ![h] = path]
         /\ Goes(o, [in |-> IF path = Nobody THEN "failed" ELSE "connect", h |-> h])
  /\ g_loadLock' = Nobody
  /\ UNCHANGED <<opens, handle, conn, cancelOf, results, nativeHandle, handleLock>>

\* The connection made, with the object that cancels it; or refused, and
\* finished; or not even allocated.
Connect(o) ==
  /\ pq[o].in = "connect"
  /\ LET h == pq[o].h
     IN  \/ /\ conn' = [conn EXCEPT ![h] = "open"]
            /\ \E c \in {"made", "none"} : cancelOf' = [cancelOf EXCEPT ![h] = c]
            /\ Goes(o, [in |-> "keep", h |-> h])
         \/ /\ conn' = [conn EXCEPT ![h] = "finished"]
            /\ Goes(o, [in |-> "failed", h |-> h]) /\ UNCHANGED cancelOf
         \/ Goes(o, [in |-> "failed", h |-> h]) /\ UNCHANGED <<conn, cancelOf>>
  /\ UNCHANGED <<g_libraries, g_loadLock, opens, handle, api, results, nativeHandle, handleLock>>

OpenEnds(o) ==
  /\ pq[o].in = "keep"
  /\ nativeHandle' = [nativeHandle EXCEPT ![o] = pq[o].h]
  /\ Goes(o, [in |-> "idle"])
  /\ UNCHANGED <<g_libraries, g_loadLock, opens, handle, conn, cancelOf, api, results, handleLock>>

-----------------------------------------------------------------------------
\* request and requestParams: the statement run on the owner's thread ...
Exec(o) ==
  /\ pq[o].in = "idle" /\ nativeHandle[o] # 0
  /\ Goes(o, [in |-> "exec", h |-> nativeHandle[o]])
  /\ UNCHANGED <<g_libraries, g_loadLock, opens, handle, conn, cancelOf, api, results,
                 nativeHandle, handleLock>>

\* ... which answers a result to encode, one that says it failed and is
\* cleared, or none ...
ExecEnds(o) ==
  /\ pq[o].in = "exec"
  /\ \/ results' = [results EXCEPT ![pq[o].h] = @ + 1] /\ Goes(o, [in |-> "encode", h |-> pq[o].h])
     \/ Goes(o, [in |-> "idle"]) /\ UNCHANGED results
  /\ UNCHANGED <<g_libraries, g_loadLock, opens, handle, conn, cancelOf, api,
                 nativeHandle, handleLock>>

\* ... encoded, or too long to be, and cleared either way (ResultGuard).
Encoded(o) ==
  /\ pq[o].in = "encode"
  /\ results' = [results EXCEPT ![pq[o].h] = @ - 1]
  /\ Goes(o, [in |-> "idle"])
  /\ UNCHANGED <<g_libraries, g_loadLock, opens, handle, conn, cancelOf, api,
                 nativeHandle, handleLock>>

\* escape, is_open and transaction_status: a look at the connection.
Asks(o) ==
  /\ pq[o].in = "idle" /\ nativeHandle[o] # 0
  /\ Goes(o, [in |-> "ask", h |-> nativeHandle[o]])
  /\ UNCHANGED <<g_libraries, g_loadLock, opens, handle, conn, cancelOf, api, results,
                 nativeHandle, handleLock>>

Answers(o) ==
  /\ pq[o].in = "ask" /\ Goes(o, [in |-> "idle"])
  /\ UNCHANGED <<g_libraries, g_loadLock, opens, handle, conn, cancelOf, api, results,
                 nativeHandle, handleLock>>

-----------------------------------------------------------------------------
CloseBegins(o) ==
  /\ pq[o].in = "idle" /\ nativeHandle[o] # 0
  /\ Goes(o, [in |-> "take"])
  /\ UNCHANGED <<g_libraries, g_loadLock, opens, handle, conn, cancelOf, api, results,
                 nativeHandle, handleLock>>

\* Variant of TakeOut: without the lock.
TakeOutUnlocked(o) ==
  /\ pq[o].in = "take"
  /\ nativeHandle' = [nativeHandle EXCEPT ![o] = 0]
  /\ Goes(o, [in |-> "failed", h |-> nativeHandle[o]])
  /\ UNCHANGED <<g_libraries, g_loadLock, opens, handle, conn, cancelOf, api, results, handleLock>>

\* close: the handle taken out under the lock, which waits for a cancel ...
TakeOut(o) ==
  /\ pq[o].in = "take" /\ handleLock[o] = Nobody
  /\ nativeHandle' = [nativeHandle EXCEPT ![o] = 0]
  /\ Goes(o, [in |-> "failed", h |-> nativeHandle[o]])
  /\ UNCHANGED <<g_libraries, g_loadLock, opens, handle, conn, cancelOf, api, results, handleLock>>

\* ... and crossbyte_postgres_close, of this one or of one that failed to open.
PostgresClose(o) ==
  /\ pq[o].in = "failed"
  /\ LET h == pq[o].h
     IN  /\ cancelOf' = [cancelOf EXCEPT ![h] = IF @ = "made" THEN "freed" ELSE @]
         /\ conn' = [conn EXCEPT ![h] = IF @ = "open" THEN "finished" ELSE @]
         /\ handle' = [handle EXCEPT ![h] = "freed"]
  /\ Goes(o, [in |-> "idle"])
  /\ UNCHANGED <<g_libraries, g_loadLock, opens, api, results, nativeHandle, handleLock>>

-----------------------------------------------------------------------------
\* cancel, from another thread: under the lock, with the handle if there is
\* one, for as long as the server takes to answer.
CancelBegins(w, o) ==
  /\ pq[w].in = "idle" /\ handleLock[o] = Nobody
  /\ handleLock' = [handleLock EXCEPT ![o] = w]
  /\ Goes(w, IF nativeHandle[o] = 0 \/ cancelOf[nativeHandle[o]] = "none"
             THEN [in |-> "release", of |-> o]
             ELSE [in |-> "cancel", of |-> o, h |-> nativeHandle[o]])
  /\ UNCHANGED <<g_libraries, g_loadLock, opens, handle, conn, cancelOf, api, results, nativeHandle>>

CancelReturns(w) ==
  /\ pq[w].in \in {"cancel", "release"}
  /\ handleLock' = [handleLock EXCEPT ![pq[w].of] = Nobody]
  /\ Goes(w, [in |-> "idle"])
  /\ UNCHANGED <<g_libraries, g_loadLock, opens, handle, conn, cancelOf, api, results, nativeHandle>>

OwnerSteps(o) ==
  LoadLocks(o) \/ LoadLooks(o) \/ LoadUnlocks(o) \/ Connect(o) \/ OpenEnds(o)
    \/ ExecEnds(o) \/ Encoded(o) \/ Answers(o) \/ TakeOut(o) \/ PostgresClose(o)

PostgresNext ==
  \/ \E o \in Owners : OpenBegins(o) \/ Exec(o) \/ Asks(o) \/ CloseBegins(o) \/ OwnerSteps(o)
  \/ \E w \in Watchers : CancelReturns(w) \/ \E o \in Owners : CancelBegins(w, o)

PostgresSpec == PostgresInit /\ [][PostgresNext]_pqVars

-----------------------------------------------------------------------------
\* Each piece of state is what the code's types allow, and a library's path
\* is listed once.
PostgresTypeOK ==
  /\ opens \in 0..MaxOpens
  /\ \A h \in Handles : /\ handle[h] \in {"unused", "alive", "freed"} /\ results[h] \in 0..1
                        /\ api[h] = Nobody \/ Loaded(api[h])
  /\ \A o \in Owners : nativeHandle[o] \in 0..opens
  /\ \A i, j \in DOMAIN g_libraries : g_libraries[i] = g_libraries[j] => i = j

\* A call at work on a handle, a cancel's on another thread included, has it
\* and what it uses of it until it is done.
HandleOutlivesItsCalls ==
  \A t \in Owners \cup Watchers :
    /\ pq[t].in \in {"exec", "encode", "ask"} => handle[pq[t].h] = "alive" /\ conn[pq[t].h] = "open"
    /\ pq[t].in = "cancel" => handle[pq[t].h] = "alive" /\ cancelOf[pq[t].h] = "made"

\* What a handle had is let go with it: no connection the server still holds,
\* no cancel object and no result outlives the handle, or the failed open.
NothingLeaks ==
  \A h \in Handles :
    /\ handle[h] = "freed" => conn[h] # "open" /\ cancelOf[h] # "made"
    /\ (\A o \in Owners : pq[o].in # "encode" \/ pq[o].h # h) => results[h] = 0
    /\ (handle[h] = "alive" /\ \A o \in Owners : nativeHandle[o] # h)
         => \E o \in Owners : pq[o].in # "idle"

\* A handle lives for as long as its calls, and what it had goes with it.
HandleLivesWithItsCalls == HandleOutlivesItsCalls /\ NothingLeaks
=============================================================================
