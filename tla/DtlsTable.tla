----------------------------- MODULE DtlsTable -----------------------------
(***************************************************************************)
(* The table of DTLS sessions (NativeDtlsSession.cpp): sessions opened,    *)
(* looked up and closed by the threads of several runtimes, each lookup    *)
(* answered from what the thread remembers of its last when no session has *)
(* closed since. A session is used and closed by the thread that opened    *)
(* it; a handle it has closed may be used again, and must be refused.      *)
(***************************************************************************)
EXTENDS Naturals, FiniteSets

CONSTANTS
  TableThreads, \* the runtimes' threads
  Addresses,    \* where a session may be allocated
  MaxHandles,   \* bound: sessions opened
  Null          \* no session

ASSUME DtlsTableAssumption == MaxHandles \in Nat /\ Null \notin Addresses

SessionHandles == 1..MaxHandles

VARIABLES
  sessions,    \* g_sessions: from a handle to an address
  nextHandle,  \* g_nextHandle
  closes,      \* g_closes
  rngReady,    \* g_rngReady
  heap,        \* the handle whose session an address holds, or 0 when it is free
  last,        \* last[t]: t_lastHandle, t_lastSession and t_lastCloses
  tableAt,          \* tableAt[t]: the call thread t is in
  mine         \* mine[t]: the handles t has opened, each "open" or "closed"

tableVars == <<sessions, nextHandle, closes, rngReady, heap, last, tableAt, mine>>

Idle == [in |-> "idle"]

DtlsTableInit ==
  /\ sessions = [h \in {} |-> Null] /\ nextHandle = 1 /\ closes = 0
  /\ rngReady = FALSE
  /\ heap = [a \in Addresses |-> 0]
  /\ last = [t \in TableThreads |-> [handle |-> 0, session |-> Null, closes |-> 0]]
  /\ tableAt = [t \in TableThreads |-> Idle]
  /\ mine = [t \in TableThreads |-> [h \in {} |-> "open"]]

To(t, next) == tableAt' = [tableAt EXCEPT ![t] = next]

-----------------------------------------------------------------------------
\* crossbyte_dtls_open: the RNG seeded under the lock, by the first ...
OpenSeeds(t) ==
  /\ tableAt[t].in = "idle" /\ nextHandle <= MaxHandles
  /\ \/ rngReady' = TRUE /\ To(t, [in |-> "make"])
     \/ ~rngReady /\ UNCHANGED rngReady /\ To(t, Idle)
  /\ UNCHANGED <<sessions, nextHandle, closes, heap, last, mine>>

\* ... a session made without it, and freed if it cannot be set up ...
OpenMakes(t) ==
  /\ tableAt[t].in = "make"
  /\ \/ To(t, Idle) /\ UNCHANGED heap
     \/ \E a \in Addresses :
          /\ heap[a] = 0 /\ heap' = [heap EXCEPT ![a] = MaxHandles + 1]
          /\ To(t, [in |-> "insert", session |-> a])
  /\ UNCHANGED <<sessions, nextHandle, closes, rngReady, last, mine>>

\* ... and put into the table under a handle of its own.
Inserted(t, a, h) ==
  /\ sessions' = [k \in DOMAIN sessions \cup {h} |-> IF k = h THEN a ELSE sessions[k]]
  /\ heap' = [heap EXCEPT ![a] = h]
  /\ mine' = [mine EXCEPT ![t] = [k \in DOMAIN @ \cup {h} |-> IF k = h THEN "open" ELSE @[k]]]

OpenInserts(t) ==
  /\ tableAt[t].in = "insert" /\ nextHandle <= MaxHandles
  /\ nextHandle' = nextHandle + 1
  /\ Inserted(t, tableAt[t].session, nextHandle)
  /\ To(t, Idle) /\ UNCHANGED <<closes, rngReady, last>>

-----------------------------------------------------------------------------
\* Variant of FindRemembers: whatever has closed since.
FindRemembersAlways(t, h) ==
  /\ tableAt[t].in = "idle" /\ h \in DOMAIN mine[t]
  /\ IF h = last[t].handle
     THEN To(t, [in |-> "use", handle |-> h, session |-> last[t].session])
     ELSE To(t, [in |-> "search", handle |-> h])
  /\ UNCHANGED <<sessions, nextHandle, closes, rngReady, heap, last, mine>>

\* find: what the thread remembers, when nothing has closed since ...
FindRemembers(t, h) ==
  /\ tableAt[t].in = "idle" /\ h \in DOMAIN mine[t]
  /\ IF h = last[t].handle /\ closes = last[t].closes
     THEN To(t, [in |-> "use", handle |-> h, session |-> last[t].session])
     ELSE To(t, [in |-> "search", handle |-> h])
  /\ UNCHANGED <<sessions, nextHandle, closes, rngReady, heap, last, mine>>

\* ... and otherwise the table, with the count it is as of, under the lock.
FindSearches(t) ==
  /\ tableAt[t].in = "search"
  /\ LET h == tableAt[t].handle
         s == IF h \in DOMAIN sessions THEN sessions[h] ELSE Null
     IN  /\ last' = [last EXCEPT ![t] = [handle |-> h, session |-> s, closes |-> closes]]
         /\ To(t, [in |-> "use", handle |-> h, session |-> s])
  /\ UNCHANGED <<sessions, nextHandle, closes, rngReady, heap, mine>>

\* The session used, or the call refused.
Use(t) ==
  /\ tableAt[t].in = "use"
  /\ To(t, Idle)
  /\ UNCHANGED <<sessions, nextHandle, closes, rngReady, heap, last, mine>>

-----------------------------------------------------------------------------

\* crossbyte_dtls_close: out of the table and counted, under the lock ...
CloseErases(t, h) ==
  /\ tableAt[t].in = "idle" /\ h \in DOMAIN mine[t] /\ h \in DOMAIN sessions
  /\ sessions' = [k \in DOMAIN sessions \ {h} |-> sessions[k]]
  /\ closes' = closes + 1
  /\ To(t, [in |-> "free", session |-> sessions[h]])
  /\ mine' = [mine EXCEPT ![t][h] = "closed"]
  /\ UNCHANGED <<nextHandle, rngReady, heap, last>>

\* ... and freed after.
CloseFrees(t) ==
  /\ tableAt[t].in = "free"
  /\ heap' = [heap EXCEPT ![tableAt[t].session] = 0]
  /\ To(t, Idle)
  /\ UNCHANGED <<sessions, nextHandle, closes, rngReady, last, mine>>

DtlsTableNext ==
  \E t \in TableThreads :
    \/ OpenSeeds(t) \/ OpenMakes(t) \/ OpenInserts(t) \/ FindSearches(t) \/ Use(t)
    \/ CloseFrees(t)
    \/ \E h \in DOMAIN mine[t] : FindRemembers(t, h) \/ CloseErases(t, h)

DtlsTableSpec == DtlsTableInit /\ [][DtlsTableNext]_tableVars

-----------------------------------------------------------------------------
DtlsTableTypeOK ==
  /\ DOMAIN sessions \subseteq SessionHandles /\ nextHandle \in 1..(MaxHandles + 1)
  /\ \A h \in DOMAIN sessions : sessions[h] \in Addresses
  /\ \A t \in TableThreads : last[t].closes <= closes /\ DOMAIN mine[t] \subseteq SessionHandles
  /\ nextHandle - 1 = closes + Cardinality(DOMAIN sessions) /\ rngReady \in BOOLEAN

\* A call uses the session its handle was given, for as long as that is open,
\* and none once it is closed: "a handle used after closing is refused instead
\* of dereferenced", though its memory may be another session's by then.
FindIsRight ==
  \A t \in TableThreads : tableAt[t].in = "use" =>
    LET h == tableAt[t].handle
    IN  IF mine[t][h] = "open" THEN tableAt[t].session # Null /\ heap[tableAt[t].session] = h
        ELSE tableAt[t].session = Null

\* No handle is given to two sessions, though two threads open at once.
OneSessionEach ==
  \A t, u \in TableThreads : t # u => DOMAIN mine[t] \cap DOMAIN mine[u] = {}

\* A handle is one session's, and finds that session or none.
HandlesAreRight == FindIsRight /\ OneSessionEach
=============================================================================
