-------------------------- MODULE DtlsTableProofs --------------------------
(***************************************************************************)
(* Proofs about DtlsTable, for any number of threads, addresses and        *)
(* handles.                                                                *)
(***************************************************************************)
EXTENDS DtlsTable, TLAPS

Calls ==
  [in : {"idle", "make"}] \cup [in : {"insert", "free"}, session : Addresses]
    \cup [in : {"search"}, handle : SessionHandles]
    \cup [in : {"use"}, handle : SessionHandles, session : Addresses \cup {Null}]

Typed ==
  /\ DOMAIN sessions \subseteq SessionHandles
  /\ nextHandle \in 1..(MaxHandles + 1) /\ closes \in Nat
  /\ heap \in [Addresses -> 0..(MaxHandles + 1)]
  /\ last \in [TableThreads -> [handle : 0..MaxHandles, session : Addresses \cup {Null},
                           closes : Nat]]
  /\ tableAt \in [TableThreads -> Calls]
  /\ DOMAIN mine = TableThreads

\* A handle is its opener's alone, and open exactly while it is in the table.
Owned ==
  /\ \A t \in TableThreads : \A h \in DOMAIN mine[t] :
       /\ h \in SessionHandles /\ h < nextHandle
       /\ mine[t][h] = "open" <=> h \in DOMAIN sessions
  /\ OneSessionEach
  /\ \A h \in DOMAIN sessions : h < nextHandle

\* The table points at each handle's session.
Pointed ==
  \A h \in DOMAIN sessions : sessions[h] \in Addresses /\ heap[sessions[h]] = h

\* What the table says of handle h.
Looked(h) == IF h \in DOMAIN sessions THEN sessions[h] ELSE Null

\* A lookup under way, a session on its way in and one on its way out.
CallsInv ==
  /\ \A t \in TableThreads :
       /\ tableAt[t].in \in {"search", "use"} => tableAt[t].handle \in DOMAIN mine[t]
       /\ tableAt[t].in = "use" => tableAt[t].session = Looked(tableAt[t].handle)
       /\ tableAt[t].in = "insert" => heap[tableAt[t].session] = MaxHandles + 1
       /\ tableAt[t].in = "free" => /\ heap[tableAt[t].session] \in DOMAIN mine[t]
                               /\ heap[tableAt[t].session] \notin DOMAIN sessions
  /\ \A t, u \in TableThreads :
       (tableAt[t].in = "insert" /\ tableAt[u].in = "insert" /\ t # u)
         => tableAt[t].session # tableAt[u].session

\* What a thread remembers is what the table says, unless a close came since.
Remembered ==
  \A t \in TableThreads :
    /\ last[t].closes <= closes /\ last[t].handle < nextHandle
    /\ (last[t].handle \in DOMAIN mine[t] /\ last[t].closes = closes)
         => last[t].session = Looked(last[t].handle)

TableInv == Typed /\ Owned /\ Pointed /\ CallsInv /\ Remembered

-----------------------------------------------------------------------------
\* An empty table, with every thread idle, satisfies the invariant.
LEMMA TableInitially == DtlsTableInit => TableInv
BY DtlsTableAssumption
DEF DtlsTableInit, TableInv, Typed, Owned, OneSessionEach, Pointed, CallsInv,
    Remembered, Looked, Calls, Idle, SessionHandles

\* The steps of a call that changes no session: the RNG seeded, the search in
\* what the thread remembers and in the table, and the use.
LEMMA LookupKeeps ==
  ASSUME TableInv, NEW t \in TableThreads,
         \/ OpenSeeds(t) \/ FindSearches(t) \/ Use(t)
         \/ \E h \in DOMAIN mine[t] : FindRemembers(t, h)
  PROVE  TableInv'
<1>. USE DEF TableInv, Typed, Calls, To, Idle
<1>0. CASE OpenSeeds(t)
  <2>1. tableAt' = [tableAt EXCEPT ![t] = [in |-> "make"]] \/ tableAt' = [tableAt EXCEPT ![t] = Idle]
    BY <1>0 DEF OpenSeeds
  <2>2. UNCHANGED <<sessions, nextHandle, closes, heap, last, mine>>
    BY <1>0 DEF OpenSeeds
  <2>. QED
    <3>1. Typed' /\ Owned' /\ Pointed' /\ Remembered'
      BY <2>1, <2>2 DEF Owned, OneSessionEach, Pointed, Remembered, Looked
    <3>2. CallsInv'
      <4>1. tableAt'[t].in \in {"make", "idle"} /\ \A u \in TableThreads \ {t} : tableAt'[u] = tableAt[u]
        BY <2>1
      <4>. QED
        BY <2>2, <4>1 DEF CallsInv, Looked
    <3>. QED
      BY <3>1, <3>2
<1>1. CASE Use(t)
  BY <1>1 DEF Use, Owned, OneSessionEach, Pointed, CallsInv, Remembered, Looked
<1>2. CASE FindSearches(t)
  BY <1>2
  DEF FindSearches, Owned, OneSessionEach, Pointed, CallsInv, Remembered, Looked,
      SessionHandles
<1>3. ASSUME NEW h \in DOMAIN mine[t], FindRemembers(t, h) PROVE TableInv'
  <2>1. h \in SessionHandles
    BY DEF Owned
  <2>2. Typed'
    BY <1>3, <2>1 DEF FindRemembers
  <2>3. Owned' /\ Pointed' /\ Remembered'
    BY <1>3 DEF FindRemembers, Owned, OneSessionEach, Pointed, Remembered, Looked
  <2>4. CallsInv'
    <3>1. CASE h = last[t].handle /\ closes = last[t].closes
      <4>1. last[t].session = Looked(h)
        BY <3>1 DEF Remembered
      <4>2. tableAt' = [tableAt EXCEPT ![t] =
                     [in |-> "use", handle |-> h, session |-> last[t].session]]
        BY <1>3, <3>1 DEF FindRemembers
      <4>. QED
        BY <1>3, <4>1, <4>2 DEF FindRemembers, CallsInv, Looked
    <3>2. CASE ~(h = last[t].handle /\ closes = last[t].closes)
      <4>1. tableAt' = [tableAt EXCEPT ![t] = [in |-> "search", handle |-> h]]
        BY <1>3, <3>2 DEF FindRemembers
      <4>. QED
        BY <1>3, <4>1 DEF FindRemembers, CallsInv, Looked
    <3>. QED
      BY <3>1, <3>2
  <2>. QED
    BY <2>2, <2>3, <2>4
<1>. QED
  BY <1>0, <1>1, <1>2, <1>3

\* A session is allocated where no other one is.
LEMMA MakesKeeps ==
  ASSUME TableInv, NEW t \in TableThreads, OpenMakes(t)
  PROVE  TableInv'
<1>. USE DtlsTableAssumption DEF TableInv, Typed, Calls, To, Idle, OpenMakes, SessionHandles
<1>1. Typed'
  OBVIOUS
<1>2. Owned' /\ Remembered'
  BY DEF Owned, OneSessionEach, Remembered, Looked
<1>3. Pointed'
  BY DEF Pointed
<1>4. CallsInv'
  BY DEF CallsInv, Looked, Owned
<1>. QED
  BY <1>1, <1>2, <1>3, <1>4

\* crossbyte_dtls_open's insertion gives the session a handle nobody has.
LEMMA InsertsKeeps ==
  ASSUME TableInv, NEW t \in TableThreads, OpenInserts(t)
  PROVE  TableInv'
<1>. USE DtlsTableAssumption
     DEF TableInv, Typed, Calls, To, Idle, OpenInserts, Inserted, SessionHandles
<1>1. Typed'
  OBVIOUS
<1>2. Owned'
  BY DEF Owned, OneSessionEach
<1>3. Remembered'
  BY DEF Owned, Remembered, Looked
<1>4. Pointed'
  BY DEF Pointed, Owned, CallsInv
<1>5. CallsInv'
  BY DEF CallsInv, Looked, Owned
<1>. QED
  BY <1>1, <1>2, <1>3, <1>4, <1>5

\* crossbyte_dtls_close's erasure makes every thread's memory of the table old.
LEMMA CloseKeeps ==
  ASSUME TableInv, NEW t \in TableThreads, NEW h \in DOMAIN mine[t], CloseErases(t, h)
  PROVE  TableInv'
<1>. USE DtlsTableAssumption
     DEF TableInv, Typed, Calls, To, Idle, CloseErases, SessionHandles
<1>1. Typed'
  BY DEF Pointed
<1>2. Owned'
  BY DEF Owned, OneSessionEach
<1>3. Remembered'
  BY DEF Owned, Remembered
<1>4. Pointed'
  BY DEF Pointed
<1>5. CallsInv'
  BY DEF CallsInv, Looked, Owned, OneSessionEach, Pointed
<1>. QED
  BY <1>1, <1>2, <1>3, <1>4, <1>5

\* The session crossbyte_dtls_close frees is no longer anyone's to find.
LEMMA FreesKeeps ==
  ASSUME TableInv, NEW t \in TableThreads, CloseFrees(t)
  PROVE  TableInv'
<1>. USE DtlsTableAssumption
     DEF TableInv, Typed, Calls, To, Idle, CloseFrees, SessionHandles
<1>1. Typed'
  OBVIOUS
<1>2. Owned' /\ Remembered'
  BY DEF Owned, OneSessionEach, Remembered, Looked
<1>3. Pointed'
  BY DEF Pointed, CallsInv
<1>4. CallsInv'
  BY DEF CallsInv, Looked, Owned, OneSessionEach
<1>. QED
  BY <1>1, <1>2, <1>3, <1>4

\* Every step of every thread keeps the invariant.
LEMMA TableStep == TableInv /\ [DtlsTableNext]_tableVars => TableInv'
<1>. SUFFICES ASSUME TableInv, [DtlsTableNext]_tableVars PROVE TableInv'
  OBVIOUS
<1>1. CASE DtlsTableNext
  BY <1>1, LookupKeeps, MakesKeeps, InsertsKeeps, CloseKeeps, FreesKeeps
  DEF DtlsTableNext
<1>2. CASE UNCHANGED tableVars
  BY <1>2 DEF tableVars, TableInv, Typed, Owned, OneSessionEach, Pointed, CallsInv,
              Remembered, Looked
<1>. QED
  BY <1>1, <1>2

\* HandlesAreRight: whatever the threads open, look up and close, a call uses
\* its own handle's session while that is open and none after, and no handle
\* is given out twice.
THEOREM HandlesStayRight == DtlsTableSpec => []HandlesAreRight
<1>1. TableInv => HandlesAreRight
  BY DtlsTableAssumption
  DEF TableInv, Typed, Owned, Pointed, CallsInv, Looked, HandlesAreRight, FindIsRight
<1>. QED
  BY <1>1, TableInitially, TableStep, PTL DEF DtlsTableSpec
=============================================================================
