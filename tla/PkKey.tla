------------------------------- MODULE PkKey -------------------------------
(***************************************************************************)
(* A parsed signature key (NativePk.cpp): loaded by one thread, shared     *)
(* with others, signed with, asked about and disposed of by any of them,   *)
(* and freed by its finalizer once none of them holds it. Each operation   *)
(* takes the key's own lock, and the long ones take it inside a GC-free    *)
(* zone, which a thread leaves only when no collection is wanted. A        *)
(* collection runs once every thread is in such a zone or between calls.   *)
(***************************************************************************)
EXTENDS FiniteSets

CONSTANTS
  KeyUsers,  \* the threads
  NoUser     \* no thread

ASSUME KeyAssumption == NoUser \notin KeyUsers

VARIABLES
  keyState,   \* the KeyState's memory: "none", "parsing", "allocated" or "freed"
  pk,         \* the mbedTLS context in it: "empty", "key" or "wiped"
  keyLive,    \* KeyState.live
  isPrivate,  \* KeyState.isPrivate
  pemCopy,    \* whether the copy of the PEM text key_load makes is in memory
  keyLock,    \* the thread that holds KeyState.lock
  keyHolders, \* the threads that can reach the PkKey object
  keyCall,    \* keyCall[t]: the call t is in and how far it is
  gc          \* "none", "wanted" or "running"

keyVars == <<keyState, pk, keyLive, isPrivate, pemCopy, keyLock, keyHolders,
             keyCall, gc>>

Zoned == {"sign", "verify", "dispose"}
Looks == {"key_type", "coordinate_size"}
NoCall == [op |-> "none", at |-> "idle"]

KeyInit ==
  /\ keyState = "none" /\ pk = "empty" /\ keyLive = FALSE
  /\ isPrivate \in BOOLEAN
  /\ pemCopy = FALSE /\ keyLock = NoUser /\ keyHolders = {}
  /\ keyCall = [t \in KeyUsers |-> NoCall]
  /\ gc = "none"

Now(t, place) == keyCall' = [keyCall EXCEPT ![t].at = place]

-----------------------------------------------------------------------------
\* crossbyte_pk_key_load: the text copied, for the parse to read in a zone ...
LoadCopies(t) ==
  /\ keyState = "none" /\ gc = "none" /\ keyCall[t] = NoCall
  /\ keyState' = "parsing" /\ pemCopy' = TRUE
  /\ keyCall' = [keyCall EXCEPT ![t] = [op |-> "load", at |-> "work"]]
  /\ UNCHANGED <<pk, keyLive, isPrivate, keyLock, keyHolders, gc>>

\* ... which reads the key, or some of it before it fails ...
LoadParses(t) ==
  /\ keyCall[t] = [op |-> "load", at |-> "work"]
  /\ pk' = "key"
  /\ \E place \in {"parsed", "refused"} : Now(t, place)
  /\ UNCHANGED <<keyState, keyLive, isPrivate, pemCopy, keyLock, keyHolders, gc>>

\* ... the copy wiped and freed, and the key handed out or freed.
LoadReturns(t) ==
  /\ keyCall[t].at \in {"parsed", "refused"} /\ gc = "none"
  /\ pemCopy' = FALSE
  /\ IF keyCall[t].at = "parsed"
     THEN /\ keyLive' = TRUE /\ keyState' = "allocated" /\ keyHolders' = {t}
          /\ UNCHANGED pk
     ELSE /\ pk' = "wiped" /\ keyState' = "freed" /\ UNCHANGED <<keyLive, keyHolders>>
  /\ keyCall' = [keyCall EXCEPT ![t] = NoCall]
  /\ UNCHANGED <<isPrivate, keyLock, gc>>

-----------------------------------------------------------------------------
\* A call on a key its thread holds: in a GC-free zone, or not, up to the lock.
KeyCalls(t) ==
  /\ t \in keyHolders /\ gc = "none" /\ keyCall[t] = NoCall
  /\ \E op \in Zoned \cup Looks :
       keyCall' = [keyCall EXCEPT ![t] = [op |-> op, at |-> "lock"]]
  /\ UNCHANGED <<keyState, pk, keyLive, isPrivate, pemCopy, keyLock, keyHolders, gc>>

\* std::lock_guard on KeyState.lock.
TakesKeyLock(t) ==
  /\ keyCall[t].at = "lock" /\ keyLock = NoUser
  /\ keyLock' = t /\ Now(t, "locked")
  /\ UNCHANGED <<keyState, pk, keyLive, isPrivate, pemCopy, keyHolders, gc>>

\* Whether the key can do what the call asks of it.
KeyServes(t) == keyLive /\ (keyCall[t].op = "sign" => isPrivate)

\* Under the lock: the key looked at, and the call at work on it, or done.
ChecksKey(t) ==
  /\ keyCall[t].at = "locked"
  /\ Now(t, IF KeyServes(t) THEN "work" ELSE "unlock")
  /\ UNCHANGED <<keyState, pk, keyLive, isPrivate, pemCopy, keyLock, keyHolders, gc>>

\* Variant of WorksOnKey: a dispose that frees the KeyState too.
WorksOnKeyFreeing(t) ==
  /\ keyCall[t].op # "load" /\ keyCall[t].at = "work"
  /\ IF keyCall[t].op = "dispose"
     THEN pk' = "wiped" /\ keyLive' = FALSE /\ keyState' = "freed"
     ELSE UNCHANGED <<pk, keyLive, keyState>>
  /\ Now(t, "unlock")
  /\ UNCHANGED <<isPrivate, pemCopy, keyLock, keyHolders, gc>>

\* The signature made or checked, the key described, or (KeyState::release)
\* its material zeroed, the memory left for the finalizer.
WorksOnKey(t) ==
  /\ keyCall[t].op # "load" /\ keyCall[t].at = "work"
  /\ IF keyCall[t].op = "dispose"
     THEN pk' = "wiped" /\ keyLive' = FALSE
     ELSE UNCHANGED <<pk, keyLive>>
  /\ Now(t, "unlock")
  /\ UNCHANGED <<keyState, isPrivate, pemCopy, keyLock, keyHolders, gc>>

\* Variant of LeavesKey: the zone left before the lock.
LeavesKeyLast(t) ==
  /\ keyCall[t].at = "unlock" /\ (keyCall[t].op \in Zoned => gc = "none")
  /\ keyLock' = NoUser
  /\ keyCall' = [keyCall EXCEPT ![t] = NoCall]
  /\ UNCHANGED <<keyState, pk, keyLive, isPrivate, pemCopy, keyHolders, gc>>

\* The lock let go, and then the zone left, once no collection is waited for.
LeavesKey(t) ==
  \/ /\ keyCall[t].at = "unlock"
     /\ keyLock' = NoUser
     /\ keyCall' = [keyCall EXCEPT ![t] =
                      IF @.op \in Zoned THEN [@ EXCEPT !.at = "outside"] ELSE NoCall]
     /\ UNCHANGED <<keyState, pk, keyLive, isPrivate, pemCopy, keyHolders, gc>>
  \/ /\ keyCall[t].at = "outside" /\ gc = "none"
     /\ keyCall' = [keyCall EXCEPT ![t] = NoCall]
     /\ UNCHANGED <<keyState, pk, keyLive, isPrivate, pemCopy, keyLock, keyHolders, gc>>

-----------------------------------------------------------------------------
\* The object is given to another thread, or let go between calls.
ShareKey(t, u) ==
  /\ t \in keyHolders /\ keyCall[t] = NoCall /\ u \notin keyHolders
  /\ keyHolders' = keyHolders \cup {u}
  /\ UNCHANGED <<keyState, pk, keyLive, isPrivate, pemCopy, keyLock, keyCall, gc>>

DropKey(t) ==
  /\ t \in keyHolders /\ keyCall[t] = NoCall
  /\ keyHolders' = keyHolders \ {t}
  /\ UNCHANGED <<keyState, pk, keyLive, isPrivate, pemCopy, keyLock, keyCall, gc>>

\* A thread between calls, or in a GC-free zone, does not hold a collection up.
Parked(t) == keyCall[t] = NoCall \/ keyCall[t].op \in Zoned \cup {"load"}

GcWanted ==
  /\ gc = "none" /\ gc' = "wanted"
  /\ UNCHANGED <<keyState, pk, keyLive, isPrivate, pemCopy, keyLock, keyHolders, keyCall>>

\* PkKey::finalize and ~KeyState, in a collection that finds the key unreachable.
Finalizes ==
  IF keyState = "allocated" /\ keyHolders = {}
  THEN /\ keyState' = "freed" /\ keyLive' = FALSE
       /\ IF keyLive THEN pk' = "wiped" ELSE UNCHANGED pk
  ELSE UNCHANGED <<keyState, pk, keyLive>>

GcRuns ==
  /\ gc = "wanted" /\ \A t \in KeyUsers : Parked(t)
  /\ gc' = "running" /\ Finalizes
  /\ UNCHANGED <<isPrivate, pemCopy, keyLock, keyHolders, keyCall>>

GcEnds ==
  /\ gc = "running" /\ gc' = "none"
  /\ UNCHANGED <<keyState, pk, keyLive, isPrivate, pemCopy, keyLock, keyHolders, keyCall>>

KeySteps(t) ==
  LoadParses(t) \/ LoadReturns(t) \/ TakesKeyLock(t) \/ ChecksKey(t)
    \/ WorksOnKey(t) \/ LeavesKey(t)

KeyNext ==
  \/ \E t \in KeyUsers :
       \/ LoadCopies(t) \/ KeyCalls(t) \/ DropKey(t) \/ KeySteps(t)
       \/ \E u \in KeyUsers : ShareKey(t, u)
  \/ GcWanted \/ GcRuns \/ GcEnds

KeySpec == KeyInit /\ [][KeyNext]_keyVars

-----------------------------------------------------------------------------
Busy(t) == keyCall[t].op \in Zoned \cup Looks

\* Each piece of state is what the code's types and flags allow, and the key
\* is live only while its context holds a key.
KeyTypeOK ==
  /\ keyState \in {"none", "parsing", "allocated", "freed"}
  /\ pk \in {"empty", "key", "wiped"} /\ (keyLive => pk = "key")
  /\ isPrivate \in BOOLEAN /\ pemCopy \in BOOLEAN
  /\ keyLock \in KeyUsers \cup {NoUser} /\ keyHolders \subseteq KeyUsers
  /\ \A t \in KeyUsers :
       keyCall[t].at \in {"idle", "lock", "locked", "work", "unlock", "outside",
                          "parsed", "refused"}
  /\ gc \in {"none", "wanted", "running"}

\* A thread in a call, waiting for the lock included, has the KeyState's
\* memory under it: disposing of a key never frees what another waits on.
KeyOutlivesCalls == \A t \in KeyUsers : Busy(t) => keyState = "allocated"

\* A call works on a live key from the moment it checked to the moment it is
\* done, and a signature is only made with a private one.
WorksOnLiveKey ==
  \A t \in KeyUsers :
    (Busy(t) /\ keyCall[t].at = "work")
      => keyLive /\ pk = "key" /\ keyLock = t /\ (keyCall[t].op = "sign" => isPrivate)

\* No key material outlives its use: none in a freed KeyState or a disposed
\* one, and no copy of the text once the load has returned.
NoKeyLeftBehind ==
  /\ keyState = "freed" => pk # "key"
  /\ (keyState = "allocated" /\ ~keyLive) => pk = "wiped"
  /\ (\A t \in KeyUsers : keyCall[t].op # "load") => ~pemCopy

\* A collection asked for is had: no thread waits on the key's lock, holding
\* the collection up, for one the collection itself is holding up.
CollectionRuns == gc = "wanted" ~> gc = "none"

\* A key lives for as long as its calls and no longer: neither its KeyState's
\* memory nor its material goes under a call, and neither stays after.
KeyLivesWithItsCalls == KeyOutlivesCalls /\ WorksOnLiveKey /\ NoKeyLeftBehind
=============================================================================
