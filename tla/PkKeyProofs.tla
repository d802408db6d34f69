---------------------------- MODULE PkKeyProofs ----------------------------
(***************************************************************************)
(* Proofs about PkKey, for any number of threads.                          *)
(***************************************************************************)
EXTENDS PkKey, TLAPS

KeyCalled ==
  [op : {"none"}, at : {"idle"}]
    \cup [op : {"load"}, at : {"work", "parsed", "refused"}]
    \cup [op : Zoned \cup Looks, at : {"lock", "locked", "work", "unlock"}]
    \cup [op : Zoned, at : {"outside"}]

Typed ==
  /\ keyState \in {"none", "parsing", "allocated", "freed"}
  /\ pk \in {"empty", "key", "wiped"}
  /\ keyLive \in BOOLEAN /\ isPrivate \in BOOLEAN /\ pemCopy \in BOOLEAN
  /\ keyHolders \subseteq KeyUsers
  /\ keyCall \in [KeyUsers -> KeyCalled]

\* There is a load exactly while the key is being parsed, and one at most.
LoadInv ==
  /\ pemCopy <=> keyState = "parsing"
  /\ pemCopy <=> \E t \in KeyUsers : keyCall[t].op = "load"
  /\ \A t, u \in KeyUsers : (keyCall[t].op = "load" /\ keyCall[u].op = "load") => t = u
  /\ \A t \in KeyUsers : keyCall[t].at = "parsed" => pk = "key"

\* A thread in a call holds the key, and the key that is held is allocated.
HeldInv ==
  /\ \A t \in KeyUsers : Busy(t) => t \in keyHolders
  /\ keyHolders # {} => keyState = "allocated"

\* A live key is in memory with its material, and one that is not has none.
MaterialInv ==
  /\ keyLive => keyState = "allocated" /\ pk = "key"
  /\ (keyState = "allocated" /\ ~keyLive) => pk = "wiped"
  /\ keyState = "freed" => pk = "wiped"

\* A call past the lock has it, and one at work has found the key live.
LockInv ==
  \A t \in KeyUsers :
    /\ (Busy(t) /\ keyCall[t].at \in {"locked", "work", "unlock"}) => keyLock = t
    /\ (Busy(t) /\ keyCall[t].at = "work") => KeyServes(t)

KeyInv == Typed /\ LoadInv /\ HeldInv /\ MaterialInv /\ LockInv

-----------------------------------------------------------------------------
\* Before the load there is neither a key nor a call.
LEMMA KeyInitially == KeyInit => KeyInv
<1>. SUFFICES ASSUME KeyInit PROVE KeyInv
  OBVIOUS
<1>. USE DEF KeyInit, NoCall, Zoned, Looks
<1>1. Typed
  BY DEF Typed, KeyCalled
<1>2. LoadInv /\ HeldInv /\ MaterialInv
  BY DEF LoadInv, HeldInv, MaterialInv, Busy
<1>3. LockInv
  BY DEF LockInv, Busy
<1>. QED
  BY <1>1, <1>2, <1>3 DEF KeyInv

\* The load: the one call that changes the KeyState's memory outside the lock.
LEMMA LoadKeeps ==
  ASSUME KeyInv, NEW t \in KeyUsers,
         LoadCopies(t) \/ LoadParses(t) \/ LoadReturns(t)
  PROVE  KeyInv'
<1>. USE DEF KeyInv, Typed, KeyCalled, NoCall, Zoned, Looks, Now
<1>1. CASE LoadCopies(t)
  BY <1>1 DEF LoadCopies, LoadInv, HeldInv, MaterialInv, LockInv, Busy, KeyServes
<1>2. CASE LoadParses(t)
  BY <1>2 DEF LoadParses, LoadInv, HeldInv, MaterialInv, LockInv, Busy, KeyServes
<1>3. CASE LoadReturns(t)
  <2>1. keyState = "parsing" /\ keyHolders = {} /\ keyCall[t].op = "load"
    BY <1>3 DEF LoadReturns, LoadInv, HeldInv
  <2>2. Typed'
    BY <1>3 DEF LoadReturns
  <2>3. LoadInv'
    BY <1>3, <2>1 DEF LoadReturns, LoadInv
  <2>4. HeldInv'
    BY <1>3, <2>1 DEF LoadReturns, HeldInv, Busy
  <2>5. MaterialInv'
    BY <1>3, <2>1 DEF LoadReturns, LoadInv, MaterialInv
  <2>6. LockInv'
    BY <1>3, <2>1 DEF LoadReturns, HeldInv, LockInv, Busy
  <2>. QED
    BY <2>2, <2>3, <2>4, <2>5, <2>6
<1>. QED
  BY <1>1, <1>2, <1>3

\* A call on the key, from its start to its end.
LEMMA CallKeeps ==
  ASSUME KeyInv, NEW t \in KeyUsers,
         KeyCalls(t) \/ TakesKeyLock(t) \/ ChecksKey(t) \/ WorksOnKey(t) \/ LeavesKey(t)
  PROVE  KeyInv'
<1>. USE KeyAssumption DEF KeyInv, Typed, KeyCalled, NoCall, Zoned, Looks, Now
<1>1. CASE KeyCalls(t)
  BY <1>1 DEF KeyCalls, LoadInv, HeldInv, MaterialInv, LockInv, Busy, KeyServes
<1>2. CASE TakesKeyLock(t)
  BY <1>2 DEF TakesKeyLock, LoadInv, HeldInv, MaterialInv, LockInv, Busy, KeyServes
<1>3. CASE ChecksKey(t)
  BY <1>3 DEF ChecksKey, LoadInv, HeldInv, MaterialInv, LockInv, Busy, KeyServes
<1>4. CASE WorksOnKey(t)
  BY <1>4 DEF WorksOnKey, LoadInv, HeldInv, MaterialInv, LockInv, Busy, KeyServes
<1>5. CASE LeavesKey(t)
  BY <1>5 DEF LeavesKey, LoadInv, HeldInv, MaterialInv, LockInv, Busy, KeyServes
<1>. QED
  BY <1>1, <1>2, <1>3, <1>4, <1>5

\* The object shared and let go, and the collections that may find it so.
LEMMA HoldersKeep ==
  ASSUME KeyInv,
         \/ \E t \in KeyUsers : DropKey(t) \/ \E u \in KeyUsers : ShareKey(t, u)
         \/ GcWanted \/ GcRuns \/ GcEnds
  PROVE  KeyInv'
<1>. USE DEF KeyInv, Typed, NoCall, Zoned, Looks
<1>1. CASE \E t \in KeyUsers : DropKey(t)
  BY <1>1 DEF DropKey, LoadInv, HeldInv, MaterialInv, LockInv, Busy, KeyServes
<1>2. CASE \E t, u \in KeyUsers : ShareKey(t, u)
  BY <1>2 DEF ShareKey, LoadInv, HeldInv, MaterialInv, LockInv, Busy, KeyServes
<1>3. CASE GcRuns
  <2>1. Typed'
    BY <1>3 DEF GcRuns, Finalizes
  <2>2. LoadInv'
    <3>1. \A t \in KeyUsers : keyCall[t].at = "parsed" => keyCall[t].op = "load"
      BY DEF KeyCalled
    <3>. QED
      BY <1>3, <3>1 DEF GcRuns, Finalizes, LoadInv
  <2>5. HeldInv'
    BY <1>3 DEF GcRuns, Finalizes, HeldInv, Busy
  <2>3. MaterialInv'
    BY <1>3 DEF GcRuns, Finalizes, MaterialInv
  <2>4. LockInv'
    BY <1>3 DEF GcRuns, Finalizes, HeldInv, LockInv, Busy, KeyServes
  <2>. QED
    BY <2>1, <2>2, <2>3, <2>4, <2>5
<1>4. CASE GcWanted \/ GcEnds
  BY <1>4 DEF GcWanted, GcEnds, LoadInv, HeldInv, MaterialInv, LockInv, Busy, KeyServes
<1>. QED
  BY <1>1, <1>2, <1>3, <1>4

\* Every step of a thread or of the collector keeps the invariant.
LEMMA KeyStep == KeyInv /\ [KeyNext]_keyVars => KeyInv'
<1>. SUFFICES ASSUME KeyInv, [KeyNext]_keyVars PROVE KeyInv'
  OBVIOUS
<1>1. CASE KeyNext
  BY <1>1, LoadKeeps, CallKeeps, HoldersKeep DEF KeyNext, KeySteps
<1>2. CASE UNCHANGED keyVars
  BY <1>2 DEF keyVars, KeyInv, Typed, LoadInv, HeldInv, MaterialInv, LockInv, Busy, KeyServes
<1>. QED
  BY <1>1, <1>2

\* KeyLivesWithItsCalls: whoever signs, disposes, shares and drops the key, and
\* whenever a collection comes, a call has the KeyState's memory and the key's
\* material under it, and no material stays behind.
THEOREM KeyOutlivesItsCalls == KeySpec => []KeyLivesWithItsCalls
<1>1. KeyInv => KeyLivesWithItsCalls
  BY DEF KeyInv, Typed, LoadInv, HeldInv, MaterialInv, LockInv, KeyServes, KeyLivesWithItsCalls,
         KeyOutlivesCalls, WorksOnLiveKey, NoKeyLeftBehind
<1>. QED
  BY <1>1, KeyInitially, KeyStep, PTL DEF KeySpec
=============================================================================
