----------------------------- MODULE AlpnProofs -----------------------------
(***************************************************************************)
(* Proofs about Alpn, for any sockets, connections, lists and places.      *)
(***************************************************************************)
EXTENDS Alpn, TLAPS

Settings ==
  [at : {"idle"}] \cup [at : {"lock", "search"}, names : Lists]
    \cup [at : {"install"}, names : Lists, list : Places, fresh : BOOLEAN]

Typed ==
  /\ listAt \in [Places -> Lists \cup {NoList}]
  /\ interned \subseteq Places
  /\ alpnList \in [Sockets -> Places \cup {Nowhere}]
  /\ agreed \in [Accepted -> Places \cup {Nowhere}]
  /\ setting \in [Sockets -> Settings]

\* What is kept is a list, each of them once, and nothing but what is kept is
\* pointed at.
KeptInv ==
  /\ \A p \in interned : listAt[p] # NoList
  /\ \A p, q \in interned : listAt[p] = listAt[q] => p = q
  /\ \A s \in Sockets : alpnList[s] \in interned \cup {Nowhere}
  /\ \A c \in Accepted : agreed[c] \in interned \cup {Nowhere}

\* The call that has the lock, and the list it is about to install: a kept
\* one, or a copy of one that is not kept.
LockInv ==
  \A s \in Sockets :
    /\ setting[s].at \in {"search", "install"} => alpnLock = s
    /\ setting[s].at = "install" =>
         /\ listAt[setting[s].list] = setting[s].names
         /\ IF setting[s].fresh
            THEN /\ setting[s].list \notin interned
                 /\ \A p \in interned : listAt[p] # setting[s].names
            ELSE setting[s].list \in interned

\* Memory holds what is kept and what is about to be.
NoneStray ==
  \A p \in Places : listAt[p] # NoList =>
    p \in interned \/ \E s \in Sockets : setting[s].at = "install" /\ setting[s].list = p

ListsInv == Typed /\ KeptInv /\ LockInv /\ NoneStray

-----------------------------------------------------------------------------
\* With no list in memory and no call under way the invariant holds.
LEMMA ListsInitially == AlpnInit => ListsInv
BY DEF AlpnInit, ListsInv, Typed, Settings, NotSetting, KeptInv, LockInv, NoneStray

\* The steps that touch no list.
LEMMA PointersKeep ==
  ASSUME ListsInv,
         \/ \E s \in Sockets : SetNone(s) \/ SetBegins(s) \/ SocketCloses(s)
         \/ \E c \in Accepted : ConnectionEnds(c) \/ \E s \in Sockets : Agree(c, s)
  PROVE  ListsInv'
<1>. USE DEF ListsInv, Typed, Settings, NotSetting
<1>1. CASE \E s \in Sockets : SetNone(s) \/ SocketCloses(s)
  BY <1>1 DEF SetNone, SocketCloses, Released, KeptInv, LockInv, NoneStray
<1>2. CASE \E s \in Sockets : SetBegins(s)
  BY <1>2 DEF SetBegins, KeptInv, LockInv, NoneStray
<1>3. CASE \E c \in Accepted : ConnectionEnds(c) \/ \E s \in Sockets : Agree(c, s)
  BY <1>3 DEF ConnectionEnds, Agree, KeptInv, LockInv, NoneStray
<1>. QED
  BY <1>1, <1>2, <1>3

\* gLock is taken by one call at a time.
LEMMA LockKeeps ==
  ASSUME ListsInv, NEW s \in Sockets, LockLists(s)
  PROVE  ListsInv'
BY AlpnAssumption
DEF ListsInv, Typed, Settings, LockLists, KeptInv, LockInv, NoneStray

\* The kept list with the same names is found, or a copy is made of one that
\* is not kept.
LEMMA FindKeeps ==
  ASSUME ListsInv, NEW s \in Sockets, FindOrCopy(s)
  PROVE  ListsInv'
<1>. USE AlpnAssumption DEF ListsInv, Typed
<1>. DEFINE names == setting[s].names
            kept == {p \in interned : listAt[p] = names}
            Uses(p, fresh) == setting' = [setting EXCEPT ![s] =
              [at |-> "install", names |-> names, list |-> p, fresh |-> fresh]]
<1>0. /\ setting[s].at = "search" /\ names \in Lists
      /\ UNCHANGED <<interned, alpnList, agreed>>
  BY DEF FindOrCopy, Settings
<1>1. ASSUME NEW p \in kept, Uses(p, FALSE), UNCHANGED <<listAt, alpnLock>>
      PROVE  ListsInv'
  BY <1>0, <1>1 DEF Settings, KeptInv, LockInv, NoneStray
<1>2. ASSUME kept = {}, NEW p \in Places, listAt[p] = NoList,
             listAt' = [listAt EXCEPT ![p] = names], Uses(p, TRUE), UNCHANGED alpnLock
      PROVE  ListsInv'
  <2>1. Typed'
    BY <1>0, <1>2 DEF Settings
  <2>2. KeptInv'
    BY <1>0, <1>2 DEF KeptInv
  <2>3. LockInv'
    BY <1>0, <1>2 DEF KeptInv, LockInv
  <2>4. NoneStray'
    BY <1>0, <1>2 DEF NoneStray, LockInv
  <2>. QED
    BY <2>1, <2>2, <2>3, <2>4
<1>3. ASSUME UNCHANGED listAt, alpnLock' = Nowhere,
             setting' = [setting EXCEPT ![s] = NotSetting]
      PROVE  ListsInv'
  BY <1>0, <1>3 DEF Settings, NotSetting, KeptInv, LockInv, NoneStray
<1>. QED
  BY <1>1, <1>2, <1>3 DEF FindOrCopy

\* A list mbedTLS takes is kept from then on, and a refused copy is freed.
LEMMA InstallKeeps ==
  ASSUME ListsInv, NEW s \in Sockets, Install(s)
  PROVE  ListsInv'
<1>. USE AlpnAssumption DEF ListsInv, Typed, Settings, NotSetting, Install
<1>1. Typed'
  OBVIOUS
<1>2. KeptInv'
  BY DEF KeptInv, LockInv
<1>3. LockInv'
  BY DEF KeptInv, LockInv
<1>4. NoneStray'
  BY DEF NoneStray, LockInv
<1>. QED
  BY <1>1, <1>2, <1>3, <1>4

\* Every step keeps the invariant.
LEMMA ListsStep == ListsInv /\ [AlpnNext]_alpnVars => ListsInv'
<1>. SUFFICES ASSUME ListsInv, [AlpnNext]_alpnVars PROVE ListsInv'
  OBVIOUS
<1>1. CASE AlpnNext
  BY <1>1, PointersKeep, LockKeeps, FindKeeps, InstallKeeps DEF AlpnNext
<1>2. CASE UNCHANGED alpnVars
  BY <1>2 DEF alpnVars, ListsInv, Typed, KeptInv, LockInv, NoneStray
<1>. QED
  BY <1>1, <1>2

\* ListsAreKeptOnce: no configuration and no connection is left pointing at
\* memory without a list, and of each list there is one copy, whatever sockets
\* set, agree on and close.
THEOREM ListsStayKept == AlpnSpec => []ListsAreKeptOnce
<1>1. ListsInv => ListsAreKeptOnce
  BY AlpnAssumption
  DEF ListsInv, Typed, KeptInv, NoneStray, ListsAreKeptOnce, AgreedIsReadable, OneCopyEach
<1>. QED
  BY <1>1, ListsInitially, ListsStep, PTL DEF AlpnSpec
=============================================================================
