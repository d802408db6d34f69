-------------------------- MODULE FileStoreProofs --------------------------
(***************************************************************************)
(* Proofs about FileStore, for any number of processes, writes, removals   *)
(* and power cuts.                                                         *)
(***************************************************************************)
EXTENDS FileStore, TLAPS

Calls ==
  [in : {"down", "idle", "promote"}]
    \cup [in : {"save", "sync", "fail", "read"}, put : Puts \cup {Old}]
    \cup [in : {"replace"}, put : Puts \cup {Old}, tries : Nat]
    \cup [in : {"syncDirectory"}, put : Puts \cup {Old}, at : Nat]
    \cup [in : {"clear", "tidy"}, entries : SUBSET Nat]

Typed ==
  /\ disk \in {"posix", "unsynced", "windows"}
  /\ begun \in 0..MaxPuts
  /\ content \in [Puts \cup {Old} -> {"none", "nothing", "part", "whole"}]
  /\ flushed \subseteq 1..begun \cup {Old}
  /\ doing \in [Processes -> Calls]
  /\ given \in Seq(Nat) /\ toldAt \in 1..Len(given)

\* The file of write w is whole and on the disk, or an earlier version's, of
\* which nothing is known.
Durable(w) == w = Old \/ (w \in flushed /\ content[w] = "whole")

\* Whatever directory a power cut leaves, what it has at the key's path is
\* durable.
DirectoryInv ==
  /\ listing \in mayBe
  /\ \A d \in mayBe : /\ d[1] = 0 \/ Durable(d[1])
                      /\ d = <<d[1], d[2]>> /\ d[2] \subseteq Nat

\* How far the file of a call is.
CallIsRight(call) ==
  /\ call.in \in {"save", "sync"} => call.put \in 1..begun
  /\ call.in = "sync" => content[call.put] = "whole"
  /\ call.in \in {"replace", "read"} => Durable(call.put)

CallInv == \A p \in Processes : CallIsRight(doing[p])

\* Among the values g, the key was given v at n or later.
GivenSince(g, v, n) == \E k \in n..Len(g) : g[k] = v

\* The key has what it was given last, and a power cut goes back no further
\* than to what is acknowledged, or on Windows to what is about to be.
GivenInv ==
  /\ value = given[Len(given)]
  /\ disk # "unsynced" => \A d \in mayBe : GivenSince(given, d[1], toldAt)
  /\ \A p \in Processes : doing[p].in = "syncDirectory" =>
       /\ doing[p].at \in 1..Len(given)
       /\ disk = "windows" => \A d \in mayBe : GivenSince(given, d[1], doing[p].at)

StoreInv == Typed /\ DirectoryInv /\ CallInv /\ GivenInv

-----------------------------------------------------------------------------
\* The writes are numbered from one, and the earlier version's file comes after.
LEMMA OldIsAWrite == MaxPuts \in Nat /\ Old \in Nat \ {0} /\ Old \notin Puts /\ Puts \subseteq Nat \ {0}
BY StoreAssumption DEF Old, Puts

\* Nothing is at the key's path, whatever an earlier version left beside it.
LEMMA StoreInitially == StoreInit => StoreInv
<1>. SUFFICES ASSUME StoreInit PROVE StoreInv
  OBVIOUS
<1>. USE StoreAssumption, OldIsAWrite DEF StoreInit
<1>1. PICK old \in {"none", "part", "whole"} :
        /\ temps = IF old = "none" THEN {} ELSE {Old}
        /\ content = [w \in Puts \cup {Old} |-> IF w = Old THEN old ELSE "nothing"]
  OBVIOUS
<1>2. Typed
  <2>1. given \in Seq(Nat) /\ toldAt \in 1..Len(given)
    OBVIOUS
  <2>. QED
    BY <1>1, <2>1 DEF Typed, Calls
<1>3. DirectoryInv
  BY <1>1 DEF DirectoryInv, Durable, listing
<1>4. CallInv
  BY DEF CallInv, CallIsRight
<1>5. GivenInv
  BY DEF GivenInv, GivenSince, listing
<1>. QED
  BY <1>2, <1>3, <1>4, <1>5 DEF StoreInv

\* What the directory shows now is as durable as what a power cut may leave.
LEMMA ListedIsDurable ==
  ASSUME StoreInv
  PROVE  (value = 0 \/ Durable(value)) /\ temps \subseteq Nat
<1>1. listing[1] = value /\ listing[2] = temps
  BY DEF listing
<1>. QED
  BY <1>1 DEF StoreInv, DirectoryInv

\* A step of one process that writes no file.
LEMMA CallKeeps ==
  ASSUME StoreInv, NEW p \in Processes, NEW call \in Calls, Does(p, call),
         CallIsRight(call), UNCHANGED <<content, flushed, begun>>
  PROVE  CallInv' /\ doing' \in [Processes -> Calls]
<1>1. doing' \in [Processes -> Calls]
  BY DEF StoreInv, Typed, Does
<1>2. \A c : CallIsRight(c)' <=> CallIsRight(c)
  BY DEF CallIsRight, Durable
<1>3. \A q \in Processes : doing'[q] = doing[q] \/ doing'[q] = call
  BY DEF StoreInv, Typed, Does
<1>4. ASSUME NEW q \in Processes PROVE CallIsRight(doing[q])'
  <2>1. CallIsRight(doing'[q])
    BY <1>3 DEF StoreInv, CallInv
  <2>. QED
    BY <2>1 DEF CallIsRight, Durable
<1>. QED
  BY <1>1, <1>4 DEF CallInv

\* A step of one process that changes neither a file nor the directory.
LEMMA QuietKeeps ==
  ASSUME StoreInv, NEW p \in Processes, NEW call \in Calls, Does(p, call),
         CallIsRight(call), call.in # "syncDirectory",
         UNCHANGED <<disk, value, temps, mayBe, content, flushed, begun, given, toldAt>>
  PROVE  StoreInv'
<1>1. Typed'
  BY CallKeeps DEF StoreInv, Typed
<1>2. DirectoryInv'
  BY DEF StoreInv, DirectoryInv, Durable, listing
<1>3. CallInv'
  BY CallKeeps
<1>4. GivenInv'
  BY DEF StoreInv, GivenInv, GivenSince, Typed, Does
<1>. QED
  BY <1>1, <1>2, <1>3, <1>4 DEF StoreInv

\* An entry added or taken away beside the key's path.
LEMMA EntriesKeep ==
  ASSUME StoreInv, NEW v, NEW t, Entries(v, t),
         v = 0 \/ v = value, t \subseteq Nat,
         UNCHANGED <<flushed, content>>
  PROVE  DirectoryInv'
<1>1. value = 0 \/ Durable(value)
  BY ListedIsDurable
<1>2. \A w : Durable(w)' <=> Durable(w)
  BY DEF Durable
<1>3. v = 0 \/ Durable(v)
  BY <1>1
<1>4. \A d \in mayBe' : d \in mayBe \/ d = <<v, t>>
  BY DEF Entries
<1>5. listing' \in mayBe'
  BY DEF Entries, listing
<1>. QED
  BY <1>2, <1>3, <1>4, <1>5 DEF StoreInv, DirectoryInv

\* The directory changes and the key is given what it has at the key's path
\* now, which may be what it had.
LEMMA GivenKeeps ==
  ASSUME StoreInv, NEW v \in Nat, NEW t,
         value' = v, mayBe' \subseteq mayBe \cup {<<v, t>>},
         (given' = given /\ v = value) \/ given' = Append(given, v),
         UNCHANGED <<disk, toldAt>>,
         \A p \in Processes : doing'[p].in = "syncDirectory" =>
           \/ doing'[p] = doing[p]
           \/ /\ doing'[p].at = Len(given')
              /\ disk = "windows" => mayBe' = {<<v, t>>}
  PROVE  GivenInv' /\ given' \in Seq(Nat) /\ toldAt' \in 1..Len(given')
<1>. USE DEF StoreInv, Typed
<1>1. /\ given' \in Seq(Nat) /\ Len(given) \in Nat /\ Len(given') \in Nat
      /\ Len(given) >= 1 /\ Len(given') >= Len(given)
      /\ given'[Len(given')] = v
      /\ \A k \in 1..Len(given) : given'[k] = given[k]
  <2>0. Len(given) \in Nat /\ Len(given) >= 1
    OBVIOUS
  <2>1. CASE given' = given /\ v = value
    BY <2>0, <2>1 DEF GivenInv
  <2>2. CASE given' = Append(given, v)
    BY <2>0, <2>2
  <2>. QED
    BY <2>1, <2>2
<1>2. toldAt' \in 1..Len(given')
  BY <1>1
<1>3. \A d \in mayBe' : d \in mayBe \/ d[1] = v
  OBVIOUS
<1>4. ASSUME NEW n \in 1..Len(given), NEW d \in mayBe',
             d \in mayBe => GivenSince(given, d[1], n)
      PROVE  GivenSince(given', d[1], n)
  <2>1. CASE d \in mayBe
    <3>1. PICK k \in n..Len(given) : given[k] = d[1]
      BY <1>4, <2>1 DEF GivenSince
    <3>2. k \in n..Len(given') /\ k \in 1..Len(given)
      BY <1>1
    <3>. QED
      BY <1>1, <3>1, <3>2 DEF GivenSince
  <2>2. CASE d[1] = v
    BY <1>1, <2>2 DEF GivenSince
  <2>. QED
    BY <1>3, <2>1, <2>2
<1>5. disk' # "unsynced" => \A d \in mayBe' : GivenSince(given', d[1], toldAt')
  BY <1>4 DEF GivenInv
<1>6. ASSUME NEW p \in Processes, doing'[p].in = "syncDirectory"
      PROVE  /\ doing'[p].at \in 1..Len(given')
             /\ disk' = "windows" =>
                  \A d \in mayBe' : GivenSince(given', d[1], doing'[p].at)
  <2>1. CASE doing'[p] = doing[p]
    <3>1. /\ doing[p].at \in 1..Len(given)
          /\ disk = "windows" => \A d \in mayBe : GivenSince(given, d[1], doing[p].at)
      BY <1>6, <2>1 DEF GivenInv
    <3>. QED
      BY <1>1, <1>4, <2>1, <3>1
  <2>2. CASE doing'[p].at = Len(given') /\ (disk = "windows" => mayBe' = {<<v, t>>})
    BY <1>1, <2>2 DEF GivenSince
  <2>. QED
    BY <1>6, <2>1, <2>2
<1>. QED
  BY <1>1, <1>2, <1>5, <1>6 DEF GivenInv

\* The key's path has the file of a write, or nothing.
LEMMA ValueIsNat ==
  ASSUME StoreInv
  PROVE  value \in Nat
<1>1. flushed \subseteq Nat
  BY OldIsAWrite DEF StoreInv, Typed
<1>2. value = 0 \/ Durable(value)
  BY ListedIsDurable
<1>3. CASE Durable(value)
  BY <1>1, <1>3, OldIsAWrite DEF Durable
<1>. QED
  BY <1>2, <1>3

\* An entry deleted, the key's or another, by a process that goes on to call.
LEMMA DeleteKeeps ==
  ASSUME StoreInv, NEW p \in Processes, NEW call \in Calls, Does(p, call),
         CallIsRight(call), call.in # "syncDirectory",
         NEW v, NEW t, t \subseteq temps, Entries(v, t),
         (v = value /\ UNCHANGED given) \/ (v = 0 /\ given' = Append(given, 0)),
         UNCHANGED <<disk, content, flushed, begun, toldAt>>
  PROVE  StoreInv'
<1>1. DirectoryInv'
  BY ListedIsDurable, EntriesKeep
<1>2. CallInv' /\ doing' \in [Processes -> Calls]
  BY CallKeeps
<1>3. \A q \in Processes : doing'[q].in = "syncDirectory" => doing'[q] = doing[q]
  BY DEF StoreInv, Typed, Does
<1>4. v \in Nat /\ value' = v /\ mayBe' \subseteq mayBe \cup {<<v, t>>}
  BY ValueIsNat DEF Entries
<1>5. GivenInv' /\ given' \in Seq(Nat) /\ toldAt' \in 1..Len(given')
  BY <1>3, <1>4, GivenKeeps
<1>6. Typed'
  BY <1>2, <1>5 DEF StoreInv, Typed
<1>. QED
  BY <1>1, <1>2, <1>5, <1>6 DEF StoreInv

-----------------------------------------------------------------------------
\* A put, as far as its file is whole.
LEMMA SaveKeeps ==
  ASSUME StoreInv, NEW p \in Processes, SaveBegins(p) \/ SaveEnds(p)
  PROVE  StoreInv'
<1>. USE OldIsAWrite DEF StoreInv
<1>1. CASE SaveBegins(p)
  <2>. DEFINE w == begun + 1
  <2>1. w \in Puts /\ w \in 1..begun' /\ w \notin flushed /\ w # Old /\ 1..begun \subseteq 1..begun'
    BY <1>1 DEF SaveBegins, Typed, Puts, Old
  <2>2. \A u : Durable(u) => Durable(u)'
    BY <1>1, <2>1 DEF SaveBegins, Durable, Typed
  <2>3. doing' = [doing EXCEPT ![p] = [in |-> "save", put |-> w]]
    BY <1>1 DEF SaveBegins, Does
  <2>4. Typed'
    <3>1. content' \in [Puts \cup {Old} -> {"none", "nothing", "part", "whole"}]
      BY <1>1, <2>1 DEF SaveBegins, Typed
    <3>2. doing' \in [Processes -> Calls]
      BY <2>1, <2>3 DEF Typed, Calls
    <3>3. begun' \in 0..MaxPuts /\ flushed' \subseteq 1..begun' \cup {Old}
      BY <1>1, <2>1 DEF SaveBegins, Typed
    <3>. QED
      BY <1>1, <3>1, <3>2, <3>3 DEF SaveBegins, Typed
  <2>5. DirectoryInv'
    <3>1. (value = 0 \/ Durable(value)) /\ temps \subseteq Nat
      BY ListedIsDurable
    <3>2. \A d \in mayBe' : d \in mayBe \/ d = <<value, temps \cup {w}>>
      BY <1>1 DEF SaveBegins, Entries
    <3>3. listing' \in mayBe'
      BY <1>1 DEF SaveBegins, Entries, listing
    <3>. QED
      BY <2>1, <2>2, <3>1, <3>2, <3>3 DEF DirectoryInv
  <2>6. CallInv'
    <3>1. ASSUME NEW q \in Processes PROVE CallIsRight(doing[q])'
      <4>1. CASE q = p
        BY <2>1, <2>3, <4>1 DEF CallIsRight, Typed
      <4>2. CASE q # p
        <5>1. doing'[q] = doing[q] /\ CallIsRight(doing[q])
          BY <2>3, <4>2 DEF CallInv, Typed
        <5>2. doing[q].in = "sync" => content'[doing[q].put] = "whole"
          BY <1>1, <2>1, <5>1 DEF SaveBegins, CallIsRight, Typed, Puts
        <5>. QED
          BY <2>1, <2>2, <5>1, <5>2 DEF CallIsRight
      <4>. QED
        BY <4>1, <4>2
    <3>. QED
      BY <3>1 DEF CallInv
  <2>7. GivenInv'
    <3>1. \A q \in Processes : doing'[q].in = "syncDirectory" => doing'[q] = doing[q]
      BY <2>3 DEF Typed
    <3>2. value \in Nat /\ value' = value /\ mayBe' \subseteq mayBe \cup {<<value, temps \cup {w}>>}
      BY <1>1, ValueIsNat DEF SaveBegins, Entries
    <3>. QED
      BY <1>1, <3>1, <3>2, GivenKeeps DEF SaveBegins
  <2>. QED
    BY <2>4, <2>5, <2>6, <2>7
<1>2. CASE SaveEnds(p)
  <2>. DEFINE w == doing[p].put
  <2>1. w \in 1..begun /\ doing[p] \in Calls /\ doing[p].in = "save"
    BY <1>2 DEF SaveEnds, In, CallInv, CallIsRight, Typed
  <2>2. doing[p] = [in |-> "save", put |-> w] /\ w \in Puts
    BY <2>1 DEF Calls, Puts, Typed
  <2>3. doing' = [doing EXCEPT ![p] = [in |-> "sync", put |-> w]]
    <3>1. [[in |-> "save", put |-> w] EXCEPT !.in = "sync"] = [in |-> "sync", put |-> w]
      OBVIOUS
    <3>2. doing' = [doing EXCEPT ![p] = [doing[p] EXCEPT !.in = "sync"]]
      BY <1>2 DEF SaveEnds, Does
    <3>. QED
      BY <2>2, <3>1, <3>2
  <2>4. content' = [content EXCEPT ![w] = "whole"]
    BY <1>2 DEF SaveEnds
  <2>5. \A u : Durable(u) => Durable(u)'
    BY <1>2, <2>4 DEF SaveEnds, Durable, Typed
  <2>6. Typed'
    <3>1. content' \in [Puts \cup {Old} -> {"none", "nothing", "part", "whole"}]
      BY <2>4 DEF Typed
    <3>2. doing' \in [Processes -> Calls]
      BY <2>2, <2>3 DEF Typed, Calls
    <3>. QED
      BY <1>2, <3>1, <3>2 DEF SaveEnds, Typed
  <2>7. DirectoryInv'
    BY <1>2, <2>5 DEF SaveEnds, DirectoryInv, listing
  <2>8. CallInv'
    BY <1>2, <2>1, <2>2, <2>3, <2>4, <2>5 DEF SaveEnds, CallInv, CallIsRight, Typed
  <2>9. GivenInv'
    BY <1>2, <2>3 DEF SaveEnds, GivenInv, Typed
  <2>. QED
    BY <2>6, <2>7, <2>8, <2>9
<1>. QED
  BY <1>1, <1>2

\* The file a put renames has been flushed whole.
LEMMA SyncKeeps ==
  ASSUME StoreInv, NEW p \in Processes, Sync(p)
  PROVE  StoreInv'
<1>. USE OldIsAWrite DEF StoreInv
<1>. DEFINE w == doing[p].put
<1>1. w \in 1..begun /\ content[w] = "whole" /\ doing[p] \in Calls /\ doing[p].in = "sync"
  BY DEF Sync, In, CallInv, CallIsRight, Typed
<1>2. doing[p] = [in |-> "sync", put |-> w] /\ w \in Puts
  BY <1>1 DEF Calls, Puts, Typed
<1>3. CASE w \in temps
  <2>1. /\ flushed' = flushed \cup {w}
        /\ doing' = [doing EXCEPT ![p] = [in |-> "replace", put |-> w, tries |-> 1]]
    BY <1>3 DEF Sync, crossbyte_file_sync, Does
  <2>2. \A u : Durable(u) => Durable(u)'
    BY <2>1 DEF Sync, Durable
  <2>3. Durable(w)'
    BY <1>1, <2>1 DEF Sync, Durable
  <2>4. doing' \in [Processes -> Calls]
    BY <1>2, <2>1 DEF Typed, Calls
  <2>5. Typed'
    BY <1>1, <2>1, <2>4 DEF Sync, Typed
  <2>6. DirectoryInv'
    BY <2>2 DEF Sync, DirectoryInv, listing
  <2>7. CallInv'
    BY <2>1, <2>2, <2>3 DEF Sync, CallInv, CallIsRight, Typed
  <2>8. GivenInv'
    BY <2>1 DEF Sync, GivenInv, Typed
  <2>. QED
    BY <2>5, <2>6, <2>7, <2>8
<1>4. CASE w \notin temps
  <2>1. [[in |-> "sync", put |-> w] EXCEPT !.in = "fail"] = [in |-> "fail", put |-> w]
    OBVIOUS
  <2>2. Does(p, [in |-> "fail", put |-> w])
    BY <1>2, <1>4, <2>1 DEF Sync
  <2>3. [in |-> "fail", put |-> w] \in Calls
    BY <1>2 DEF Calls
  <2>4. CallIsRight([in |-> "fail", put |-> w])
    BY DEF CallIsRight
  <2>5. UNCHANGED <<disk, value, temps, mayBe, content, flushed, begun, given, toldAt>>
    BY <1>4 DEF Sync
  <2>. QED
    BY <2>2, <2>3, <2>4, <2>5, QuietKeeps
<1>. QED
  BY <1>3, <1>4

\* A file that is whole and on the disk takes the key's path.
LEMMA RenameKeeps ==
  ASSUME StoreInv, NEW p \in Processes, NEW call \in Calls, Does(p, call),
         CallIsRight(call), call.in = "syncDirectory" => call.at = Len(given) + 1,
         NEW w \in Nat, Durable(w), Renamed(w),
         UNCHANGED <<disk, content, flushed, begun, toldAt>>
  PROVE  StoreInv'
<1>. USE DEF StoreInv
<1>1. CallInv' /\ doing' \in [Processes -> Calls]
  BY CallKeeps
<1>2. /\ value' = w /\ temps' = temps \ {w} /\ given' = Append(given, w)
      /\ mayBe' \subseteq mayBe \cup {<<w, temps \ {w}>>}
      /\ <<w, temps \ {w}>> \in mayBe'
      /\ disk = "windows" => mayBe' = {<<w, temps \ {w}>>}
  BY DEF Renamed
<1>3. DirectoryInv'
  <2>1. temps \subseteq Nat
    BY ListedIsDurable
  <2>2. \A u : Durable(u)' <=> Durable(u)
    BY DEF Durable
  <2>3. \A d \in mayBe' : d \in mayBe \/ d = <<w, temps \ {w}>>
    BY <1>2
  <2>4. listing' \in mayBe'
    BY <1>2 DEF listing
  <2>. QED
    BY <2>1, <2>2, <2>3, <2>4 DEF DirectoryInv
<1>4. GivenInv' /\ given' \in Seq(Nat) /\ toldAt' \in 1..Len(given')
  <2>1. Len(given') = Len(given) + 1
    BY <1>2 DEF Typed
  <2>2. \A q \in Processes : doing'[q].in = "syncDirectory" =>
          \/ doing'[q] = doing[q]
          \/ /\ doing'[q].at = Len(given')
             /\ disk = "windows" => mayBe' = {<<w, temps \ {w}>>}
    BY <1>2, <2>1 DEF Typed, Does
  <2>. QED
    BY <1>2, <2>2, GivenKeeps
<1>5. Typed'
  BY <1>1, <1>4 DEF Typed
<1>. QED
  BY <1>1, <1>3, <1>4, <1>5

\* crossbyte_file_replace: the rename made, tried again or given up.
LEMMA ReplaceKeeps ==
  ASSUME StoreInv, NEW p \in Processes, Replace(p)
  PROVE  StoreInv'
<1>. USE OldIsAWrite DEF StoreInv
<1>. DEFINE w == doing[p].put
            n == doing[p].tries
<1>1. Durable(w) /\ doing[p] \in Calls /\ doing[p].in = "replace"
  BY DEF Replace, In, CallInv, CallIsRight, Typed
<1>2. doing[p] = [in |-> "replace", put |-> w, tries |-> n] /\ w \in Puts \cup {Old} /\ n \in Nat
  BY <1>1 DEF Calls
<1>3. CASE w \in temps /\ ~HeldOpen
  <2>. DEFINE call == [in |-> "syncDirectory", put |-> w, at |-> Len(given) + 1]
  <2>1. Renamed(w) /\ Does(p, call)
    BY <1>3 DEF Replace
  <2>2. call \in Calls /\ CallIsRight(call)
    BY <1>2 DEF Calls, CallIsRight, Typed
  <2>3. UNCHANGED <<disk, content, flushed, begun, toldAt>>
    BY DEF Replace
  <2>4. w \in Nat /\ (call.in = "syncDirectory" => call.at = Len(given) + 1)
    BY <1>2
  <2>. QED
    BY <1>1, <2>1, <2>2, <2>3, <2>4, RenameKeeps
<1>4. CASE ~(w \in temps /\ ~HeldOpen)
  <2>. DEFINE again == [in |-> "replace", put |-> w, tries |-> n + 1]
              fail == [in |-> "fail", put |-> w]
  <2>1. [[in |-> "replace", put |-> w, tries |-> n] EXCEPT !.tries = @ + 1] = again
    OBVIOUS
  <2>2. Does(p, [doing[p] EXCEPT !.tries = @ + 1]) \/ Does(p, fail)
    BY <1>4 DEF Replace
  <2>3. Does(p, again) \/ Does(p, fail)
    BY <1>2, <2>1, <2>2
  <2>4. again \in Calls /\ fail \in Calls
    BY <1>2 DEF Calls
  <2>5. CallIsRight(again) /\ CallIsRight(fail)
    BY <1>1 DEF CallIsRight
  <2>6. UNCHANGED <<disk, value, temps, mayBe, content, flushed, begun, given, toldAt>>
    BY <1>4 DEF Replace
  <2>7. again.in # "syncDirectory" /\ fail.in # "syncDirectory"
    OBVIOUS
  <2>. HIDE DEF again, fail
  <2>. QED
    BY <2>3, <2>4, <2>5, <2>6, <2>7, QuietKeeps
<1>. QED
  BY <1>3, <1>4

\* The put is acknowledged once a power cut cannot take it back.
LEMMA AcknowledgeKeeps ==
  ASSUME StoreInv, NEW p \in Processes, SyncDirectory(p)
  PROVE  StoreInv'
<1>. USE DEF StoreInv
<1>. DEFINE n == doing[p].at
<1>1. /\ n \in 1..Len(given)
      /\ disk = "windows" => \A d \in mayBe : GivenSince(given, d[1], n)
  BY DEF SyncDirectory, In, GivenInv
<1>2. Does(p, [in |-> "idle"]) /\ UNCHANGED <<disk, value, temps, content, flushed, begun, given>>
  BY DEF SyncDirectory
<1>3. [in |-> "idle"] \in Calls /\ CallIsRight([in |-> "idle"])
  BY DEF Calls, CallIsRight
<1>4. CallInv' /\ doing' \in [Processes -> Calls]
  BY <1>2, <1>3, CallKeeps
<1>5. toldAt' \in {n, toldAt} /\ toldAt' \in 1..Len(given)
  BY <1>1 DEF SyncDirectory, Typed
<1>6. Typed'
  BY <1>2, <1>4, <1>5 DEF Typed
<1>7. /\ disk = "posix" => mayBe' = {listing}
      /\ disk # "posix" => mayBe' = mayBe
  BY DEF SyncDirectory, crossbyte_file_sync_directory
<1>8. DirectoryInv'
  <2>1. mayBe' \subseteq mayBe /\ listing' \in mayBe'
    BY <1>2, <1>7 DEF DirectoryInv, listing
  <2>2. \A u : Durable(u)' <=> Durable(u)
    BY <1>2 DEF Durable
  <2>. QED
    BY <2>1, <2>2 DEF DirectoryInv
<1>9. GivenInv'
  <2>1. value' = given'[Len(given')]
    BY <1>2 DEF GivenInv
  <2>2. ASSUME disk # "unsynced", NEW d \in mayBe' PROVE GivenSince(given', d[1], toldAt')
    <3>1. CASE disk = "posix"
      <4>1. d[1] = given[Len(given)]
        BY <1>7, <3>1 DEF GivenInv, listing
      <4>2. Len(given) \in toldAt'..Len(given)
        BY <1>5 DEF Typed
      <4>. QED
        BY <1>2, <4>1, <4>2 DEF GivenSince
    <3>2. CASE disk = "windows"
      BY <1>1, <1>2, <1>5, <1>7, <2>2, <3>2 DEF GivenInv
    <3>. QED
      BY <2>2, <3>1, <3>2 DEF Typed
  <2>3. \A q \in Processes : doing'[q].in = "syncDirectory" => doing'[q] = doing[q]
    BY <1>2 DEF Does, Typed
  <2>. QED
    BY <1>2, <1>7, <2>1, <2>2, <2>3 DEF GivenInv
<1>. QED
  BY <1>4, <1>6, <1>8, <1>9

\* The calls that read, list and delete, and a process that dies.
LEMMA OthersKeep ==
  ASSUME StoreInv, NEW p \in Processes,
         \/ PutFails(p) \/ GetOpens(p) \/ GetReads(p) \/ Remove(p) \/ ClearLists(p)
         \/ ClearDeletes(p) \/ OpenLists(p) \/ OpenDeletes(p) \/ OpenPromotes(p) \/ Dies(p)
  PROVE  StoreInv'
<1>. USE DEF StoreInv
<1>. DEFINE idle == [in |-> "idle"]
            down == [in |-> "down"]
            promote == [in |-> "promote"]
<1>0. \A call \in {idle, down, promote} :
        call \in Calls /\ CallIsRight(call) /\ call.in # "syncDirectory"
  BY DEF Calls, CallIsRight
<1>1. ASSUME NEW call \in {"clear", "tidy"}, NEW S \in SUBSET Nat
      PROVE  LET c == [in |-> call, entries |-> S]
             IN  c \in Calls /\ CallIsRight(c) /\ c.in # "syncDirectory"
  BY DEF Calls, CallIsRight
<1>2. temps \subseteq Nat /\ (value = 0 \/ Durable(value))
  BY ListedIsDurable
<1>. HIDE DEF idle, down, promote
<1>3. CASE PutFails(p)
  BY <1>0, <1>3, DeleteKeeps DEF PutFails, idle
<1>4. CASE GetOpens(p)
  <2>1. Durable(value) /\ value \in Puts \cup {Old}
    <3>1. Durable(value)
      BY <1>2, <1>4 DEF GetOpens
    <3>2. flushed \subseteq Puts \cup {Old}
      BY OldIsAWrite DEF Typed, Puts
    <3>. QED
      BY <3>1, <3>2 DEF Durable
  <2>2. /\ [in |-> "read", put |-> value] \in Calls
        /\ CallIsRight([in |-> "read", put |-> value])
        /\ [in |-> "read", put |-> value].in # "syncDirectory"
    BY <2>1 DEF Calls, CallIsRight
  <2>. QED
    BY <1>4, <2>2, QuietKeeps DEF GetOpens
<1>5. CASE GetReads(p) \/ Dies(p)
  BY <1>0, <1>5, QuietKeeps DEF GetReads, Dies, idle, down
<1>6. CASE Remove(p)
  <2>1. doing[p].in = "idle" /\ doing[p] \in Calls /\ CallIsRight(doing[p])
    BY <1>6 DEF Remove, In, Typed, CallInv
  <2>2. Does(p, doing[p])
    BY <1>6 DEF Remove, Does, Typed
  <2>. QED
    BY <1>6, <2>1, <2>2, DeleteKeeps DEF Remove
<1>7. CASE ClearLists(p)
  <2>1. temps \cup {0} \in SUBSET Nat
    BY <1>2
  <2>. QED
    BY <1>1, <1>7, <2>1, QuietKeeps DEF ClearLists
<1>8. CASE OpenLists(p)
  BY <1>0, <1>1, <1>2, <1>8, QuietKeeps DEF OpenLists, idle
<1>9. ASSUME doing[p].in \in {"clear", "tidy"}, NEW e
      PROVE  LET c == [doing[p] EXCEPT !.entries = doing[p].entries \ {e}]
             IN  c \in Calls /\ CallIsRight(c) /\ c.in # "syncDirectory"
  <2>1. PICK call \in {"clear", "tidy"}, E \in SUBSET Nat :
          doing[p] = [in |-> call, entries |-> E]
    BY <1>9 DEF Typed, Calls
  <2>2. [doing[p] EXCEPT !.entries = doing[p].entries \ {e}]
          = [in |-> call, entries |-> E \ {e}]
    BY <2>1
  <2>3. E \ {e} \in SUBSET Nat
    OBVIOUS
  <2>. QED
    BY <1>1, <2>2, <2>3
<1>10. CASE ClearDeletes(p)
  <2>1. PICK e, call :
          /\ Does(p, call)
          /\ call = idle \/ call = [doing[p] EXCEPT !.entries = doing[p].entries \ {e}]
          /\ \/ Entries(0, temps) /\ given' = Append(given, 0)
             \/ Entries(value, temps \ {e}) /\ UNCHANGED given
          /\ UNCHANGED <<disk, content, flushed, begun, toldAt>>
    BY <1>10 DEF ClearDeletes, idle
  <2>2. call \in Calls /\ CallIsRight(call) /\ call.in # "syncDirectory"
    BY <1>0, <1>9, <1>10, <2>1 DEF ClearDeletes, In
  <2>. QED
    BY <2>1, <2>2, DeleteKeeps
<1>11. CASE OpenDeletes(p)
  <2>1. PICK e, call :
          /\ Does(p, call)
          /\ \/ call = promote /\ UNCHANGED <<value, temps, mayBe>>
             \/ /\ call = idle \/ call = [doing[p] EXCEPT !.entries = doing[p].entries \ {e}]
                /\ Entries(value, temps \ {e})
          /\ UNCHANGED <<disk, content, flushed, begun, given, toldAt>>
    BY <1>11 DEF OpenDeletes, idle, promote
  <2>2. call \in Calls /\ CallIsRight(call) /\ call.in # "syncDirectory"
    BY <1>0, <1>9, <1>11, <2>1 DEF OpenDeletes, In
  <2>. QED
    BY <2>1, <2>2, DeleteKeeps, QuietKeeps
<1>12. CASE OpenPromotes(p)
  <2>1. Does(p, idle) /\ UNCHANGED <<disk, content, flushed, begun, toldAt>>
    BY <1>12 DEF OpenPromotes, idle
  <2>2. CASE Renamed(Old)
    <3>1. Old \in Nat /\ Durable(Old)
      BY OldIsAWrite DEF Durable
    <3>. QED
      BY <1>0, <2>1, <2>2, <3>1, RenameKeeps
  <2>3. CASE Entries(value, temps \ {Old}) /\ UNCHANGED given
    BY <1>0, <2>1, <2>3, DeleteKeeps
  <2>. QED
    BY <1>12, <2>2, <2>3 DEF OpenPromotes
<1>. QED
  BY <1>3, <1>4, <1>5, <1>6, <1>7, <1>8, <1>10, <1>11, <1>12

\* A power cut leaves one of the directories it may, and flushed files whole.
LEMMA PowerCutKeeps ==
  ASSUME StoreInv, PowerCut
  PROVE  StoreInv'
<1>. USE DEF StoreInv
<1>1. PICK d \in mayBe : /\ value' = d[1] /\ temps' = d[2] /\ mayBe' = {d}
                         /\ given' = <<d[1]>> /\ toldAt' = 1
  BY DEF PowerCut
<1>2. PICK lost \in SUBSET {w \in (Puts \cup {Old}) \ flushed : content[w] = "whole"} :
        content' = [w \in Puts \cup {Old} |-> IF w \in lost THEN "part" ELSE content[w]]
  BY DEF PowerCut
<1>3. /\ doing' = [p \in Processes |-> [in |-> "down"]]
      /\ UNCHANGED <<disk, flushed, begun>>
  BY DEF PowerCut
<1>4. flushed \subseteq Puts \cup {Old}
  BY OldIsAWrite DEF Typed, Puts
<1>5. \A w : Durable(w) => Durable(w)'
  BY <1>2, <1>3, <1>4 DEF Durable
<1>6. d[1] \in Nat
  <2>1. flushed \subseteq Nat
    BY <1>4, OldIsAWrite
  <2>2. d[1] = 0 \/ d[1] = Old \/ d[1] \in flushed
    BY DEF DirectoryInv, Durable
  <2>3. CASE d[1] \in flushed
    BY <2>1, <2>3
  <2>. QED
    BY <2>2, <2>3, OldIsAWrite
<1>7. Typed'
  <2>1. content' \in [Puts \cup {Old} -> {"none", "nothing", "part", "whole"}]
    BY <1>2 DEF Typed
  <2>2. given' \in Seq(Nat) /\ Len(given') = 1 /\ given'[1] = d[1]
    BY <1>1, <1>6
  <2>3. doing' \in [Processes -> Calls]
    BY <1>3 DEF Calls
  <2>. QED
    BY <1>1, <1>3, <2>1, <2>2, <2>3 DEF Typed
<1>8. DirectoryInv'
  <2>1. listing' \in mayBe'
    BY <1>1 DEF DirectoryInv, listing
  <2>. QED
    BY <1>1, <1>5, <2>1 DEF DirectoryInv
<1>9. CallInv'
  BY <1>3 DEF CallInv, CallIsRight
<1>10. GivenInv'
  <2>1. Len(given') = 1 /\ given'[1] = d[1]
    BY <1>1
  <2>. QED
    BY <1>1, <1>3, <2>1 DEF GivenInv, GivenSince
<1>. QED
  BY <1>7, <1>8, <1>9, <1>10

\* Every step of the processes, and a power cut, keeps the invariant.
LEMMA StoreStep == StoreInv /\ [StoreNext]_storeVars => StoreInv'
<1>. SUFFICES ASSUME StoreInv, [StoreNext]_storeVars PROVE StoreInv'
  OBVIOUS
<1>1. CASE StoreNext
  BY <1>1, SaveKeeps, SyncKeeps, ReplaceKeeps, AcknowledgeKeeps, OthersKeep, PowerCutKeeps
  DEF StoreNext
<1>2. CASE UNCHANGED storeVars
  BY <1>2
  DEF storeVars, StoreInv, Typed, DirectoryInv, CallInv, CallIsRight, GivenInv, Durable, listing
<1>. QED
  BY <1>1, <1>2

\* The four parts of StoreInv hold together, through every step and cut.
THEOREM StoreInvariance == StoreSpec => []StoreInv
  BY StoreInitially, StoreStep, PTL DEF StoreSpec

\* NeverTorn: however many processes write, remove, clear, open and die at
\* once, and whatever file an earlier version left to be promoted, a value put
\* by this version that a reader finds at the key's path, now or after a power
\* cut at any moment, is whole.
THEOREM ValuesStayWhole == StoreSpec => []NeverTorn
<1>1. StoreInv => NeverTorn
  BY OldIsAWrite DEF StoreInv, DirectoryInv, CallInv, CallIsRight, Durable, In, NeverTorn
<1>. QED
  BY <1>1, StoreInvariance, PTL

\* AcknowledgedStays: a put that was acknowledged is followed only by what
\* came after it, also after a power cut where the system flushes directories.
THEOREM AcknowledgedStay == StoreSpec => []AcknowledgedStays
<1>1. ASSUME StoreInv PROVE AcknowledgedIsThere
  <2>1. Len(given) \in toldAt..Len(given)
    BY <1>1 DEF StoreInv, Typed
  <2>. QED
    BY <1>1, <2>1 DEF StoreInv, GivenInv, AcknowledgedIsThere
<1>2. StoreInv => AcknowledgedIsDurable
  BY DEF StoreInv, GivenInv, GivenSince, AcknowledgedIsDurable
<1>3. StoreInv => AcknowledgedStays
  BY <1>1, <1>2 DEF AcknowledgedStays
<1>. QED
  BY <1>3, StoreInvariance, PTL
=============================================================================
