----------------------------- MODULE FileStore -----------------------------
(***************************************************************************)
(* The file-backed store (FileStore.hx over NativeFileSync.cpp): several   *)
(* processes write one key, each through a temporary file of its own that  *)
(* is flushed, renamed over the value and followed by a flush of the       *)
(* directory, while others read, remove, clear and open the store. A       *)
(* process may die between any two steps and the power may fail, when a    *)
(* file that was not flushed holds anything and the directory is as it was *)
(* at its last flush or at any moment since.                               *)
(***************************************************************************)
EXTENDS Naturals, Sequences, FiniteSets

CONSTANTS
  Processes,   \* the processes, or runtimes, that use the store
  MaxPuts,     \* bound: writes begun
  MaxRemovals, \* bound: removals and clears
  MaxCuts,     \* bound: power cuts and deaths
  Disks,       \* the systems: "posix", "unsynced" (refuses to flush a directory), "windows"
  ReplaceTries, \* attempts at a replace (200 in the code)
  Olds         \* what an earlier version's writer left, which deleted the value
               \* before its rename, flushed nothing and shared a temporary
               \* name, so that two could interleave: "none", "part", "whole"

ASSUME StoreAssumption ==
  /\ MaxPuts \in Nat /\ Olds \subseteq {"none", "part", "whole"}
  /\ Disks \subseteq {"posix", "unsynced", "windows"}

Puts == 1..MaxPuts

\* The file an earlier version left.
Old == MaxPuts + 1

VARIABLES
  disk,        \* the system the store is on
  value,       \* the write whose file is at the key's path, or 0
  temps,       \* the writes whose temporary files are in the directory
  mayBe,       \* the directories <<value, temps>> a power cut may leave
  content,     \* content[w]: what the file of write w holds
  flushed,     \* the writes whose files are on the disk
  begun,       \* how many writes have begun
  doing,       \* doing[p]: the call process p is in
  given,       \* the values the key was given since the last power cut, in order
  toldAt,      \* how many of them there were when the last acknowledged write was made
  refusedPuts, \* the writes that ended in an error
  removals, cuts

storeVars == <<disk, value, temps, mayBe, content, flushed, begun, doing, given,
               toldAt, refusedPuts, removals, cuts>>

listing == <<value, temps>>

StoreInit ==
  /\ disk \in Disks
  /\ value = 0 /\ begun = 0
  /\ \E old \in Olds :
       /\ temps = IF old = "none" THEN {} ELSE {Old}
       /\ content = [w \in Puts \cup {Old} |-> IF w = Old THEN old ELSE "nothing"]
  /\ flushed = {}
  /\ mayBe = {listing}
  /\ doing = [p \in Processes |-> [in |-> "down"]]
  /\ given = <<0>> /\ toldAt = 1 /\ refusedPuts = {} /\ removals = 0 /\ cuts = 0

Does(p, call) == doing' = [doing EXCEPT ![p] = call]
In(p, call) == doing[p].in = call

\* The directory changed: at once for those who look, and on the disk some time.
Entries(v, t) ==
  /\ value' = v /\ temps' = t
  /\ mayBe' = mayBe \cup {<<v, t>>}

-----------------------------------------------------------------------------
\* put: the temporary file made and filled ...
SaveBegins(p) ==
  /\ In(p, "idle") /\ begun < MaxPuts
  /\ begun' = begun + 1
  /\ content' = [content EXCEPT ![begun + 1] = "part"]
  /\ Entries(value, temps \cup {begun + 1})
  /\ Does(p, [in |-> "save", put |-> begun + 1])
  /\ UNCHANGED <<disk, flushed, given, toldAt, refusedPuts, removals, cuts>>

SaveEnds(p) ==
  /\ In(p, "save")
  /\ content' = [content EXCEPT ![doing[p].put] = "whole"]
  /\ Does(p, [doing[p] EXCEPT !.in = "sync"])
  /\ UNCHANGED <<disk, value, temps, mayBe, flushed, begun, given, toldAt,
                 refusedPuts, removals, cuts>>

\* Variant of crossbyte_file_sync: nothing is flushed.
syncNothing(w) == UNCHANGED flushed

\* crossbyte_file_sync: the file opened by its name and flushed.
crossbyte_file_sync(w) == flushed' = flushed \cup {w}

\* ... flushed by name, or refused when it is no longer there ...
Sync(p) ==
  /\ In(p, "sync")
  /\ LET w == doing[p].put
     IN  IF w \in temps
         THEN crossbyte_file_sync(w) /\ Does(p, [in |-> "replace", put |-> w, tries |-> 1])
         ELSE Does(p, [doing[p] EXCEPT !.in = "fail"]) /\ UNCHANGED flushed
  /\ UNCHANGED <<disk, value, temps, mayBe, content, begun, given, toldAt,
                 refusedPuts, removals, cuts>>

\* A reader that has the value open keeps Windows from replacing it.
HeldOpen == disk = "windows" /\ value # 0 /\ \E q \in Processes : In(q, "read")

\* Variant of Renamed: the temporary name stays.
RenamedCopying(w) ==
  /\ given' = Append(given, w)
  /\ value' = w /\ mayBe' = mayBe \cup {<<w, temps>>} /\ UNCHANGED temps

\* The rename made: on Windows it is on the disk when it returns.
Renamed(w) ==
  /\ given' = Append(given, w)
  /\ value' = w /\ temps' = temps \ {w}
  /\ mayBe' = IF disk = "windows" THEN {<<w, temps \ {w}>>}
              ELSE mayBe \cup {<<w, temps \ {w}>>}

\* ... renamed over the old value (crossbyte_file_replace), again after a
\* moment while a reader is in the way, and refused when it still is or
\* when the file is gone ...
Replace(p) ==
  /\ In(p, "replace")
  /\ LET w == doing[p].put
         again == doing[p].tries < ReplaceTries
     IN  IF w \in temps /\ ~HeldOpen
         THEN Renamed(w) /\ Does(p, [in |-> "syncDirectory", put |-> w, at |-> Len(given) + 1])
         ELSE /\ Does(p, IF w \in temps /\ again THEN [doing[p] EXCEPT !.tries = @ + 1]
                         ELSE [in |-> "fail", put |-> w])
              /\ UNCHANGED <<value, temps, mayBe, given>>
  /\ UNCHANGED <<disk, content, flushed, begun, toldAt, refusedPuts, removals, cuts>>

\* Variant of crossbyte_file_sync_directory: nothing to do.
syncDirectoryNever == UNCHANGED mayBe

\* crossbyte_file_sync_directory, where the system lets it.
crossbyte_file_sync_directory ==
  IF disk = "posix" THEN mayBe' = {listing} ELSE UNCHANGED mayBe

\* ... the directory flushed, and the caller told.
SyncDirectory(p) ==
  /\ In(p, "syncDirectory")
  /\ crossbyte_file_sync_directory
  /\ toldAt' = IF doing[p].at > toldAt THEN doing[p].at ELSE toldAt
  /\ Does(p, [in |-> "idle"])
  /\ UNCHANGED <<disk, value, temps, content, flushed, begun, given, refusedPuts, removals, cuts>>

\* A step of it threw: the temporary file is deleted and the caller told.
PutFails(p) ==
  /\ In(p, "fail")
  /\ Entries(value, temps \ {doing[p].put})
  /\ refusedPuts' = refusedPuts \cup {doing[p].put}
  /\ Does(p, [in |-> "idle"])
  /\ UNCHANGED <<disk, content, flushed, begun, given, toldAt, removals, cuts>>

-----------------------------------------------------------------------------
\* get: the file opened while it is there, and read to its end.
GetOpens(p) ==
  /\ In(p, "idle") /\ value # 0
  /\ Does(p, [in |-> "read", put |-> value])
  /\ UNCHANGED <<disk, value, temps, mayBe, content, flushed, begun, given, toldAt,
                 refusedPuts, removals, cuts>>

GetReads(p) ==
  /\ In(p, "read")
  /\ Does(p, [in |-> "idle"])
  /\ UNCHANGED <<disk, value, temps, mayBe, content, flushed, begun, given, toldAt,
                 refusedPuts, removals, cuts>>

\* remove: the value deleted if it is there.
Remove(p) ==
  /\ In(p, "idle") /\ removals < MaxRemovals /\ value # 0 /\ ~HeldOpen
  /\ removals' = removals + 1 /\ given' = Append(given, 0)
  /\ Entries(0, temps)
  /\ UNCHANGED <<disk, content, flushed, begun, doing, toldAt, refusedPuts, cuts>>

\* clear: whatever the directory lists is deleted, one entry after another.
ClearLists(p) ==
  /\ In(p, "idle") /\ removals < MaxRemovals /\ listing # <<0, {}>>
  /\ removals' = removals + 1
  /\ Does(p, [in |-> "clear", entries |-> temps \cup {0}])
  /\ UNCHANGED <<disk, value, temps, mayBe, content, flushed, begun, given, toldAt,
                 refusedPuts, cuts>>

ClearDeletes(p) ==
  /\ In(p, "clear") /\ doing[p].entries # {}
  /\ LET e == CHOOSE e \in doing[p].entries : \A f \in doing[p].entries : e <= f
     IN  /\ IF e = 0 /\ value # 0 /\ ~HeldOpen
            THEN Entries(0, temps) /\ given' = Append(given, 0)
            ELSE Entries(value, temps \ {e}) /\ UNCHANGED given
         /\ Does(p, IF doing[p].entries = {e} THEN [in |-> "idle"]
                    ELSE [doing[p] EXCEPT !.entries = @ \ {e}])
  /\ UNCHANGED <<disk, content, flushed, begun, toldAt, refusedPuts, removals, cuts>>

\* open: what writes that died have left is listed, and deleted.
OpenLists(p) ==
  /\ In(p, "down")
  /\ Does(p, IF temps = {} THEN [in |-> "idle"] ELSE [in |-> "tidy", entries |-> temps])
  /\ UNCHANGED <<disk, value, temps, mayBe, content, flushed, begun, given, toldAt,
                 refusedPuts, removals, cuts>>

OpenDeletes(p) ==
  /\ In(p, "tidy")
  /\ LET e == CHOOSE e \in doing[p].entries : \A f \in doing[p].entries : e <= f
         rest == doing[p].entries \ {e}
         next == IF rest = {} THEN [in |-> "idle"] ELSE [doing[p] EXCEPT !.entries = rest]
     IN  IF e = Old /\ value = 0
         THEN Does(p, [in |-> "promote"]) /\ UNCHANGED <<value, temps, mayBe>>
         ELSE Entries(value, temps \ {e}) /\ Does(p, next)
  /\ UNCHANGED <<disk, content, flushed, begun, given, toldAt, refusedPuts, removals, cuts>>

\* The earlier version's file is taken for the only copy of a key that was not
\* there, whatever it holds: renamed, though the key may have been written
\* since, and deleted when the rename is refused.
OpenPromotes(p) ==
  /\ In(p, "promote")
  /\ IF Old \in temps /\ ~HeldOpen THEN Renamed(Old)
     ELSE Entries(value, temps \ {Old}) /\ UNCHANGED given
  /\ Does(p, [in |-> "idle"])
  /\ UNCHANGED <<disk, content, flushed, begun, toldAt, refusedPuts, removals, cuts>>

-----------------------------------------------------------------------------
\* A process dies: what it wrote stays as it is.
Dies(p) ==
  /\ ~In(p, "down") /\ cuts < MaxCuts
  /\ cuts' = cuts + 1 /\ Does(p, [in |-> "down"])
  /\ UNCHANGED <<disk, value, temps, mayBe, content, flushed, begun, given, toldAt,
                 refusedPuts, removals>>

\* The power fails: the disk holds one of the directories it may, whole files
\* where they were flushed, and whole ones or parts where they were not. What
\* the key was given is counted again from what is found.
PowerCut ==
  /\ cuts < MaxCuts /\ cuts' = cuts + 1
  /\ \E d \in mayBe : /\ value' = d[1] /\ temps' = d[2] /\ mayBe' = {d}
                      /\ given' = <<d[1]>> /\ toldAt' = 1
  /\ \E lost \in SUBSET {w \in (Puts \cup {Old}) \ flushed : content[w] = "whole"} :
       content' = [w \in Puts \cup {Old} |-> IF w \in lost THEN "part" ELSE content[w]]
  /\ doing' = [p \in Processes |-> [in |-> "down"]]
  /\ UNCHANGED <<disk, flushed, begun, refusedPuts, removals>>

StoreNext ==
  \/ \E p \in Processes :
       \/ SaveBegins(p) \/ SaveEnds(p) \/ Sync(p) \/ Replace(p) \/ SyncDirectory(p)
       \/ PutFails(p) \/ GetOpens(p) \/ GetReads(p) \/ Remove(p) \/ ClearLists(p)
       \/ ClearDeletes(p) \/ OpenLists(p) \/ OpenDeletes(p) \/ OpenPromotes(p) \/ Dies(p)
  \/ PowerCut

StoreSpec == StoreInit /\ [][StoreNext]_storeVars

-----------------------------------------------------------------------------
\* The directory names files that were made, and is one a power cut may leave.
StoreTypeOK ==
  /\ value \in 0..begun \cup {Old} /\ temps \subseteq 1..begun \cup {Old}
  /\ value \notin temps /\ listing \in mayBe /\ flushed \subseteq 1..begun \cup {Old}
  /\ begun \in 0..MaxPuts /\ toldAt \in 1..Len(given)

\* Writes are atomic: a value put by this version is whole at the key's path,
\* for a reader now and after a power cut at any moment, and so is the one a
\* reader has open. What an earlier version left, and open() promotes, may not
\* be.
NeverTorn ==
  /\ \A d \in mayBe : d[1] \in Puts => content[d[1]] = "whole" /\ d[1] \in flushed
  /\ \A p \in Processes :
       In(p, "read") /\ doing[p].put \in Puts => content[doing[p].put] = "whole"

\* There is no moment in which the key is absent, or older than a write that
\* was acknowledged, unless it was removed, or an earlier version's file was
\* promoted by an open() that had found no value.
AcknowledgedIsThere == \E k \in toldAt..Len(given) : given[k] = value

\* Nor is it after a power cut, where the system flushes a directory.
AcknowledgedIsDurable ==
  disk # "unsynced" =>
    \A d \in mayBe : \E k \in toldAt..Len(given) : given[k] = d[1]

\* Writers at once each write a whole file of their own, and the last rename
\* wins: a write by a process that goes on ends in success on a disk that works.
WritersDoNotFail == refusedPuts = {}

\* A put that was acknowledged stays, now and after a power cut, until a later
\* one, a removal or a promotion takes its place.
AcknowledgedStays == AcknowledgedIsThere /\ AcknowledgedIsDurable
=============================================================================
