-------------------------------- MODULE Alpn --------------------------------
(***************************************************************************)
(* The protocol lists installed on TLS configurations (NativeAlpn.cpp).    *)
(* mbedTLS keeps a configuration's list by reference, and a connection     *)
(* keeps a pointer into the list its handshake chose from, so each list    *)
(* must outlive its socket, its configuration and its connections. One     *)
(* copy of each distinct list is kept, under a lock, for the process.      *)
(***************************************************************************)
EXTENDS FiniteSets

CONSTANTS
  Sockets,    \* the threads, each with a configuration it builds
  Accepted,   \* the connections that may be made on any configuration
  Lists,      \* lists of protocol names
  RefusedLists,    \* the lists mbedTLS will not take
  Places,     \* where a list may be allocated
  Nowhere     \* the null pointer

NoList == "no list"

ASSUME AlpnAssumption ==
  RefusedLists \subseteq Lists /\ NoList \notin Lists /\ Nowhere \notin Places \cup Sockets

VARIABLES
  listAt,     \* listAt[p]: the names of the list at p, or NoList when p is free
  interned,   \* gInterned
  alpnLock,   \* gLock: the socket whose thread holds it, or Nowhere
  alpnList,   \* alpnList[s]: alpn_list of the configuration of s
  agreed,     \* agreed[c]: the list connection c chose from, or Nowhere
  setting     \* setting[s]: the call its thread is in

alpnVars == <<listAt, interned, alpnLock, alpnList, agreed, setting>>

NotSetting == [at |-> "idle"]

AlpnInit ==
  /\ listAt = [p \in Places |-> NoList] /\ interned = {} /\ alpnLock = Nowhere
  /\ alpnList = [s \in Sockets |-> Nowhere]
  /\ agreed = [c \in Accepted |-> Nowhere]
  /\ setting = [s \in Sockets |-> NotSetting]

-----------------------------------------------------------------------------
\* crossbyte_alpn_set with no names: the list is taken off the configuration.
SetNone(s) ==
  /\ setting[s].at = "idle" /\ alpnList[s] # Nowhere
  /\ alpnList' = [alpnList EXCEPT ![s] = Nowhere]
  /\ UNCHANGED <<listAt, interned, alpnLock, agreed, setting>>

SetBegins(s) ==
  /\ setting[s].at = "idle"
  /\ \E names \in Lists : setting' = [setting EXCEPT ![s] = [at |-> "lock", names |-> names]]
  /\ UNCHANGED <<listAt, interned, alpnLock, alpnList, agreed>>

\* Variant of LockLists: not waited for.
LockListsAnyway(s) ==
  /\ setting[s].at = "lock"
  /\ alpnLock' = s
  /\ setting' = [setting EXCEPT ![s].at = "search"]
  /\ UNCHANGED <<listAt, interned, alpnList, agreed>>

LockLists(s) ==
  /\ setting[s].at = "lock" /\ alpnLock = Nowhere
  /\ alpnLock' = s
  /\ setting' = [setting EXCEPT ![s].at = "search"]
  /\ UNCHANGED <<listAt, interned, alpnList, agreed>>

\* The kept list with these names, or a copy made for them, or no memory.
FindOrCopy(s) ==
  /\ setting[s].at = "search"
  /\ LET names == setting[s].names
         kept  == {p \in interned : listAt[p] = names}
         use(p, fresh) == setting' = [setting EXCEPT ![s] =
                            [at |-> "install", names |-> names, list |-> p, fresh |-> fresh]]
     IN  \/ /\ kept # {}
            /\ \E p \in kept : use(p, FALSE)
            /\ UNCHANGED <<listAt, alpnLock>>
         \/ /\ kept = {}
            /\ \E p \in Places : /\ listAt[p] = NoList
                                 /\ listAt' = [listAt EXCEPT ![p] = names]
                                 /\ use(p, TRUE)
            /\ UNCHANGED alpnLock
         \/ /\ kept = {} /\ UNCHANGED listAt /\ alpnLock' = Nowhere
            /\ setting' = [setting EXCEPT ![s] = NotSetting]
  /\ UNCHANGED <<interned, alpnList, agreed>>

\* mbedTLS takes the list and it is kept, or refuses it and a copy is freed.
Install(s) ==
  /\ setting[s].at = "install"
  /\ LET p == setting[s].list
     IN  IF setting[s].names \in RefusedLists
         THEN /\ listAt' = IF setting[s].fresh THEN [listAt EXCEPT ![p] = NoList] ELSE listAt
              /\ UNCHANGED <<alpnList, interned>>
         ELSE /\ alpnList' = [alpnList EXCEPT ![s] = p]
              /\ interned' = interned \cup {p} /\ UNCHANGED listAt
  /\ alpnLock' = Nowhere /\ setting' = [setting EXCEPT ![s] = NotSetting]
  /\ UNCHANGED agreed

-----------------------------------------------------------------------------
\* A handshake on the configuration of s chooses a name from its list.
Agree(c, s) ==
  /\ agreed[c] = Nowhere /\ alpnList[s] # Nowhere
  /\ agreed' = [agreed EXCEPT ![c] = alpnList[s]]
  /\ UNCHANGED <<listAt, interned, alpnLock, alpnList, setting>>

ConnectionEnds(c) ==
  /\ agreed[c] # Nowhere
  /\ agreed' = [agreed EXCEPT ![c] = Nowhere]
  /\ UNCHANGED <<listAt, interned, alpnLock, alpnList, setting>>

\* Variant of Released: the list freed with the socket that installed it.
ReleasedFreeing(s) ==
  IF alpnList[s] = Nowhere THEN UNCHANGED <<listAt, interned>>
  ELSE /\ listAt' = [listAt EXCEPT ![alpnList[s]] = NoList]
       /\ interned' = interned \ {alpnList[s]}

\* crossbyte_alpn_release: nothing is given back.
Released(s) == UNCHANGED <<listAt, interned>>

\* The socket goes, and the next one builds a configuration of its own.
SocketCloses(s) ==
  /\ setting[s].at = "idle" /\ alpnList[s] # Nowhere
  /\ Released(s)
  /\ alpnList' = [alpnList EXCEPT ![s] = Nowhere]
  /\ UNCHANGED <<alpnLock, agreed, setting>>

AlpnNext ==
  \/ \E s \in Sockets :
       SetNone(s) \/ SetBegins(s) \/ LockLists(s) \/ FindOrCopy(s) \/ Install(s)
         \/ SocketCloses(s)
  \/ \E c \in Accepted : ConnectionEnds(c) \/ \E s \in Sockets : Agree(c, s)

AlpnSpec == AlpnInit /\ [][AlpnNext]_alpnVars

-----------------------------------------------------------------------------
\* Each pointer is null or a place, and a call on the lists holds their lock.
AlpnTypeOK ==
  /\ \A p \in Places : listAt[p] \in Lists \cup {NoList}
  /\ interned \subseteq Places
  /\ \A s \in Sockets : /\ alpnList[s] \in Places \cup {Nowhere}
                        /\ setting[s].at \in {"search", "install"} => alpnLock = s
  /\ \A c \in Accepted : agreed[c] \in Places \cup {Nowhere}

\* What a configuration points at, and what a connection agreed on (which
\* crossbyte_alpn_selected reads at any time), is a list, whoever has closed.
AgreedIsReadable ==
  /\ \A s \in Sockets : alpnList[s] # Nowhere => listAt[alpnList[s]] # NoList
  /\ \A c \in Accepted : agreed[c] # Nowhere => listAt[agreed[c]] # NoList

\* No more lists are in memory than there are distinct ones in use by the
\* application, however many sockets are made: one of each, and while a call
\* is under way the one it has copied.
OneCopyEach ==
  /\ \A p, q \in interned : listAt[p] = listAt[q] => p = q
  /\ \A p \in Places : listAt[p] # NoList =>
       p \in interned \/ \E s \in Sockets : setting[s].at = "install" /\ setting[s].list = p

\* Protocol lists are kept as long as anything points at them, one of each.
ListsAreKeptOnce == AgreedIsReadable /\ OneCopyEach
=============================================================================
