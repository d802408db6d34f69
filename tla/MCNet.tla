------------------------------- MODULE MCNet -------------------------------
(***************************************************************************)
(* What goes over the network, on small instances: socket calls, datagrams *)
(* read and sent, DTLS sessions and their table, ALPN lists, Postgres      *)
(* connections and their blocks; and, on larger ones than MCThreads', the  *)
(* pool and the tree of runtimes that serve it.  They share nothing here,  *)
(* so a behaviour is one of one of them, the part, while the others stay   *)
(* as they begin.                                                          *)
(***************************************************************************)
EXTENDS SocketCall, DatagramIn, DatagramOut, DtlsSession, DtlsTable, Alpn,
        Postgres, PostgresBlock, TaskPool, RuntimeTree

VARIABLE part   \* the component whose behaviour this is

netVars == <<part, socketVars, inVars, outVars, dtlsVars, tableVars, alpnVars,
             pqVars, blockVars, allPoolVars, vars>>

\* The order libpq is looked for in.
PathOrder == <<"a", "b", "c">>

\* A component that is not the part begins in one of its states alone.
NetInit ==
  /\ part \in {"socket", "datagramIn", "datagramOut", "dtls", "table", "alpn",
               "postgres", "block", "pool", "tree"}
  /\ SocketCallInit
  /\ \/ part = "socket"
     \/ /\ build = "linux" /\ form = "accept"
        /\ range = [position |-> 0, length |-> 0, buffer |-> 0]
  /\ DatagramInInit /\ (part = "datagramIn" \/ \A c \in Caps : reads <= c)
  /\ DatagramOutInit /\ (part = "datagramOut" \/ udpKernel = "linux")
  /\ DtlsInit /\ (part = "dtls" \/ genuine = Endpoints)
  /\ DtlsTableInit /\ AlpnInit /\ PostgresInit /\ PoolInit /\ Init
  /\ IF part = "block" THEN BlockInit
     ELSE answer = <<>> /\ asked = [what |-> "count", digits |-> <<>>]

NetNext ==
  /\ UNCHANGED part
  /\ \/ /\ part = "socket" /\ SocketCallNext
        /\ UNCHANGED <<inVars, outVars, dtlsVars, tableVars, alpnVars,
                       pqVars, blockVars, allPoolVars, vars>>
     \/ /\ part = "datagramIn" /\ DatagramInNext
        /\ UNCHANGED <<socketVars, outVars, dtlsVars, tableVars, alpnVars,
                       pqVars, blockVars, allPoolVars, vars>>
     \/ /\ part = "datagramOut" /\ DatagramOutNext
        /\ UNCHANGED <<socketVars, inVars, dtlsVars, tableVars, alpnVars,
                       pqVars, blockVars, allPoolVars, vars>>
     \/ /\ part = "dtls" /\ DtlsNext
        /\ UNCHANGED <<socketVars, inVars, outVars, tableVars, alpnVars,
                       pqVars, blockVars, allPoolVars, vars>>
     \/ /\ part = "table" /\ DtlsTableNext
        /\ UNCHANGED <<socketVars, inVars, outVars, dtlsVars, alpnVars,
                       pqVars, blockVars, allPoolVars, vars>>
     \/ /\ part = "alpn" /\ AlpnNext
        /\ UNCHANGED <<socketVars, inVars, outVars, dtlsVars, tableVars,
                       pqVars, blockVars, allPoolVars, vars>>
     \/ /\ part = "postgres" /\ PostgresNext
        /\ UNCHANGED <<socketVars, inVars, outVars, dtlsVars, tableVars,
                       alpnVars, blockVars, allPoolVars, vars>>
     \/ /\ part = "block" /\ BlockNext
        /\ UNCHANGED <<socketVars, inVars, outVars, dtlsVars, tableVars,
                       alpnVars, pqVars, allPoolVars, vars>>
     \/ /\ part = "pool" /\ PoolNext
        /\ UNCHANGED <<socketVars, inVars, outVars, dtlsVars, tableVars,
                       alpnVars, pqVars, blockVars, vars>>
     \/ /\ part = "tree" /\ Next
        /\ UNCHANGED <<socketVars, inVars, outVars, dtlsVars, tableVars,
                       alpnVars, pqVars, blockVars, allPoolVars>>

NetSpec == NetInit /\ [][NetNext]_netVars

\* Every variable of the components that have a type invariant keeps its type.
NetTypeOK ==
  DatagramInTypeOK /\ DtlsTypeOK /\ DtlsTableTypeOK /\ AlpnTypeOK /\ PostgresTypeOK
=============================================================================
