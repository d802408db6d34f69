----------------------------- MODULE SocketCall -----------------------------
(***************************************************************************)
(* A call of NativeSocketAddress.cpp that transfers: accept, and a send or *)
(* a receive in its throwing form, in the form that answers -1 for "would  *)
(* block", or in a batch. The system call is made in a GC-free zone and    *)
(* made again when a signal cut it short; leaving the zone may wait for a  *)
(* collection, whose own system calls change errno.                        *)
(***************************************************************************)
EXTENDS Integers, Sequences, FiniteSets

CONSTANTS
  Builds,       \* of "linux", "macos" and "windows"
  IntMax,       \* the largest int
  BufferSizes,  \* the lengths of the caller's buffer
  MaxAgain      \* bound: system calls cut short in one call

VARIABLES
  build,        \* the system the program is built for
  form,         \* the function called
  range,        \* the position and length given, and the buffer's own length
  zone,         \* how many GC-free zones the thread is in
  errno,        \* the error code the next look sees
  failed,       \* what the last system call failed with, or "none"
  seen,         \* what the call has read of it, or "unread"
  again,        \* how many system calls were cut short
  callAt,       \* where the call is
  told          \* what the caller is told, or "nothing"

socketVars == <<build, form, range, zone, errno, failed, seen, again, callAt, told>>

Posix == build # "windows"

Codes == {"wouldBlock", "interrupted", "aborted", "connected", "unreachable", "tooLarge",
          "missing", "other", "cleared"}

\* would_block, read in the zone or out of it.
crossbyte_would_block == [c \in Codes |-> IF c = "wouldBlock" THEN "blocked" ELSE "failure"]
\* unreachable_report and too_large, of the forms that ask them too.
crossbyte_unreachable_report == [crossbyte_would_block EXCEPT !["unreachable"] = "unreachable"]
crossbyte_too_large == [crossbyte_would_block EXCEPT !["tooLarge"] = "tooLarge"]

\* The throwing forms' end: Windows' code is read in the zone, POSIX's after.
crossbyte_block_error == [inside |-> ~Posix, means |-> crossbyte_would_block]

\* Each function: whether it takes a range, and what it tells of one refused;
\* what the system may fail it with, and after which of these it makes the
\* call again; where it reads the code, and what it tells of it.

\* macOS fails the accept of a connection reset in the queue.
crossbyte_socket_accept ==
  [ranged |-> FALSE, refused |-> "none", fails |-> IF build = "macos" THEN {"aborted"} ELSE {},
   again |-> {"interrupted", "aborted"}, end |-> crossbyte_block_error]

\* macOS refuses an address on a connected socket's send, which goes without.
crossbyte_socket_send_to ==
  [ranged |-> TRUE, refused |-> "invalid",
   fails |-> {"tooLarge"} \cup IF build = "macos" THEN {"connected"} ELSE {},
   again |-> {"interrupted", "connected"}, end |-> crossbyte_block_error]

crossbyte_socket_recv_from ==
  [ranged |-> TRUE, refused |-> "invalid", fails |-> {"unreachable"},
   again |-> {"interrupted"}, end |-> crossbyte_block_error]

crossbyte_socket_try_send ==
  [ranged |-> TRUE, refused |-> "zero", fails |-> {},
   again |-> {"interrupted"}, end |-> [inside |-> TRUE, means |-> crossbyte_would_block]]

\* Windows fails a receive of more than the buffer takes: it filled it.
crossbyte_socket_try_recv ==
  [ranged |-> TRUE, refused |-> "zero", fails |-> IF Posix THEN {} ELSE {"tooLarge"},
   again |-> {"interrupted"},
   end |-> [inside |-> TRUE, means |-> [crossbyte_would_block EXCEPT !["tooLarge"] = "filled"]]]

\* Variant of crossbyte_socket_try_send_to: the code read as the throwing form does.
TrySendToOutside ==
  [crossbyte_socket_send_to EXCEPT !.end = [inside |-> FALSE, means |-> crossbyte_too_large]]

crossbyte_socket_try_send_to ==
  [crossbyte_socket_send_to EXCEPT !.end = [inside |-> TRUE, means |-> crossbyte_too_large]]

\* An earlier datagram's ICMP error is a receive's to report.
crossbyte_socket_try_recv_from ==
  [crossbyte_socket_recv_from EXCEPT !.end = [inside |-> TRUE, means |-> crossbyte_unreachable_report]]

\* recvmmsg into the batch's own slots, on Linux; a kernel may have none.
crossbyte_udp_batch_receive_call ==
  [ranged |-> FALSE, refused |-> "none", fails |-> {"unreachable", "missing"},
   again |-> {"interrupted"},
   end |-> [inside |-> TRUE,
            means |-> [crossbyte_unreachable_report EXCEPT !["missing"] = "missing"]]]

Throwing == {"accept", "sendTo", "recvFrom"}
Trying == {"trySend", "tryRecv", "trySendTo", "tryRecvFrom"}
           \cup IF build = "linux" THEN {"batchReceive"} ELSE {}

Function ==
  CASE form = "accept" -> crossbyte_socket_accept
    [] form = "sendTo" -> crossbyte_socket_send_to
    [] form = "recvFrom" -> crossbyte_socket_recv_from
    [] form = "trySend" -> crossbyte_socket_try_send
    [] form = "tryRecv" -> crossbyte_socket_try_recv
    [] form = "trySendTo" -> crossbyte_socket_try_send_to
    [] form = "tryRecvFrom" -> crossbyte_socket_try_recv_from
    [] form = "batchReceive" -> crossbyte_udp_batch_receive_call

Ints == {-1 - IntMax, -1, 0, 1, 2, IntMax}
Narrow(n) == ((n + IntMax + 1) % (2 * IntMax + 2)) - IntMax - 1

SocketCallInit ==
  /\ build \in Builds
  /\ form \in Throwing \cup Trying
  /\ range \in [position : Ints, length : Ints, buffer : BufferSizes]
  /\ zone = 0 /\ errno = "none" /\ failed = "none" /\ seen = "unread" /\ again = 0
  /\ callAt = "called" /\ told = "nothing"

\* The check of each transfer, of a length against what is left.
InRange ==
  /\ range.position >= 0 /\ range.length >= 0 /\ range.position <= range.buffer
  /\ range.length <= Narrow(range.buffer - range.position)

\* The range refused, or the zone entered.
Enters ==
  /\ callAt = "called"
  /\ IF Function.ranged /\ ~InRange
     THEN told' = Function.refused /\ callAt' = "done" /\ UNCHANGED zone
     ELSE zone' = zone + 1 /\ callAt' = "system" /\ UNCHANGED told
  /\ UNCHANGED <<build, form, range, errno, failed, seen, again>>

\* What the system may fail this call with: a signal cuts one short on POSIX.
Failures ==
  {f \in {"wouldBlock", "other", "interrupted"} \cup Function.fails :
     f \in Function.again => Posix /\ again < MaxAgain}

\* The system call, made again after what says to.
CallsSystem ==
  /\ callAt = "system"
  /\ \/ \E failure \in Failures :
          /\ errno' = failure
          /\ IF failure \in Function.again
             THEN again' = again + 1 /\ UNCHANGED <<failed, callAt>>
             ELSE failed' = failure /\ callAt' = "failed" /\ UNCHANGED again
     \/ callAt' = "leave" /\ UNCHANGED <<errno, failed, again>>
  /\ UNCHANGED <<build, form, range, zone, seen, told>>

\* The code read inside the zone, by the forms that do.
Looks ==
  /\ callAt = "failed"
  /\ seen' = IF Function.end.inside THEN errno ELSE seen
  /\ callAt' = "leave"
  /\ UNCHANGED <<build, form, range, zone, errno, failed, again, told>>

\* ExitGCFreeZone, which may clear the code.
Leaves ==
  /\ callAt = "leave"
  /\ zone' = zone - 1
  /\ errno' \in {errno, "cleared"}
  /\ callAt' = "answer"
  /\ UNCHANGED <<build, form, range, failed, seen, again, told>>

TellsCaller ==
  /\ callAt = "answer"
  /\ told' = IF failed = "none" THEN "done"
             ELSE Function.end.means[IF Function.end.inside THEN seen ELSE errno]
  /\ callAt' = "done"
  /\ UNCHANGED <<build, form, range, zone, errno, failed, seen, again>>

SocketCallNext == Enters \/ CallsSystem \/ Looks \/ Leaves \/ TellsCaller
SocketCallSpec == SocketCallInit /\ [][SocketCallNext]_socketVars

-----------------------------------------------------------------------------
\* A caller is told of a failure as what it was: the forms that try, and all
\* of them on Windows, report a full or empty socket as that and nothing
\* else, whatever a collection did to the code meanwhile.
ToldWhatItWas ==
  callAt = "done" /\ failed # "none" /\ (form \in Trying \/ ~Posix) =>
    (told = "blocked") = (failed = "wouldBlock")

\* What says nothing of the socket itself never reaches the caller as its
\* failure: a signal, a connection lost in the queue, and, to those that can
\* tell it, an earlier datagram's ICMP error or a kernel without recvmmsg.
PassingTroubleIsNone ==
  callAt = "done" /\ told = "failure" =>
    /\ failed \notin {"interrupted", "aborted", "connected"}
    /\ form \in {"tryRecvFrom", "batchReceive"} => failed \notin {"unreachable", "missing"}

\* The memory a transfer is given lies in the caller's buffer, whatever
\* position and length it named.
InsideTheBuffer ==
  callAt = "system" /\ Function.ranged =>
    range.position >= 0 /\ range.length >= 0 /\ range.position + range.length <= range.buffer

\* A system call is made from inside the GC-free zone, and every way out of
\* the call, thrown or answered, leaves it once.
ZoneIsLeft ==
  /\ callAt \in {"system", "failed", "leave"} => zone = 1
  /\ callAt \in {"called", "answer", "done"} => zone = 0

\* A socket call is told truly, reads and writes in its buffer alone, and is
\* out of the GC-free zone when it answers.
CallIsSound == ToldWhatItWas /\ PassingTroubleIsNone /\ InsideTheBuffer /\ ZoneIsLeft
=============================================================================
