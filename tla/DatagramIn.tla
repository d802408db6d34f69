----------------------------- MODULE DatagramIn -----------------------------
(***************************************************************************)
(* How a DatagramSocket reads on Linux: passes over a readable socket      *)
(* (registryOnReadable), one datagram at a time until a pass finds a       *)
(* second, and from then on in batches, taken from the kernel together and *)
(* handed out one by one to listeners that may throw, stop the socket,     *)
(* close it, or change how much a pass may read. Datagrams are numbered as *)
(* they arrive.                                                            *)
(***************************************************************************)
EXTENDS Naturals, Sequences, FiniteSets

CONSTANTS
  MaxSent,       \* bound: datagrams that arrive
  Empties,       \* the ones of no bytes
  BATCH_FIRST, BATCH_MOST,
  MaxFailures,   \* MAX_CONSECUTIVE_READ_FAILURES
  Caps,          \* what __readsPerPass may be
  MaxTroubles    \* bound: reads that fail, or report an earlier datagram's error

\* The batch and where its socket is in it; with no batch, or a freed one.
NoBatch == [capacity |-> 0, slots |-> <<>>, next |-> 0, full |-> FALSE]
AtRest == [at |-> "rest"]

VARIABLES
  sent,        \* datagrams arrived so far
  kernel,      \* those in the socket's buffer
  out,         \* those handed out, in order
  batch,       \* the batch: its size, what the last read took, what is next, if it was filled
  batched,     \* there is a batch
  refused,     \* __batchRefused
  reads,       \* __readsPerPass
  receiving,   \* __receiving; with a listener, the socket is then polled
  posted,      \* __leftoversPosted
  failures,    \* __consecutiveReadFailures
  troubles,    \* how many reads were not a datagram's
  broken,      \* the reads that failed of themselves since one succeeded
  shrunk,      \* a pass was given less to read than it had taken in
  gone,        \* the socket is closed
  pass         \* where the pass is

inVars == <<sent, kernel, out, batch, batched, refused, reads, receiving, posted, failures,
            troubles, broken, shrunk, gone, pass>>

DatagramInInit ==
  /\ sent = 0 /\ kernel = <<>> /\ out = <<>>
  /\ batch = NoBatch /\ batched = FALSE /\ refused = FALSE
  /\ reads \in Caps /\ receiving = TRUE /\ posted = FALSE
  /\ failures = 0 /\ troubles = 0 /\ broken = 0 /\ shrunk = FALSE /\ gone = FALSE
  /\ pass = AtRest

Left == SubSeq(batch.slots, batch.next + 1, Len(batch.slots))
Smaller(a, b) == IF a < b THEN a ELSE b

Arrives ==
  /\ sent < MaxSent /\ ~gone
  /\ sent' = sent + 1 /\ kernel' = Append(kernel, sent + 1)
  /\ UNCHANGED <<out, batch, batched, refused, reads, receiving, posted, failures, troubles,
                 broken, shrunk, gone, pass>>

NewPass == [at |-> "read", processed |-> 0, single |-> 0, asked |-> FALSE]

\* The pass, counting the one it is about to hand out.
Handing(datagram, single, fromBatch) ==
  [at |-> "deliver", processed |-> pass.processed + 1, single |-> single, asked |-> pass.asked,
   datagram |-> datagram, batched |-> fromBatch]

\* The poll finds the socket readable.
PollReads ==
  /\ pass = AtRest /\ receiving /\ kernel # <<>>
  /\ pass' = NewPass
  /\ UNCHANGED <<sent, kernel, out, batch, batched, refused, reads, receiving, posted, failures,
                 troubles, broken, shrunk, gone>>

\* The posted __handOutLeftovers runs.
HandOutLeftovers ==
  /\ pass = AtRest /\ posted
  /\ posted' = FALSE
  /\ pass' = IF receiving /\ Left # <<>> THEN NewPass ELSE AtRest
  /\ UNCHANGED <<sent, kernel, out, batch, batched, refused, reads, receiving, failures,
                 troubles, broken, shrunk, gone>>

\* The pass is at its cap, or the socket no longer receives.
PassStops ==
  /\ pass.at = "read" /\ (~receiving \/ pass.processed >= reads)
  /\ pass' = AtRest
  /\ UNCHANGED <<sent, kernel, out, batch, batched, refused, reads, receiving, posted, failures,
                 troubles, broken, shrunk, gone>>

Reading == pass.at = "read" /\ receiving /\ pass.processed < reads

\* A batch of so many slots, nothing in them.
crossbyte_udp_batch_new(capacity) == [NoBatch EXCEPT !.capacity = capacity]

\* What the kernel has waiting, up to max and what the batch holds, in place
\* of what the last receive took in.
crossbyte_udp_batch_receive(found, max) ==
  [found EXCEPT !.slots = SubSeq(kernel, 1, Smaller(Smaller(max, found.capacity), Len(kernel)))]

\* The datagram at an index of the last receive: its length, its source and,
\* copied out, its bytes.
crossbyte_udp_batch_take(found, index) == found.slots[index + 1]

\* Unmapped: it holds nothing.
crossbyte_udp_batch_free == NoBatch

\* __batchStart, where the system maps one or does not.
BatchStart ==
  \/ batch' = crossbyte_udp_batch_new(BATCH_FIRST) /\ batched' = TRUE /\ UNCHANGED refused
  \/ refused' = TRUE /\ UNCHANGED <<batch, batched>>

\* One datagram read alone; a pass's second starts a batch. An empty one, or
\* none waiting, ends the pass.
ReadsOne ==
  /\ Reading /\ ~batched
  /\ IF kernel = <<>> \/ Head(kernel) \in Empties
     THEN /\ kernel' = IF kernel = <<>> THEN kernel ELSE Tail(kernel)
          /\ pass' = AtRest /\ UNCHANGED <<batch, batched, refused, failures, broken>>
     ELSE /\ kernel' = Tail(kernel)
          /\ failures' = 0 /\ broken' = 0
          /\ pass' = Handing(Head(kernel), pass.single + 1, FALSE)
          /\ IF pass.single = 1 /\ ~refused THEN BatchStart ELSE UNCHANGED <<batch, batched, refused>>
  /\ UNCHANGED <<sent, out, reads, receiving, posted, troubles, shrunk, gone>>

\* All the last read took in is handed out.
BatchIsOut == batch.next >= Len(batch.slots)

\* A pass whose own read emptied the socket ends.
BatchEnds ==
  /\ Reading /\ batched /\ BatchIsOut /\ pass.asked /\ ~batch.full
  /\ pass' = AtRest
  /\ UNCHANGED <<sent, kernel, out, batch, batched, refused, reads, receiving, posted, failures,
                 troubles, broken, shrunk, gone>>

\* The batch's size for this read: doubled when the last one filled it, where
\* the system maps a bigger one.
Sizes == {batch.capacity} \cup IF batch.full /\ batch.capacity < BATCH_MOST
                               THEN {2 * batch.capacity} ELSE {}

\* __batchRead: every datagram waiting, up to what the pass has left.
BatchReads ==
  /\ Reading /\ batched /\ BatchIsOut /\ ~(pass.asked /\ ~batch.full)
  /\ \E capacity \in Sizes :
       LET asking == Smaller(reads - pass.processed, capacity)
           found == crossbyte_udp_batch_receive(crossbyte_udp_batch_new(capacity), asking)
           taken == Len(found.slots)
       IN  /\ kernel' = SubSeq(kernel, taken + 1, Len(kernel))
           /\ batch' = [found EXCEPT !.full = taken > 0 /\ taken = asking]
           /\ pass' = IF taken = 0 THEN AtRest ELSE [pass EXCEPT !.asked = TRUE]
  /\ UNCHANGED <<sent, out, batched, refused, reads, receiving, posted, failures, troubles,
                 broken, shrunk, gone>>

\* A kernel without recvmmsg: one at a time from here on.
BatchMissing ==
  /\ Reading /\ batched /\ BatchIsOut /\ batch.slots = <<>> /\ ~(pass.asked /\ ~batch.full)
  /\ batch' = crossbyte_udp_batch_free /\ batched' = FALSE /\ refused' = TRUE
  /\ pass' = [pass EXCEPT !.asked = TRUE]
  /\ UNCHANGED <<sent, kernel, out, reads, receiving, posted, failures, troubles, broken, shrunk, gone>>

\* The batch takes nothing in: batch_receive empties it before it asks.
Emptied == [batch EXCEPT !.slots = <<>>, !.next = 0, !.full = FALSE]

AsksKernel == Reading /\ (~batched \/ (BatchIsOut /\ ~(pass.asked /\ ~batch.full)))

\* An earlier datagram's ICMP error (-3): skipped, and the pass reads on.
ReadUnreachable ==
  /\ AsksKernel /\ troubles < MaxTroubles
  /\ troubles' = troubles + 1
  /\ batch' = IF batched THEN Emptied ELSE batch
  /\ pass' = [pass EXCEPT !.processed = @ + 1, !.asked = FALSE]
  /\ UNCHANGED <<sent, kernel, out, batched, refused, reads, receiving, posted, failures, broken,
                 shrunk, gone>>

\* __onReadFailed: the pass ends; enough in a row stop the socket.
ReadFails ==
  /\ AsksKernel /\ troubles < MaxTroubles
  /\ troubles' = troubles + 1 /\ broken' = broken + 1 /\ pass' = AtRest
  /\ batch' = IF batched THEN Emptied ELSE batch
  /\ failures' = (failures + 1) % MaxFailures /\ receiving' = (failures + 1 < MaxFailures)
  /\ UNCHANGED <<sent, kernel, out, batched, refused, reads, posted, shrunk, gone>>

\* batch_take and batch_copy: the next of the batch; an empty one is passed over.
BatchTakes ==
  /\ Reading /\ batched /\ ~BatchIsOut
  /\ LET datagram == crossbyte_udp_batch_take(batch, batch.next)
     IN  /\ batch' = [batch EXCEPT !.next = @ + 1]
         /\ IF datagram \in Empties THEN UNCHANGED <<pass, failures, broken>>
            ELSE /\ failures' = 0 /\ broken' = 0
                 /\ pass' = Handing(datagram, pass.single, TRUE)
  /\ UNCHANGED <<sent, kernel, out, batched, refused, reads, receiving, posted, troubles, shrunk, gone>>

-----------------------------------------------------------------------------
\* What a listener does with the one it is handed.
Hands == pass.at = "deliver" /\ out' = Append(out, pass.datagram)
OnWith == [at |-> "read", processed |-> pass.processed, single |-> pass.single, asked |-> pass.asked]

ListenerReturns ==
  /\ Hands /\ pass' = OnWith
  /\ UNCHANGED <<sent, kernel, batch, batched, refused, reads, receiving, posted, failures,
                 troubles, broken, shrunk, gone>>

\* Variant of LeftoversLater: the poll left to find them.
LeftoversToThePoll == posted

\* __leftoversLater, when the batch holds any.
LeftoversLater == posted \/ Left # <<>>

ListenerThrows ==
  /\ Hands /\ pass' = AtRest
  /\ posted' = IF pass.batched THEN LeftoversLater ELSE posted
  /\ UNCHANGED <<sent, kernel, batch, batched, refused, reads, receiving, failures,
                 troubles, broken, shrunk, gone>>

ListenerStops ==
  /\ Hands /\ pass' = OnWith /\ receiving' = FALSE
  /\ UNCHANGED <<sent, kernel, batch, batched, refused, reads, posted, failures,
                 troubles, broken, shrunk, gone>>

\* A session of a server ends, or one begins: __readFor.
ListenerShares ==
  /\ Hands /\ pass' = OnWith
  /\ reads' \in Caps
  /\ shrunk' = (shrunk \/ pass.processed + Len(Left) > reads')
  /\ UNCHANGED <<sent, kernel, batch, batched, refused, receiving, posted, failures,
                 troubles, broken, gone>>

\* close: what the kernel and the batch still held goes with the socket.
ListenerCloses ==
  /\ Hands /\ pass' = OnWith /\ receiving' = FALSE /\ gone' = TRUE
  /\ batch' = crossbyte_udp_batch_free /\ batched' = FALSE /\ kernel' = <<>>
  /\ UNCHANGED <<sent, refused, reads, posted, failures, troubles, broken, shrunk>>

\* receive, after it stopped: what a batch held comes first.
StartReceiving ==
  /\ pass = AtRest /\ ~receiving /\ ~gone
  /\ receiving' = TRUE /\ posted' = LeftoversLater
  /\ UNCHANGED <<sent, kernel, out, batch, batched, refused, reads, failures, troubles, broken,
                 shrunk, gone, pass>>

DatagramInNext ==
  \/ Arrives \/ PollReads \/ HandOutLeftovers \/ PassStops \/ ReadsOne
  \/ BatchEnds \/ BatchReads \/ BatchMissing \/ ReadUnreachable \/ ReadFails \/ BatchTakes
  \/ ListenerReturns \/ ListenerThrows \/ ListenerStops \/ ListenerShares \/ ListenerCloses
  \/ StartReceiving

DatagramInSpec == DatagramInInit /\ [][DatagramInNext]_inVars

-----------------------------------------------------------------------------
\* The batch is within its limits, and what it says is next is one the last
\* receive took in, so the native index check never refuses it.
DatagramInTypeOK ==
  /\ batch.next \in 0..Len(batch.slots) /\ Len(batch.slots) <= batch.capacity
  /\ batch.capacity \in 0..BATCH_MOST /\ batched = (batch.capacity > 0)
  /\ failures \in 0..(MaxFailures - 1)

Whole(s) == SelectSeq(s, LAMBDA d : d \notin Empties)
InHand == IF pass.at = "deliver" THEN <<pass.datagram>> ELSE <<>>

\* Every datagram is handed out once, in the order it came, whatever its
\* listener did and however it was read: none is lost between the kernel,
\* the batch and the pass that took it, until the socket is closed.
HandedOutInOrder ==
  ~gone => Whole(out \o InHand \o Left \o kernel) = Whole([i \in 1..sent |-> i])

\* What a batch still holds when a pass ends is to be handed out on the next,
\* if the pass ended because of a listener: the poll cannot see it.
LeftoversArePosted ==
  pass = AtRest /\ receiving /\ Left # <<>> /\ ~shrunk => posted

\* Only reads that failed of themselves, as many as it takes with none that
\* succeeded between them, stop the socket: never a peer that went away.
NotDeafenedByPeers ==
  [][pass.at = "read" /\ receiving /\ ~receiving' => broken' >= MaxFailures]_inVars

\* What a batch holds when a pass ends is always to be handed out on the next.
LeftoversComeRound ==
  pass = AtRest /\ receiving /\ Left # <<>> => posted

\* No datagram is lost, left behind or overtaken on its way to the listeners,
\* by a listener or by another peer's ICMP errors.
NoDatagramLost == [](HandedOutInOrder /\ LeftoversArePosted) /\ NotDeafenedByPeers
=============================================================================
