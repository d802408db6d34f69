----------------------------- MODULE DatagramOut -----------------------------
(***************************************************************************)
(* How a DatagramSocket sends what a pass gathered: __sendInPass copies    *)
(* each datagram into a chunk, __flushPass hands the lot to                *)
(* crossbyte_socket_send_batch, which on Linux sends a run to one peer as  *)
(* one buffer the kernel cuts up and the rest many to a call, and sends    *)
(* alone the one each batch stops at. A byte is known by its datagram and  *)
(* its place in it.                                                        *)
(***************************************************************************)
EXTENDS Naturals, Sequences, FiniteSets
LOCAL INSTANCE SequencesExt

CONSTANTS
  Peers, Lengths,   \* who datagrams go to, and their sizes
  CHUNK_SIZE,       \* bytes of a chunk
  MaxRun,           \* 64 datagrams cut from one send
  MaxRunBytes,      \* 65,000 bytes cut from one send
  BATCH,            \* datagrams in a call of sendmmsg
  MaxGathered,      \* bound: datagrams gathered in a pass
  Kernels           \* of "linux" and "other"

VARIABLES
  udpKernel,   \* the system
  crossbyte_udp_gso,
  outSpans,    \* outSpans[k]: the chunk, position and length of datagram k
  outTargets,  \* outTargets[k]: its peer
  outChunks,   \* the bytes copied into each chunk
  first,       \* the datagrams __flushPass is done with
  flushAt,     \* where it is, and in send_batch, which one is next (i)
  wire,        \* what the network has been given, in order
  toldFailed,  \* the datagrams whose sender was told
  bufferFull   \* the send buffer was found full

outVars == <<udpKernel, crossbyte_udp_gso, outSpans, outTargets, outChunks, first, flushAt,
             wire, toldFailed, bufferFull>>

DatagramOutInit ==
  /\ udpKernel \in Kernels /\ crossbyte_udp_gso = (udpKernel = "linux")
  /\ outSpans = <<>> /\ outTargets = <<>> /\ outChunks = <<>>
  /\ first = 0 /\ flushAt = [at |-> "gather"]
  /\ wire = <<>> /\ toldFailed = {} /\ bufferFull = FALSE

count == Len(outSpans)
BytesOf(k, length) == [b \in 1..length |-> <<k, b>>]

\* __sendInPass: into the last chunk, or a new one when it does not fit.
SendInPass(peer, length) ==
  /\ flushAt.at = "gather" /\ count < MaxGathered
  /\ LET fits == outChunks # <<>> /\ Len(Last(outChunks)) + length <= CHUNK_SIZE
         chunk == IF fits THEN Len(outChunks) ELSE Len(outChunks) + 1
         at == IF fits THEN Len(Last(outChunks)) ELSE 0
         bytes == BytesOf(count + 1, length)
     IN  /\ outSpans' = Append(outSpans, [chunk |-> chunk, at |-> at, length |-> length])
         /\ outChunks' = IF fits THEN [outChunks EXCEPT ![chunk] = @ \o bytes]
                         ELSE Append(outChunks, bytes)
  /\ outTargets' = Append(outTargets, peer)
  /\ UNCHANGED <<udpKernel, crossbyte_udp_gso, first, flushAt, wire, toldFailed, bufferFull>>

\* What lies in memory where a datagram, or a run from it, starts.
crossbyte_batch_data(k, length) ==
  SubSeq(outChunks[outSpans[k].chunk], outSpans[k].at + 1, outSpans[k].at + length)

\* The bytes of the datagrams from one to another, by their spans.
Total(from, to) == FoldLeft(LAMBDA n, k : n + outSpans[k].length, 0, [j \in 1..(to + 1 - from) |-> from + j - 1])

\* Variant of JoinsRun: a shorter one anywhere in the run.
JoinsRunUneven(from, k) ==
  /\ outTargets[k] = outTargets[from] /\ outSpans[k].chunk = outSpans[from].chunk
  /\ outSpans[k].at = outSpans[from].at + Total(from, k - 1)
  /\ outSpans[k].length \in 1..outSpans[from].length
  /\ Total(from, k) <= MaxRunBytes

\* Datagram k goes on a run from another: to its peer, right after the run so
\* far in its chunk, no longer than the first and after none shorter.
JoinsRun(from, k) ==
  /\ outTargets[k] = outTargets[from] /\ outSpans[k].chunk = outSpans[from].chunk
  /\ outSpans[k].at = outSpans[from].at + Total(from, k - 1)
  /\ outSpans[k].length \in 1..outSpans[from].length
  /\ Total(from, k) <= MaxRunBytes
  /\ \A j \in (from + 1)..(k - 1) : outSpans[j].length = outSpans[from].length

\* How many datagrams from one on form a run.
crossbyte_gso_run(from) ==
  IF outSpans[from].length = 0 THEN 1
  ELSE CHOOSE run \in 1..MaxRun :
         /\ from + run - 1 <= count
         /\ \A k \in (from + 1)..(from + run - 1) : JoinsRun(from, k)
         /\ run = MaxRun \/ from + run > count \/ ~JoinsRun(from, from + run)

\* The kernel's cuts of a buffer: each as long as the first datagram, but the last.
RECURSIVE Cut(_, _)
Cut(bytes, segment) ==
  IF Len(bytes) <= segment THEN <<bytes>>
  ELSE <<SubSeq(bytes, 1, segment)>> \o Cut(SubSeq(bytes, segment + 1, Len(bytes)), segment)

SentTo(peer, datagrams) == [d \in DOMAIN datagrams |-> [to |-> peer, bytes |-> datagrams[d]]]
Alone(k) == SentTo(outTargets[k], <<crossbyte_batch_data(k, outSpans[k].length)>>)

-----------------------------------------------------------------------------
\* The pass ends, with something gathered: send_batch from the first.
FlushPass ==
  /\ flushAt.at = "gather" /\ count > 0
  /\ flushAt' = [at |-> "batch", i |-> 1]
  /\ UNCHANGED <<udpKernel, crossbyte_udp_gso, outSpans, outTargets, outChunks, first, wire,
                 toldFailed, bufferFull>>

GoOn(i) == IF i > count THEN [at |-> "done"] ELSE [at |-> "batch", i |-> i]

\* send_batch answers: how many went, from first; the next goes alone.
BatchAnswers(i) ==
  /\ first' = i - 1
  /\ flushAt' = IF i > count THEN [at |-> "done"] ELSE [at |-> "alone"]

RunAt(i) == IF crossbyte_udp_gso THEN crossbyte_gso_run(i) ELSE 1

\* A run of two or more: one send, cut by the kernel, which takes it whole,
\* or fails it, or refuses to cut (then none is cut from here on).
SendRun ==
  /\ flushAt.at = "batch" /\ RunAt(flushAt.i) >= 2
  /\ LET i == flushAt.i
         run == RunAt(i)
     IN  \/ /\ wire' = wire \o SentTo(outTargets[i], Cut(crossbyte_batch_data(i, Total(i, i + run - 1)),
                                                    outSpans[i].length))
            /\ IF i + run > count THEN BatchAnswers(i + run)
               ELSE flushAt' = GoOn(i + run) /\ UNCHANGED first
            /\ UNCHANGED crossbyte_udp_gso
         \/ BatchAnswers(i) /\ UNCHANGED <<wire, crossbyte_udp_gso>>
         \/ crossbyte_udp_gso' = FALSE /\ UNCHANGED <<wire, first, flushAt>>
  /\ UNCHANGED <<udpKernel, outSpans, outTargets, outChunks, toldFailed, bufferFull>>

\* How many of the rest go in the next call of sendmmsg: up to the next run
\* worth cutting.
Together(i) ==
  CHOOSE n \in 1..BATCH :
    /\ i + n - 1 <= count
    /\ \A k \in (i + 1)..(i + n - 1) : RunAt(k) < 2
    /\ n = BATCH \/ i + n > count \/ RunAt(i + n) >= 2

\* The rest: the call sends some of them, or none, and a batch it did not
\* send all of ends there.
SendMany ==
  /\ flushAt.at = "batch" /\ udpKernel = "linux" /\ RunAt(flushAt.i) < 2
  /\ LET i == flushAt.i
         n == Together(i)
     IN  \E result \in 0..n :
           /\ wire' = wire \o FlattenSeq([j \in 1..result |-> Alone(i + j - 1)])
           /\ IF result < n \/ i + n > count THEN BatchAnswers(i + result)
              ELSE flushAt' = GoOn(i + n) /\ UNCHANGED first
  /\ UNCHANGED <<udpKernel, crossbyte_udp_gso, outSpans, outTargets, outChunks, toldFailed, bufferFull>>

\* Elsewhere: one at a time, until one does not go.
SendEach ==
  /\ flushAt.at = "batch" /\ udpKernel = "other"
  /\ \/ /\ wire' = wire \o Alone(flushAt.i)
        /\ IF flushAt.i = count THEN BatchAnswers(count + 1)
           ELSE flushAt' = GoOn(flushAt.i + 1) /\ UNCHANGED first
     \/ BatchAnswers(flushAt.i) /\ UNCHANGED wire
  /\ UNCHANGED <<udpKernel, crossbyte_udp_gso, outSpans, outTargets, outChunks, toldFailed, bufferFull>>

\* The one a batch stopped at, sent alone: it goes, or says why not. A full
\* buffer drops it and what follows.
SendAlone ==
  /\ flushAt.at = "alone"
  /\ LET stopped == first + 1
     IN  /\ first' = stopped
         /\ \/ /\ wire' = wire \o Alone(stopped) /\ flushAt' = GoOn(stopped + 1)
               /\ UNCHANGED <<toldFailed, bufferFull>>
            \/ bufferFull' = TRUE /\ flushAt' = [at |-> "done"] /\ UNCHANGED <<wire, toldFailed>>
            \/ /\ toldFailed' = toldFailed \cup {stopped} /\ flushAt' = GoOn(stopped + 1)
               /\ UNCHANGED <<wire, bufferFull>>
  /\ UNCHANGED <<udpKernel, crossbyte_udp_gso, outSpans, outTargets, outChunks>>

\* A send of another thread was refused a cut.
GsoTurnedOff ==
  /\ crossbyte_udp_gso /\ flushAt.at # "done"
  /\ crossbyte_udp_gso' = FALSE
  /\ UNCHANGED <<udpKernel, outSpans, outTargets, outChunks, first, flushAt, wire, toldFailed, bufferFull>>

DatagramOutNext ==
  \/ \E peer \in Peers, length \in Lengths : SendInPass(peer, length)
  \/ FlushPass \/ SendRun \/ SendMany \/ SendEach \/ SendAlone \/ GsoTurnedOff

DatagramOutSpec == DatagramOutInit /\ [][DatagramOutNext]_outVars

-----------------------------------------------------------------------------
Sent(k) == [to |-> outTargets[k], bytes |-> BytesOf(k, outSpans[k].length)]

\* The network is given the datagrams that were sent, each whole, by itself
\* and to its own peer, in the order they were sent and no more than once,
\* whether they went alone, together or cut from one buffer.
WireIsWhatWasSent ==
  \E went \in SUBSET (1..count) :
    LET order == SelectSeq([k \in 1..count |-> k], LAMBDA k : k \in went)
    IN  wire = [j \in DOMAIN order |-> Sent(order[j])]

\* A datagram that did not go is its sender's to hear of, or was dropped
\* because the send buffer was full, with those after it.
NoneVanishes ==
  flushAt.at = "done" /\ ~bufferFull => Len(wire) + Cardinality(toldFailed) = count

\* No send asks the kernel for more cuts, or more bytes, than every kernel takes.
CutsWithinLimits ==
  flushAt.at = "batch" =>
    LET run == RunAt(flushAt.i)
    IN  run <= MaxRun /\ (run >= 2 => Total(flushAt.i, flushAt.i + run - 1) <= MaxRunBytes)

\* Datagrams held for a pass go out as they were sent, within what kernels
\* take, or their sender hears of it.
SentAsAsked == WireIsWhatWasSent /\ NoneVanishes /\ CutsWithinLimits
=============================================================================
