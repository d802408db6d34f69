----------------------------- MODULE LocalPipe -----------------------------
(***************************************************************************)
(* One local connection's channel (NativeLocalConnection.cpp) between a    *)
(* listener and the clients it takes in turn, with the reader thread of    *)
(* each end (LocalConnection.hx, __runLoop), a thread that sends and       *)
(* closes, and the runtime that delivers what was read and writes at the   *)
(* end of its pass what was sent on its own thread.  On Windows a reader   *)
(* waits on its end's doorbell; on Linux and macOS in poll().  Each step   *)
(* is one system call.                                                     *)
(*                                                                         *)
(* Bytes are counted in units, of which a pipe holds PipeBuffer and one    *)
(* native_read asks for at most Chunk; a frame's length is one of its      *)
(* units.  A pass reads all there is: READ_PER_PASS is sixteen pipes.      *)
(* What an end does to its handle it does under its __handleLock: one      *)
(* thread starts only where the other is outside it.  An end that has a    *)
(* runtime has one that runs throughout; one that has none delivers what   *)
(* it reads on its reader's thread.                                        *)
(***************************************************************************)
EXTENDS Integers

CONSTANTS
  PipeBuffer,   \* PIPE_BUFFER_SIZE, in units
  Chunk,        \* LocalConnection.BUFFER_SIZE, in units
  Frame,        \* units of a frame
  MaxQueued,    \* maxQueuedBytes, in units; 0 is no limit
  Hostings,     \* sets of ends that may be the ones with a runtime
  MaxEvents     \* bound: clients that connect and frames sent, together

ASSUME LocalPipeAssumption ==
  /\ PipeBuffer \in Nat \ {0} /\ Chunk \in 1..PipeBuffer
  /\ Frame \in Nat \ {0, 1} /\ MaxQueued \in Nat
  /\ Hostings \subseteq SUBSET {"listener", "client"}
  /\ MaxEvents \in Nat

Ends == {"listener", "client"}
Peer(e) == IF e = "listener" THEN "client" ELSE "listener"
AtMost(a, b) == IF a < b THEN a ELSE b

VARIABLES
  hosted,       \* the ends with a runtime (__runtime)
  os,           \* "windows", "unbelled" (Windows with no doorbell), "posix"
  instance,     \* the listener's side of the channel
  opened,       \* whether a client holds its end
  cut,          \* whether the listener has let that client go
  queue,        \* units each end can read
  out,          \* __outQueued of each end
  bell,         \* each end's doorbell, an auto-reset event
  reader,       \* where each reader thread is
  left,         \* units its pass has still to read
  busy, full,   \* whether its pass did something; `full` as it began
  waits,        \* what it waits for, kept through a pass it woke for
  framing,      \* units read and not yet framed
  inbound,      \* __inQueued: payload units not yet delivered
  sender, call, \* where the thread that sends and closes is, and in what
  held, armed,  \* __outPassQueued and __outRetryArmed
  connected,    \* __connected of each end
  events,       \* clients connected and frames sent so far
  stale,        \* an earlier client's reader still waits on the doorbell
  stolen        \* it took a ring the present client's reader did not get

chanVars == <<hosted, os, instance, opened, cut>>
passVars == <<left, busy, full, waits, framing>>
callVars == <<sender, call, held, armed>>
countVars == <<events, stale, stolen>>

pipeVars == <<chanVars, queue, out, bell, reader, passVars, inbound, callVars,
              connected, countVars>>

Each(x) == [e \in Ends |-> x]

LocalPipeInit ==
  /\ hosted \in Hostings
  /\ os \in {"windows", "unbelled", "posix"}
  /\ instance = "listening"
  /\ opened = FALSE /\ cut = FALSE
  /\ queue = Each(0) /\ out = Each(0) /\ left = Each(0)
  /\ framing = Each(0) /\ inbound = Each(0) /\ waits = Each({})
  /\ bell = Each(FALSE) /\ busy = Each(FALSE) /\ full = Each(FALSE)
  /\ connected = Each(FALSE) /\ held = Each(FALSE) /\ armed = Each(FALSE)
  /\ reader = [e \in Ends |-> IF e = "listener" THEN "top" ELSE "off"]
  /\ sender = Each("idle") /\ call = Each("none")
  /\ events = 0 /\ stale = FALSE /\ stolen = FALSE

-----------------------------------------------------------------------------
\* The other end is gone, for good or until the next client.
PeerGone(e) ==
  IF e = "listener" THEN instance \in {"clientGone", "disconnected"}
  ELSE cut

\* native_getBytesAvailable: PeekNamedPipe fails on a pipe left and read
\* empty, FIONREAD counts what a socket holds, whoever has gone.
bytesInPipe(e) == IF queue[e] = 0 /\ PeerGone(e) THEN -1 ELSE queue[e]

bytesInSocket(e) == queue[e]

getBytesAvailable(e) ==
  IF os = "posix" THEN bytesInSocket(e) ELSE bytesInPipe(e)

\* Variant of isOpen: nothing to read and no error are taken for open.
isOpenUnlessError(e) == os = "posix" \/ queue[e] > 0 \/ ~PeerGone(e)

\* native_isOpen: PeekNamedPipe succeeds, or recv(MSG_PEEK) finds something
\* or says it would wait.
isOpenPipe(e) == bytesInPipe(e) >= 0

isOpenSocket(e) == queue[e] > 0 \/ ~PeerGone(e)

isOpen(e) == IF os = "posix" THEN isOpenSocket(e) ELSE isOpenPipe(e)

\* native_writeSome's write: how much of `out` the channel takes now, -1 for
\* a peer gone; where nobody is at the other end yet, a pipe takes nothing
\* and a listening socket is no connection.
RoomFor(e) == AtMost(out[e], PipeBuffer - queue[Peer(e)])

Unconnected(e) == e = "listener" /\ instance = "listening"

writeSomePipe(e) ==
  IF PeerGone(e) THEN -1 ELSE IF Unconnected(e) THEN 0 ELSE RoomFor(e)

writeSomeSocket(e) == IF PeerGone(e) \/ Unconnected(e) THEN -1 ELSE RoomFor(e)

writeSome(e) == IF os = "posix" THEN writeSomeSocket(e) ELSE writeSomePipe(e)

\* One turn of __flushOutput's loop: how much it writes, 0 to stop at.
Flushed(e) == IF out[e] > 0 THEN writeSome(e) ELSE 0

Written(e, n) ==
  /\ out' = [out EXCEPT ![e] = @ - n]
  /\ queue' = [queue EXCEPT ![Peer(e)] = @ + n]

\* ringPeer: nothing where there is no doorbell.
ringPeer(e) == bell' = [bell EXCEPT ![Peer(e)] = @ \/ os = "windows"]

\* What a native_read of one chunk rings for: half a pipe's room or more.
RingsForRoom == Chunk >= PipeBuffer \div 2

\* __inboundFull.
InboundFull(e) == MaxQueued > 0 /\ inbound[e] >= MaxQueued

\* __passesQueueLimit, asked with something already waiting.
PassesQueueLimit(e) ==
  MaxQueued > 0 /\ out[e] > 0 /\ Frame > MaxQueued - out[e]

ReaderAt(e, from, to) == reader[e] = from /\ reader' = [reader EXCEPT ![e] = to]
SenderAt(e, from, to) == sender[e] = from /\ sender' = [sender EXCEPT ![e] = to]

\* Neither thread of e is inside __handleLock.
Unlocked(e) == sender[e] = "idle" /\ reader[e] \in {"off", "top", "wait", "fail"}

-----------------------------------------------------------------------------
\* ConnectNamedPipe on a pipe made PIPE_NOWAIT, as Windows documents it: the
\* first call after a disconnect makes the instance available again and
\* succeeds; otherwise it fails, saying who is there.
ConnectNamedPipe ==
  CASE instance = "disconnected" -> "success"
    [] instance = "listening" -> "ERROR_PIPE_LISTENING"
    [] instance = "connected" -> "ERROR_PIPE_CONNECTED"
    [] instance = "clientGone" -> "ERROR_NO_DATA"

\* native_accept.
acceptPipe ==
  ConnectNamedPipe \in {"success", "ERROR_PIPE_CONNECTED", "ERROR_NO_DATA"}

acceptSocket == instance \in {"connected", "clientGone"}

accept == IF os = "posix" THEN acceptSocket ELSE acceptPipe

\* What a pass that did nothing waits for: something to read, unless enough
\* waits to be delivered, and room for what waits to be written.  After a
\* wait that poll() ended for nothing, it is a plain one.
WaitsFor(e) ==
  IF waits[e] # {} THEN {}
  ELSE (IF InboundFull(e) THEN {} ELSE {"read"})
       \union (IF connected[e] /\ out[e] > 0 THEN {"write"} ELSE {})

\* The pass goes on at `to`, where that is not its end, or ends: the lock is
\* released, whole frames are handed on, and it goes round again at once or
\* waits.  `did` is whether it has done something, `got` what is to be framed.
PassGoes(e, from, to, did, got) ==
  LET ends == to = "end" IN
  /\ ReaderAt(e, from, IF ~ends THEN to ELSE IF did THEN "top" ELSE "wait")
  /\ busy' = [busy EXCEPT ![e] = did /\ ~ends]
  /\ waits' = [waits EXCEPT ![e] =
       IF ~ends THEN @ ELSE IF did THEN {} ELSE WaitsFor(e)]
  /\ framing' = [framing EXCEPT ![e] = IF ends THEN got % Frame ELSE got]
  /\ inbound' = [inbound EXCEPT ![e] =
       IF ends /\ e \in hosted THEN @ + (got \div Frame) * (Frame - 1) ELSE @]

\* A pass begins: `full` is read, and the lock taken.
PassLocks(e) ==
  /\ reader[e] = "top" /\ sender[e] = "idle"
  /\ full' = [full EXCEPT ![e] = InboundFull(e)]
  /\ stolen' = (stolen /\ e = "listener")

\* A listener with no client asks for one.
PassAccepts ==
  /\ PassLocks("listener") /\ ~connected["listener"]
  /\ PassGoes("listener", "top", IF accept THEN "flush" ELSE "end", accept, 0)
  /\ connected' = [connected EXCEPT !["listener"] = accept]
  /\ instance' = IF instance = "disconnected" THEN "listening" ELSE instance
  /\ UNCHANGED <<hosted, os, opened, cut, queue, out, bell, left, callVars,
                 events, stale>>

\* __flushOutput: what was sent and not yet written, until nothing is left
\* or the channel takes no more.
PassFlushes(e) ==
  LET n == Flushed(e) IN
  /\ \/ PassLocks(e) /\ (e = "listener" => connected[e])
     \/ reader[e] = "flush" /\ UNCHANGED <<full, stolen>>
  /\ reader' = [reader EXCEPT ![e] =
       CASE n < 0 -> "fail" [] n > 0 -> "flushRing" [] OTHER -> "look"]
  /\ IF n > 0 THEN Written(e, n) ELSE UNCHANGED <<out, queue>>
  /\ busy' = [busy EXCEPT ![e] = @ \/ n > 0]
  /\ UNCHANGED <<chanVars, bell, left, waits, framing, inbound, callVars,
                 connected, events, stale>>

\* Variant of PassRings: only a full pipe is rung for.
PassRingsWhenFull(e) ==
  /\ ReaderAt(e, "flushRing", IF out[e] > 0 THEN "flush" ELSE "look")
  /\ IF queue[Peer(e)] = PipeBuffer THEN ringPeer(e) ELSE UNCHANGED bell
  /\ UNCHANGED <<chanVars, queue, out, passVars, inbound, callVars, connected,
                 countVars>>

\* native_writeSome rings once it has written.
PassRings(e) ==
  /\ ReaderAt(e, "flushRing", IF out[e] > 0 THEN "flush" ELSE "look")
  /\ ringPeer(e)
  /\ UNCHANGED <<chanVars, queue, out, passVars, inbound, callVars, connected,
                 countVars>>

\* native_getBytesAvailable, and native_isOpen where it finds nothing; what
\* is there stays there while enough waits to be delivered.
PassLooks(e) ==
  LET n == getBytesAvailable(e)
      reads == n > 0 /\ ~full[e] IN
  /\ PassGoes(e, "look",
       CASE n < 0 -> "fail" [] n = 0 -> "isOpen" [] reads -> "read"
         [] OTHER -> "end",
       busy[e] \/ reads, framing[e])
  /\ left' = [left EXCEPT ![e] = IF reads THEN n ELSE 0]
  /\ UNCHANGED <<chanVars, queue, out, bell, full, callVars, connected,
                 countVars>>

PassAsksOpen(e) ==
  /\ PassGoes(e, "isOpen", IF isOpen(e) THEN "end" ELSE "fail", busy[e], framing[e])
  /\ UNCHANGED <<chanVars, queue, out, bell, left, full, callVars, connected,
                 countVars>>

\* native_read: what was asked for is taken out, and a pipe's peer rung for
\* the room.
readPipe(e, n) ==
  /\ queue' = [queue EXCEPT ![e] = @ - n]
  /\ IF RingsForRoom THEN ringPeer(e) ELSE UNCHANGED bell

readSocket(e, n) ==
  /\ queue' = [queue EXCEPT ![e] = @ - n]
  /\ UNCHANGED bell

\* One native_read of at most a chunk; a pipe disconnected under it fails it.
PassReads(e) ==
  LET n == AtMost(left[e], Chunk) IN
  /\ IF queue[e] < n
     THEN /\ PeerGone(e)
          /\ PassGoes(e, "read", "fail", TRUE, framing[e])
          /\ UNCHANGED <<queue, left, bell>>
     ELSE /\ PassGoes(e, "read", IF left[e] = n THEN "end" ELSE "read", TRUE,
                      framing[e] + n)
          /\ left' = [left EXCEPT ![e] = @ - n]
          /\ IF os = "posix" THEN readSocket(e, n) ELSE readPipe(e, n)
  /\ UNCHANGED <<chanVars, out, full, callVars, connected, countVars>>

\* native_waitForWork wakes for a ring of the doorbell, or for what poll()
\* was asked for; a peer's leaving it tells in any case.
waitOnPipe(e) == bell[e]

waitOnSocket(e) ==
  \/ waits[e] # {} /\ PeerGone(e)
  \/ "read" \in waits[e] /\ queue[e] > 0
  \/ "read" \in waits[e] /\ e = "listener" /\ ~connected[e] /\ instance = "connected"
  \/ "write" \in waits[e] /\ writeSome(e) # 0

\* native_waitForWork ends: rung, ready, or at its timeout of 1 to 10 ms.
\* Only poll() says it woke for work.
Rung(e) ==
  /\ IF os = "posix" THEN waitOnSocket(e) ELSE waitOnPipe(e)
  /\ ReaderAt(e, "wait", "top")
  /\ bell' = [bell EXCEPT ![e] = FALSE]
  /\ waits' = [waits EXCEPT ![e] = IF os = "posix" THEN @ ELSE {}]
  /\ full' = [full EXCEPT ![e] = FALSE]
  /\ UNCHANGED <<chanVars, queue, out, left, busy, framing, inbound,
                 callVars, connected, countVars>>

TimesOut(e) ==
  /\ ReaderAt(e, "wait", "top")
  /\ waits' = [waits EXCEPT ![e] = {}]
  /\ full' = [full EXCEPT ![e] = FALSE]
  /\ UNCHANGED <<chanVars, queue, out, bell, left, busy, framing, inbound,
                 callVars, connected, countVars>>

\* __drainDispatchQueue: a payload is delivered on the runtime's thread.
Delivers(e) ==
  /\ inbound[e] > 0
  /\ inbound' = [inbound EXCEPT ![e] = @ - (Frame - 1)]
  /\ UNCHANGED <<chanVars, queue, out, bell, reader, passVars, callVars,
                 connected, countVars>>

-----------------------------------------------------------------------------
\* __disconnectActive: what was framed in part and what waits to be written
\* go with the peer; the listener lets the client go, a client closes.
PassFails(e) ==
  /\ sender[e] = "idle"
  /\ ReaderAt(e, "fail", IF e = "listener" THEN "leaveRing" ELSE "closeRing")
  /\ connected' = [connected EXCEPT ![e] = FALSE]
  /\ out' = [out EXCEPT ![e] = 0]
  /\ left' = [left EXCEPT ![e] = 0]
  /\ framing' = [framing EXCEPT ![e] = 0]
  /\ busy' = [busy EXCEPT ![e] = FALSE]
  /\ waits' = [waits EXCEPT ![e] = {}]
  /\ UNCHANGED <<chanVars, queue, bell, full, inbound, callVars, countVars>>

\* The listener's side of the connection closed: DisconnectNamedPipe throws
\* away what the client has not read, a socket's or a handle's close leaves
\* it to be read.
LetGo(thrownAway) ==
  /\ cut' = opened
  /\ queue' = [e \in Ends |->
       IF e = "client" /\ ~thrownAway THEN queue[e] ELSE 0]

\* native_disconnect rings, then disconnects.
DisconnectRings ==
  /\ ReaderAt("listener", "leaveRing", "leave")
  /\ ringPeer("listener")
  /\ UNCHANGED <<chanVars, queue, out, passVars, inbound, callVars, connected,
                 countVars>>

Disconnects ==
  /\ ReaderAt("listener", "leave", "top")
  /\ instance' = IF os = "posix" THEN "listening" ELSE "disconnected"
  /\ LetGo(os # "posix")
  /\ UNCHANGED <<hosted, os, opened, out, bell, passVars, inbound, callVars, connected,
                 countVars>>

\* DisconnectNamedPipe fails: the handle is closed, native_close ringing
\* first, and the name listened on anew, which may fail and end the reader.
DisconnectFails ==
  /\ os # "posix"
  /\ ReaderAt("listener", "leave", "endRing")
  /\ UNCHANGED <<chanVars, queue, out, bell, passVars, inbound, callVars,
                 connected, countVars>>

RelistenRings ==
  /\ ReaderAt("listener", "endRing", "end")
  /\ ringPeer("listener")
  /\ UNCHANGED <<chanVars, queue, out, passVars, inbound, callVars, connected,
                 countVars>>

RelistenCloses ==
  /\ ReaderAt("listener", "end", "relisten")
  /\ instance' = "closed"
  /\ LetGo(FALSE)
  /\ UNCHANGED <<hosted, os, opened, out, bell, passVars, inbound, callVars, connected,
                 countVars>>

Relistens ==
  /\ ReaderAt("listener", "relisten", "top")
  /\ instance' = "listening"
  /\ UNCHANGED <<hosted, os, opened, cut, queue, out, bell, passVars, inbound, callVars,
                 connected, countVars>>

RelistenFails ==
  /\ ReaderAt("listener", "relisten", "off")
  /\ UNCHANGED <<chanVars, queue, out, bell, passVars, inbound, callVars,
                 connected, countVars>>

\* An end's pass state once its reader has no session any more.
PassOver(e) ==
  /\ left' = [left EXCEPT ![e] = 0]
  /\ busy' = [busy EXCEPT ![e] = FALSE]
  /\ full' = [full EXCEPT ![e] = FALSE]
  /\ waits' = [waits EXCEPT ![e] = {}]
  /\ framing' = [framing EXCEPT ![e] = 0]
  /\ out' = [out EXCEPT ![e] = 0]
  /\ connected' = [connected EXCEPT ![e] = FALSE]

\* The client's end closed, by its reader, its close() or its process's end.
ClientEndClosed ==
  /\ opened' = FALSE /\ cut' = FALSE
  /\ instance' = IF instance = "connected" /\ ~cut THEN "clientGone"
                 ELSE instance
  /\ queue' = [queue EXCEPT !["client"] = 0]
  /\ PassOver("client")

\* The listener's handle closed by its close(), the client it had with it.
ListenerClosed ==
  /\ instance' = "closed"
  /\ LetGo(FALSE)
  /\ PassOver("listener")
  /\ UNCHANGED opened

\* native_close by a client's reader: rings, then closes.
ReaderCloseRings ==
  /\ ReaderAt("client", "closeRing", "close")
  /\ ringPeer("client")
  /\ UNCHANGED <<chanVars, queue, out, passVars, inbound, callVars, connected,
                 countVars>>

ReaderCloses ==
  /\ ReaderAt("client", "close", "off")
  /\ ClientEndClosed
  /\ UNCHANGED <<hosted, os, bell, inbound, callVars, countVars>>

-----------------------------------------------------------------------------
\* connect(): close() first, which discards what was still to be delivered;
\* then native_connectWithTimeout reaches the listener: the handle is the
\* client's, its reader starts, and it rings.
Connects ==
  /\ ~opened /\ instance = "listening" /\ events < MaxEvents
  /\ reader["client"] = "off" /\ sender["client"] = "idle"
  /\ opened' = TRUE /\ cut' = FALSE
  /\ instance' = "connected"
  /\ connected' = [connected EXCEPT !["client"] = TRUE]
  /\ reader' = [reader EXCEPT !["client"] = "top"]
  /\ sender' = [sender EXCEPT !["client"] = "ring"]
  /\ call' = [call EXCEPT !["client"] = "send"]
  /\ inbound' = [inbound EXCEPT !["client"] = 0]
  /\ events' = events + 1
  /\ UNCHANGED <<hosted, os, queue, out, bell, passVars, held, armed, stale,
                 stolen>>

\* send() on an open connection takes the lock.
MayFrame(e) ==
  Unlocked(e) /\ connected[e] /\ events < MaxEvents

Framed(e) ==
  /\ out' = [out EXCEPT ![e] = @ + Frame]
  /\ events' = events + 1

\* send() from another thread than the runtime's: framed, and written at
\* once as far as the channel takes it.
Sends(e) ==
  /\ MayFrame(e) /\ ~PassesQueueLimit(e) /\ ~held[e]
  /\ SenderAt(e, "idle", "write") /\ call' = [call EXCEPT ![e] = "send"]
  /\ Framed(e)
  /\ UNCHANGED <<chanVars, queue, bell, reader, passVars, inbound, held, armed,
                 connected, stale, stolen>>

\* __holdForPass: on the runtime's thread, or with the pass's end asked for
\* already, what is framed waits for it.
SendHolds(e) ==
  /\ MayFrame(e) /\ ~PassesQueueLimit(e) /\ e \in hosted
  /\ held' = [held EXCEPT ![e] = TRUE]
  /\ Framed(e)
  /\ UNCHANGED <<chanVars, queue, bell, reader, passVars, inbound, sender, call,
                 armed, connected, stale, stolen>>

\* __flushPass, at the end of the pass or from the retry it armed.
flushPass(e) ==
  LET writes == connected[e] /\ out[e] > 0 IN
  /\ Unlocked(e)
  /\ held' = [held EXCEPT ![e] = FALSE]
  /\ SenderAt(e, "idle", IF writes THEN "write" ELSE "idle")
  /\ call' = [call EXCEPT ![e] = IF writes THEN "pass" ELSE "none"]
  /\ UNCHANGED <<chanVars, queue, out, bell, reader, passVars, inbound,
                 connected, countVars>>

PassesOn(e) == held[e] /\ flushPass(e) /\ UNCHANGED armed

RetryOutput(e) ==
  armed[e] /\ armed' = [armed EXCEPT ![e] = FALSE] /\ flushPass(e)

\* The call is over: __closeWith goes on to close the handle.
CallOver(e) ==
  LET closing == call[e] = "close" IN
  /\ sender' = [sender EXCEPT ![e] = IF closing THEN "closeRing" ELSE "idle"]
  /\ call' = [call EXCEPT ![e] = IF closing THEN @ ELSE "none"]

\* One turn of __flushOutput's loop; __flushPass arms a retry for what the
\* channel does not take.
SendWrites(e) ==
  LET n == Flushed(e) IN
  /\ sender[e] = "write"
  /\ IF n > 0
     THEN SenderAt(e, "write", "ring") /\ Written(e, n) /\ UNCHANGED call
     ELSE CallOver(e) /\ UNCHANGED <<out, queue>>
  /\ armed' = [armed EXCEPT ![e] =
       @ \/ (call[e] = "pass" /\ n = 0 /\ out[e] > 0)]
  /\ UNCHANGED <<chanVars, bell, reader, passVars, inbound, held, connected,
                 countVars>>

SendRings(e) ==
  /\ sender[e] = "ring"
  /\ IF out[e] > 0 THEN SenderAt(e, "ring", "write") /\ UNCHANGED call
     ELSE CallOver(e)
  /\ ringPeer(e)
  /\ UNCHANGED <<chanVars, queue, out, reader, passVars, inbound, held, armed,
                 connected, countVars>>

IsOpened(e) == IF e = "client" THEN opened ELSE instance # "closed"

\* __closeWith: the session ends and what is to be delivered is discarded;
\* what waits to be written goes if the channel takes it now.
closeWith(e, at) ==
  /\ Unlocked(e) /\ IsOpened(e)
  /\ SenderAt(e, "idle", at) /\ call' = [call EXCEPT ![e] = "close"]
  /\ inbound' = [inbound EXCEPT ![e] = 0]
  /\ UNCHANGED <<chanVars, queue, out, bell, reader, passVars, held, armed,
                 connected, countVars>>

Closes(e) == closeWith(e, "write")

\* send() finds more waiting than maxQueuedBytes allows.
SendOverflows(e) == MayFrame(e) /\ PassesQueueLimit(e) /\ closeWith(e, "write")

\* __handleCallbackFailure: a callback throws as a payload is delivered.
CallbackThrows(e) == inbound[e] > 0 /\ closeWith(e, "closeRing")

\* native_close rings and closes the handle.  A client's reader asleep
\* sleeps on, on a doorbell the next client of the name will have too.
CloseRings(e) ==
  /\ SenderAt(e, "closeRing", "close")
  /\ ringPeer(e)
  /\ UNCHANGED <<chanVars, queue, out, reader, passVars, inbound, call, held,
                 armed, connected, countVars>>

CloseHandle(e) ==
  /\ SenderAt(e, "close", "idle") /\ call' = [call EXCEPT ![e] = "none"]
  /\ IF e = "client" THEN ClientEndClosed ELSE ListenerClosed
  /\ stale' = (stale \/ (e = "client" /\ reader[e] = "wait" /\ os = "windows"))
  /\ reader' = [reader EXCEPT ![e] = "off"]
  /\ UNCHANGED <<hosted, os, bell, inbound, held, armed, events, stolen>>

\* The client's process ends at any step, with no ring.
ClientDies ==
  /\ opened
  /\ ClientEndClosed
  /\ reader' = [reader EXCEPT !["client"] = "off"]
  /\ sender' = [sender EXCEPT !["client"] = "idle"]
  /\ call' = [call EXCEPT !["client"] = "none"]
  /\ held' = [held EXCEPT !["client"] = FALSE]
  /\ armed' = [armed EXCEPT !["client"] = FALSE]
  /\ inbound' = [inbound EXCEPT !["client"] = 0]
  /\ UNCHANGED <<hosted, os, bell, events, stale, stolen>>

\* The earlier client's reader wakes, finds its session over and ends.
StaleReaderEnds ==
  /\ stale /\ stale' = FALSE
  /\ \/ bell["client"] /\ stolen' = TRUE
        /\ bell' = [bell EXCEPT !["client"] = FALSE]
     \/ UNCHANGED <<bell, stolen>>
  /\ UNCHANGED <<chanVars, queue, out, reader, passVars, inbound, callVars,
                 connected, events>>

-----------------------------------------------------------------------------
EndsItsWait(e) == Rung(e) \/ TimesOut(e)

\* What a listener's and a client's reader do once a pass has failed.
LetsGo ==
  \/ DisconnectRings \/ Disconnects \/ DisconnectFails
  \/ RelistenRings \/ RelistenCloses \/ Relistens \/ RelistenFails

ReaderClosesHandle == ReaderCloseRings \/ ReaderCloses

ReaderStep(e) ==
  \/ PassFlushes(e) \/ PassRings(e) \/ PassLooks(e) \/ PassAsksOpen(e)
  \/ PassReads(e) \/ EndsItsWait(e) \/ PassFails(e)
  \/ e = "listener" /\ (PassAccepts \/ LetsGo)
  \/ e = "client" /\ ReaderClosesHandle

SenderStep(e) == SendWrites(e) \/ SendRings(e) \/ CloseRings(e) \/ CloseHandle(e)

LocalPipeNext ==
  \/ \E e \in Ends :
       \/ ReaderStep(e) \/ SenderStep(e)
       \/ Sends(e) \/ SendHolds(e) \/ SendOverflows(e)
       \/ PassesOn(e) \/ RetryOutput(e)
       \/ Delivers(e) \/ CallbackThrows(e) \/ Closes(e)
  \/ Connects \/ ClientDies \/ StaleReaderEnds

LocalPipeSpec == LocalPipeInit /\ [][LocalPipeNext]_pipeVars

-----------------------------------------------------------------------------
\* What an end sends waits up to maxQueuedBytes, or one frame; what it has
\* read waits up to what a pass may add to less than maxQueuedBytes.
MostQueued == IF MaxQueued < Frame THEN Frame ELSE MaxQueued

LocalPipeTypeOK ==
  /\ os \in {"windows", "unbelled", "posix"}
  /\ instance \in
       {"listening", "connected", "clientGone", "disconnected", "closed"}
  /\ opened \in BOOLEAN /\ cut \in BOOLEAN
  /\ queue \in [Ends -> 0..PipeBuffer] /\ left \in [Ends -> 0..PipeBuffer]
  /\ out \in [Ends -> 0..MostQueued]
  /\ inbound \in [Ends -> 0..MaxQueued + Frame + PipeBuffer]
  /\ framing \in [Ends -> 0..Frame + PipeBuffer]
  /\ bell \in [Ends -> BOOLEAN] /\ busy \in [Ends -> BOOLEAN]
  /\ full \in [Ends -> BOOLEAN] /\ waits \in [Ends -> SUBSET {"read", "write"}]
  /\ connected \in [Ends -> BOOLEAN]
  /\ held \in [Ends -> BOOLEAN] /\ armed \in [Ends -> BOOLEAN]
  /\ stale \in BOOLEAN /\ stolen \in BOOLEAN

\* The other end is between a write, or a connect, and the ring after it.
AboutToRing(e) == reader[Peer(e)] = "flushRing" \/ sender[Peer(e)] = "ring"

\* A reader asleep on its doorbell has been rung, or is about to be, for
\* what it has to read and for a client to take, unless it left that unread
\* for as much to be delivered; the one ring it can miss is one an earlier
\* client's reader took ("a reader wakes as its data arrives").
DataRings ==
  \A e \in Ends :
    /\ os = "windows" /\ reader[e] = "wait" /\ ~PeerGone(e)
    /\ \/ queue[e] > 0 /\ ~full[e]
       \/ e = "listener" /\ instance = "connected" /\ ~connected[e]
    => bell[e] \/ AboutToRing(e) \/ (e = "client" /\ stolen)

\* A native_read under the handle lock finds every unit it asks for, unless
\* the pipe was disconnected under it: it never waits out its 5 s there.
ReadNeverWaits ==
  \A e \in Ends :
    reader[e] = "read" => left[e] <= queue[e] \/ PeerGone(e)

\* What is on its way between two connected ends is whole frames, in part
\* read: nothing an earlier client left is framed with the next one's.
FramesStayWhole ==
  \A e \in Ends :
    instance = "connected" /\ opened /\ ~cut
      => (out[e] + queue[Peer(e)] + framing[Peer(e)]) % Frame = 0

\* A pass finds its peer gone only once everything the peer wrote is read,
\* however the write, the leaving and the pass's two looks fall; what a
\* Windows pipe's server throws away by disconnecting is not there any more.
ReadBeforeClosed ==
  [][\A e \in Ends :
       reader[e] \in {"look", "isOpen"} /\ reader'[e] = "fail"
         => queue[e] = 0]_pipeVars

\* The runtime of e goes on delivering what was read.
Takes(e) == []<>(inbound[e] = 0)

\* A listener whose client went, a client that came and went unseen included,
\* can be connected to again ("native_disconnect readies the instance for the
\* next"), or is closed: by its close(), or where it cannot listen anew.
NextClientFindsRoom ==
  Takes("listener")
    => [](instance \in {"clientGone", "disconnected"}
            => <>(instance \in {"listening", "closed"}))

\* An end that still says it is connected finds out that its peer is gone,
\* doorbells, stolen rings and missed ones notwithstanding.
LeavingIsNoticed ==
  \A e \in Ends :
    Takes(e)
      => [](connected[e] /\ PeerGone(e) => <>(~connected[e] \/ ~PeerGone(e)))

\* What is sent on a connection that lasts is written and read, held for the
\* pass or not, as long as the other end's runtime takes what it read.
SentIsRead ==
  \A e \in Ends :
    <>[](instance = "connected" /\ opened /\ ~cut) /\ Takes(Peer(e))
      => ~<>[](out[e] > 0 \/ queue[Peer(e)] > 0)

\* What one end sends the other reads, through doorbells, partial writes,
\* back-pressure and closing: a sleeping reader is rung, a read finds what it
\* was told of, frames stay whole, the queues keep to their bounds, the end is
\* found last, and nothing stays in the buffers.
SentArrives ==
  /\ [](LocalPipeTypeOK /\ DataRings /\ ReadNeverWaits /\ FramesStayWhole)
  /\ ReadBeforeClosed /\ SentIsRead

\* A peer that leaves is noticed, and the next client finds room.
ClientsTakeTurns == NextClientFindsRoom /\ LeavingIsNoticed
=============================================================================
