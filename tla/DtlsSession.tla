---------------------------- MODULE DtlsSession ----------------------------
(***************************************************************************)
(* A DTLS session between two peers: the native session, which owns no     *)
(* socket (NativeDtlsSession.cpp), the transport that drives it            *)
(* (DtlsTransport.hx), and a network that loses and reorders datagrams;    *)
(* those that come twice are the ones sent again. mbedtls is external: its *)
(* handshake is four flights, each resent while the peer does not answer.  *)
(*                                                                         *)
(* Time passes a second at a time, and a handshaking transport is polled   *)
(* at least that often; timers are kept as the seconds they have left.     *)
(***************************************************************************)
EXTENDS Integers, Sequences, FiniteSets
LOCAL INSTANCE SequencesExt

CONSTANTS
  Genuine,   \* choices: the peers whose certificate has the signalled fingerprint
  Strays     \* bound: the peers one datagram too long for the buffer may reach

Endpoints == {"client", "server"}
ASSUME DtlsAssumption == Genuine \subseteq SUBSET Endpoints /\ Strays \subseteq Endpoints

Other(p) == IF p = "client" THEN "server" ELSE "client"

\* Datagrams: the flights by number, and a record of each other kind.
Flights == 1..4
Data == 5
CloseNotify == 6
Alert == 7
Long == 8
Farewell == 9   \* a message and a close_notify, packed into one datagram
Datagrams == Flights \cup {Data, CloseNotify, Alert, Long, Farewell}

VARIABLES
  session,   \* session[p]: the native session
  transport, \* transport[p]: its DtlsTransport
  net,       \* net[p]: the datagrams on their way to p
  genuine,   \* the choice made of Genuine
  polled,    \* the peers in a handshake that were stepped this second
  age,       \* age[p]: while its timer runs, seconds since p heard from its peer, or
             \* sent a new flight
  keptBack   \* keptBack[p]: whether one may have left others unread at p

dtlsVars == <<session, transport, net, genuine, polled, age, keptBack>>

NoTimer == -1

NewSession ==
  [state |-> "handshaking", error |-> "none", handshakeDone |-> FALSE,
   inbound |-> <<>>, outbound |-> <<>>, plaintext |-> <<>>, timer |-> NoTimer,
   flight |-> 0, wait |-> 1, early |-> FALSE, seen |-> FALSE, stopped |-> FALSE]

DtlsInit ==
  /\ session = [p \in Endpoints |-> NewSession]
  /\ transport = [p \in Endpoints |->
       [handle |-> FALSE, connected |-> FALSE, closed |-> FALSE, established |-> "none",
        got |-> 0, cut |-> FALSE, ended |-> FALSE, sent |-> FALSE]]
  /\ net = [p \in Endpoints |-> {}]
  /\ genuine \in Genuine
  /\ polled = {} /\ age = [p \in Endpoints |-> 0]
  /\ keptBack = [p \in Endpoints |-> FALSE]

-----------------------------------------------------------------------------
(* mbedtls, over the session's callbacks.                                  *)

\* The schedule a session is opened with: resent after 1, 2, 4 and 8 seconds.
HANDSHAKE_TIMEOUT_MIN == 1

\* Variant of HANDSHAKE_TIMEOUT_MAX: mbedtls's own.
DefaultTimeoutMax == 60
HANDSHAKE_TIMEOUT_MAX == 8

\* sendCallback: onto the queue.
sendCallback(s, d) == [s EXCEPT !.outbound = Append(@, d)]

\* setTimer: zero stops it.
setTimer(s, seconds) == [s EXCEPT !.timer = IF seconds = 0 THEN NoTimer ELSE seconds]

\* getTimer: whether it has run out.
getTimer(s) == IF s.timer = NoTimer THEN -1 ELSE IF s.timer <= 0 THEN 2 ELSE 0

\* The flight a peer last sent: the client's are odd.
OwnFlight(p, s) == IF (s.flight % 2 = 1) = (p = "client") THEN s.flight ELSE s.flight - 1

\* A flight sent, or sent again, and its timer set: the last needs none.
Transmit(p, s) ==
  LET t == sendCallback(s, OwnFlight(p, s))
  IN  setTimer(t, IF t.flight = 4 THEN 0 ELSE t.wait)

\* The peer's next flight read, and answered with the next of its own.
Advance(p, s) ==
  IF s.flight + 1 = 4
  THEN setTimer([s EXCEPT !.flight = 4, !.wait = HANDSHAKE_TIMEOUT_MIN,
                          !.handshakeDone = TRUE], 0)
  ELSE Transmit(p, [s EXCEPT !.flight = @ + 2, !.wait = HANDSHAKE_TIMEOUT_MIN,
                             !.handshakeDone = (s.flight + 2 = 4)])

\* The wait doubled, and the handshake given up past the longest.
Resend(p, s) ==
  IF s.wait >= HANDSHAKE_TIMEOUT_MAX
  THEN [s EXCEPT !.state = "closed", !.error = "timeout"]
  ELSE Transmit(p, [s EXCEPT !.wait = IF 2 * @ > HANDSHAKE_TIMEOUT_MAX
                                      THEN HANDSHAKE_TIMEOUT_MAX ELSE 2 * @])

\* Ended: the error is kept, and the context not used again.
Failed(s, error) == [s EXCEPT !.state = "closed", !.error = error]

\* recvCallback and what mbedtls_ssl_handshake, and once it is over
\* mbedtls_ssl_read (drainPlaintext), make of one datagram. A datagram longer
\* than the buffer is dropped, and answered as if there were none. Data that
\* comes before the handshake is over is kept for it; a flight already
\* answered is answered again, until data says the peer has got it.
Consume(p, s, d) ==
  CASE d = Long -> [s EXCEPT !.stopped = TRUE]
    [] d \in Flights /\ d = s.flight + 1 /\ ~s.handshakeDone -> Advance(p, s)
    [] d \in Flights /\ d < s.flight /\ d = OwnFlight(p, s) - 1 /\ ~s.seen -> Transmit(p, s)
    [] d = Data /\ ~s.handshakeDone -> [s EXCEPT !.early = TRUE]
    [] d = Data /\ s.handshakeDone /\ ~s.seen ->
         [s EXCEPT !.plaintext = Append(@, d), !.seen = TRUE]
    [] d = CloseNotify /\ s.handshakeDone -> Failed(s, "close_notify")
    [] d = Alert -> Failed(s, "alert")
    [] OTHER -> s

\* The records of a datagram.
Records(d) == IF d = Farewell THEN <<Data, CloseNotify>> ELSE <<d>>

\* A datagram kept from before: read as soon as the handshake is over.
Early(p, s) ==
  IF s.handshakeDone /\ s.early /\ s.state # "closed"
  THEN Consume(p, [s EXCEPT !.early = FALSE], Data) ELSE s

ReadDatagram(p, s, d) ==
  LET Read(t, r) == IF t.state = "closed" THEN t ELSE Early(p, Consume(p, t, r))
  IN  FoldLeft(Read, s, Records(d))

\* Every datagram fed, in order, until one ends the session or the reading.
ReadInbound(p, s) ==
  LET Read(t, d) == IF t.stopped \/ t.state = "closed"
                    THEN [t EXCEPT !.inbound = Append(@, d)] ELSE ReadDatagram(p, t, d)
  IN  FoldLeft(Read, [s EXCEPT !.inbound = <<>>], s.inbound)

-----------------------------------------------------------------------------
(* The session's operations.                                               *)

\* The client's first flight goes out on its first step.
Begin(p, s) ==
  IF p = "client" /\ s.flight = 0
  THEN Transmit(p, [s EXCEPT !.flight = 1, !.wait = HANDSHAKE_TIMEOUT_MIN]) ELSE s

\* mbedtls_ssl_handshake, then drainPlaintext once it is done. An expired timer
\* resends, and leaves what was fed for the next step.
HandshakeStep(p, s) ==
  IF getTimer(s) = 2 THEN Resend(p, s) ELSE Early(p, ReadInbound(p, Begin(p, s)))

\* A flight mbedtls will not accept: an alert, and the error.
Refuse(s) == Failed(sendCallback([s EXCEPT !.inbound = <<>>], Alert), "refused")

\* crossbyte_dtls_step
crossbyte_dtls_step(p, s, refused) ==
  LET t == IF refused THEN Refuse(s) ELSE
           IF s.handshakeDone THEN ReadInbound(p, s) ELSE HandshakeStep(p, s)
      u == [t EXCEPT !.stopped = FALSE]
  IN  IF s.state = "closed" THEN s
      ELSE IF u.handshakeDone /\ u.state = "handshaking"
      THEN [u EXCEPT !.state = "established"] ELSE u

\* crossbyte_dtls_feed
crossbyte_dtls_feed(s, d) == [s EXCEPT !.inbound = Append(@, d)]

\* crossbyte_dtls_notify_close: only a session that is up has anyone to tell.
crossbyte_dtls_notify_close(s) ==
  IF s.state # "established" THEN s
  ELSE [sendCallback(s, CloseNotify) EXCEPT !.state = "closed"]

\* crossbyte_dtls_write
crossbyte_dtls_write(s) == IF s.state # "established" THEN s ELSE sendCallback(s, Data)

\* crossbyte_dtls_close: freed, and messages nobody has read lost with it.
crossbyte_dtls_close(s) ==
  [NewSession EXCEPT !.state = "closed", !.plaintext = s.plaintext]

-----------------------------------------------------------------------------
(* The transport: a call is made of a session and a transport, <<s, t>>,   *)
(* and of the datagrams handed to onSend on the way.                       *)

\* __flush: pending and take, until nothing is pending.
Flushed(s) == [s EXCEPT !.outbound = <<>>]

\* close(notifyPeer): established is cancelled unless it is settled.
close(s, t, notifyPeer) ==
  LET n == IF notifyPeer THEN crossbyte_dtls_notify_close(s) ELSE s
  IN  [s |-> crossbyte_dtls_close(n), out |-> Range(n.outbound),
       t |-> [t EXCEPT !.closed = TRUE, !.connected = FALSE, !.handle = FALSE,
                       !.established = IF @ = "none" THEN "failed" ELSE @]]

Nothing(s, t) == [s |-> s, t |-> t, out |-> {}]

\* __deliver: available and read, each message to onMessage. One that closes
\* leaves nothing to read the rest from; one that throws leaves the rest where
\* it is, and cuts the call that was delivering short.
deliver(s, t, does) ==
  LET got(n) == [t EXCEPT !.got = @ + n, !.cut = (does = "throws")]
      read(n) == [s EXCEPT !.plaintext = SubSeq(@, n + 1, Len(@))]
  IN  IF s.plaintext = <<>> THEN Nothing(s, [t EXCEPT !.cut = FALSE])
      ELSE CASE does = "returns" -> Nothing(read(Len(s.plaintext)), got(Len(s.plaintext)))
             [] does = "closes" -> close(read(1), got(1), TRUE)
             [] does = "throws" -> Nothing(read(1), got(1))

\* __endedByPeer: a session that was up tells onClose.
endedByPeer(s, t) ==
  LET c == close(s, t, ~t.connected)
  IN  IF t.closed THEN Nothing(s, t)
      ELSE [c EXCEPT !.t.ended = t.connected]

\* __verifyPeer: the certificate is the one whose fingerprint was signalled.
verifyPeer(p) == Other(p) \in genuine

\* Variant of AfterStep: the end reported first.
EndFirst(p, s, f, t, does) ==
  LET up == f.state = "established" /\ ~t.connected
      d == deliver(f, IF up THEN [t EXCEPT !.connected = TRUE, !.established = "ok"]
                        ELSE t, does)
  IN  IF f.state = "closed" THEN endedByPeer(f, t)
      ELSE IF up /\ ~verifyPeer(p) THEN close(f, t, TRUE) ELSE d

\* __step, after the native step has gone from s to f and been flushed. The end
\* of the session is not reported by a call that onMessage cuts short.
AfterStep(p, s, f, t, does) ==
  LET failed == f.state = "closed" /\ ~f.handshakeDone
      up == f.state = "established" /\ ~t.connected
      d == deliver(f, IF up THEN [t EXCEPT !.connected = TRUE, !.established = "ok"]
                        ELSE t, does)
      e == endedByPeer(d.s, d.t)
  IN  IF failed \/ (up /\ ~verifyPeer(p)) THEN close(f, t, TRUE)
      ELSE IF f.state = "closed" /\ ~d.t.cut THEN [e EXCEPT !.out = d.out \cup @] ELSE d

\* Handed to the network by p, which has read some: a transport that has closed
\* takes no more.
OnTheWire(p, out, t, read) ==
  [net EXCEPT ![Other(p)] = IF transport[Other(p)].closed THEN {} ELSE @ \cup out,
              ![p] = IF t.closed THEN {} ELSE @ \ read]

\* The whole call: what it leaves of p's session and transport, and what it
\* hands to the network.
step(p, s, d, does, refused) ==
  LET n == crossbyte_dtls_step(p, s, refused)
      r == AfterStep(p, s, Flushed(n), transport[p], does)
  IN  /\ session' = [session EXCEPT ![p] = r.s]
      /\ transport' = [transport EXCEPT ![p] = r.t]
      /\ net' = OnTheWire(p, Range(n.outbound) \cup r.out, r.t, d)
      /\ age' = [age EXCEPT ![p] = IF r.s.flight # s.flight \/ d # {} \/ r.s.timer = NoTimer
                                   THEN 0 ELSE @]
      /\ polled' = IF r.t.closed \/ r.t.connected THEN polled \ {p} ELSE polled \cup {p}

\* What onMessage does: a choice where the step may have a message for it.
Does(s) ==
  IF s.early \/ s.plaintext # <<>> \/ Range(s.inbound) \cap {Data, Farewell} # {}
  THEN {"returns", "closes", "throws"} ELSE {"returns"}

Usable(p) == transport[p].handle /\ ~transport[p].closed

-----------------------------------------------------------------------------
\* new: a session opened, or established failed.
Open(p) ==
  /\ ~transport[p].handle /\ ~transport[p].closed /\ transport[p].established = "none"
  /\ \/ transport' = [transport EXCEPT ![p].handle = TRUE]
     \/ transport' = [transport EXCEPT ![p].established = "failed"]
  /\ UNCHANGED <<session, net, genuine, polled, age, keptBack>>

\* poll: nothing once connected.
Poll(p) ==
  /\ Usable(p) /\ ~transport[p].connected
  /\ \E does \in Does(session[p]) : step(p, session[p], {}, does, FALSE)
  /\ UNCHANGED <<genuine, keptBack>>

\* receive: fed, and read straight away.
Receive(p, d, refused) ==
  /\ Usable(p) /\ d \in net[p]
  /\ refused => d \in Flights /\ ~session[p].handshakeDone /\ d = session[p].flight + 1
  /\ LET fed == crossbyte_dtls_feed(session[p], d)
     IN  \E does \in Does(fed) : step(p, fed, {d}, does, refused)
  /\ UNCHANGED <<genuine, keptBack>>

\* receive, of a piece of a ClientHello: a server's assembly holds it for the
\* pieces still to come, and the session is neither fed nor stepped. The piece
\* stands for its flight, which the last piece, or the peer sending it again,
\* brings whole.
ReceiveHeld(p, d) ==
  /\ Usable(p) /\ p = "server" /\ d = 1
  /\ net' = [net EXCEPT ![p] = @ \ {d}]
  /\ UNCHANGED <<session, transport, genuine, polled, age, keptBack>>

\* A datagram longer than any the session could read, behind others: alone it
\* is dropped, and the step is a poll's.
ReceiveLong(p) ==
  /\ Usable(p) /\ p \in Strays /\ ~keptBack[p] /\ session[p].inbound # <<>>
  /\ LET fed == crossbyte_dtls_feed(session[p], Long)
     IN  \E does \in Does(fed) : step(p, fed, {}, does, FALSE)
  /\ keptBack' = [keptBack EXCEPT ![p] = TRUE]
  /\ UNCHANGED genuine

\* send, of one message.
Send(p) ==
  /\ Usable(p) /\ transport[p].connected /\ ~transport[p].sent
  /\ LET s == crossbyte_dtls_write(session[p])
     IN  /\ session' = [session EXCEPT ![p] = Flushed(s)]
         /\ net' = OnTheWire(p, Range(s.outbound), transport[p], {})
  /\ transport' = [transport EXCEPT ![p].sent = TRUE]
  /\ UNCHANGED <<genuine, polled, age, keptBack>>

Close(p, notifyPeer) ==
  /\ Usable(p)
  /\ LET r == close(session[p], transport[p], notifyPeer)
     IN  /\ session' = [session EXCEPT ![p] = r.s]
         /\ transport' = [transport EXCEPT ![p] = r.t]
         /\ net' = OnTheWire(p, r.out, r.t, {})
  /\ age' = [age EXCEPT ![p] = 0] /\ polled' = polled \ {p}
  /\ UNCHANGED <<genuine, keptBack>>

\* A peer that packs its last message and its goodbye into one datagram.
CloseFarewell(p) ==
  /\ Usable(p) /\ transport[p].connected /\ ~transport[p].sent
  /\ LET r == close(session[p], transport[p], FALSE)
     IN  /\ session' = [session EXCEPT ![p] = r.s]
         /\ transport' = [transport EXCEPT ![p] = r.t]
         /\ net' = OnTheWire(p, {Farewell}, r.t, {})
  /\ UNCHANGED <<genuine, polled, age, keptBack>>

\* The network loses a datagram.
Lose(p, d) ==
  /\ d \in net[p] /\ net' = [net EXCEPT ![p] = @ \ {d}]
  /\ UNCHANGED <<session, transport, genuine, polled, age, keptBack>>

\* A second passes, every handshake polled in the last one.
Tick ==
  /\ \E p \in Endpoints : session[p].timer > 0
  /\ \A p \in Endpoints : Usable(p) /\ ~transport[p].connected => p \in polled
  /\ polled' = {}
  /\ session' = [p \in Endpoints |-> [session[p] EXCEPT !.timer = IF @ > 0 THEN @ - 1 ELSE @]]
  /\ age' = [p \in Endpoints |-> IF session[p].timer > 0 THEN age[p] + 1 ELSE age[p]]
  /\ UNCHANGED <<transport, net, genuine, keptBack>>

DtlsNext ==
  \/ \E p \in Endpoints :
       \/ Open(p) \/ Poll(p) \/ ReceiveLong(p) \/ Send(p) \/ CloseFarewell(p)
       \/ \E notifyPeer \in BOOLEAN : Close(p, notifyPeer)
       \/ \E d \in net[p] : \/ Lose(p, d) \/ ReceiveHeld(p, d)
                             \/ \E refused \in BOOLEAN : Receive(p, d, refused)
  \/ Tick

DtlsSpec == DtlsInit /\ [][DtlsNext]_dtlsVars

-----------------------------------------------------------------------------
DtlsTypeOK ==
  /\ \A p \in Endpoints :
       /\ session[p].state \in {"handshaking", "established", "closed"}
       /\ session[p].error \in {"none", "timeout", "refused", "close_notify", "alert"}
       /\ session[p].timer \in NoTimer..HANDSHAKE_TIMEOUT_MAX
       /\ session[p].flight \in 0..4 /\ session[p].outbound = <<>>
       /\ net[p] \subseteq Datagrams
       /\ transport[p].established \in {"none", "ok", "failed"}
       /\ transport[p].cut \in BOOLEAN
       /\ age[p] \in Nat

\* A transport that says it is connected has a session that is up: an end read
\* from the peer is acted on in the call that read it (drainPlaintext, __step),
\* or, when onMessage threw out of that call, in the next that steps it.
ConnectedIsUp ==
  \A p \in Endpoints :
    transport[p].connected => session[p].state = "established" \/ transport[p].cut

\* It was checked: the peer's certificate is the one it signalled.
ConnectedIsVerified == \A p \in Endpoints : transport[p].connected => Other(p) \in genuine

\* A connected transport is not stepped by poll, so nothing may be left for a
\* later step to read: what was fed is read "straight away", unless a datagram
\* too long to read came with it (recvCallback stops the reading there).
ReadStraightAway ==
  \A p \in Endpoints : transport[p].connected /\ ~keptBack[p] => session[p].inbound = <<>>

\* A message decrypted before the peer's goodbye is delivered before it.
LastWordsAreHeard == \A p \in Endpoints : transport[p].ended => session[p].plaintext = <<>>

\* A peer that falls silent in the handshake is given up on within fifteen
\* seconds, by a transport polled every second: 1, 2, 4 and 8.
GivenUpInTime == \A p \in Endpoints : session[p].timer # NoTimer => age[p] <= 15

\* A handshake that waits for its peer has a timer to end the wait; one whose
\* session is over has a transport the next poll ends.
NoWaitWithoutTimer ==
  \A p \in Endpoints : Usable(p) /\ ~transport[p].connected /\ session[p].flight > 0
                 => session[p].timer # NoTimer \/ transport[p].cut

\* A transport that says it is connected is so, to the peer it checked, with
\* all it was fed read, and one that ended has handed out all it decrypted.
ConnectedIsCurrent ==
  ConnectedIsUp /\ ConnectedIsVerified /\ ReadStraightAway /\ LastWordsAreHeard

\* No handshake goes on for ever, nor for longer than its timers add up to.
HandshakeEnds == NoWaitWithoutTimer /\ GivenUpInTime
=============================================================================
