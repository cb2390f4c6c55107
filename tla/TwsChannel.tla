------------------------------ MODULE TwsChannel ------------------------------
(***************************************************************************)
(* The back-end's connection to TWS, as the callbacks of the TWS library   *)
(* open and close it: a connection to the real TWS, or a pair of sockets   *)
(* with a fake TWS at the other end, served by the same thread.  The I/O   *)
(* logger listens in on real connections; it outlives them, and keeps what *)
(* it has heard of a message until the message is complete.                *)
(*                                                                         *)
(* The library calls open once per attempt, and close on an error as well  *)
(* as when it is told to disconnect.                                       *)
(***************************************************************************)
EXTENDS RequestKinds, Naturals

CONSTANTS
  LogTraffic, \* m_tws_log_traffic
  MaxOpens    \* bound: how often a connection is attempted

ASSUME ChannelAssumption == LogTraffic \in BOOLEAN /\ MaxOpens \in Nat

VARIABLES
  phase,     \* where the library is: the two halves of its greeting come first
  opens,     \* how many attempts were made; numbers the connections
  conn,      \* what m_tws_conn points to
  faking,    \* m_faking_the_ib_tws_connection
  far,       \* m_fake_conn[1]: the number of the pair, 0 for NULL
  sockets,   \* the sockets that are open
  greeting,  \* in_server_negotiation, of the fake TWS
  listening, \* the logger is in m_after
  logger,    \* the logger: its phase, its buffers, the message it is in
  asked,     \* what the fake TWS took for a request last, on this connection
  stop       \* mongoose's stop flag

\* A history variable, which no step depends on.
VARIABLE
  misread    \* how many fake connections in a row, up to the one that greeted
             \* last, had their first message taken for the second one

link == <<conn, faking, far, sockets>>
vars == <<phase, opens, link, greeting, listening, logger, asked, stop, misread>>

NoConn == "none"
Near == <<opens, "near">>  \* the sockets of this attempt
Far  == <<opens, "far">>
Real == <<opens, "real">>

\* A buffer is the set of the connections it has elements of; "in" is the
\* connection whose message is being received, 0 if there is none.
NewLogger == [init |-> TRUE, tx |-> {}, rx |-> {}, in |-> 0]

Init ==
  /\ phase = "closed"
  /\ opens = 0
  /\ conn = NoConn
  /\ faking = FALSE
  /\ far = 0
  /\ sockets = {}
  /\ greeting = FALSE
  /\ listening = FALSE
  /\ logger = NewLogger
  /\ asked = "none"
  /\ stop = FALSE
  /\ misread = 0

-----------------------------------------------------------------------------
(* The logger; each operator gives its next state *)

\* write_tx_msg(), write_rx_msg(): the buffer is emptied if there is a log.
TxWritten(g) == IF LogTraffic THEN [g EXCEPT !.tx = {}] ELSE g
RxWritten(g) == IF LogTraffic THEN [g EXCEPT !.rx = {}] ELSE g

Opened(g) == [g EXCEPT !.in = 0]
Closed(g) == RxWritten(TxWritten(g))

\* The elements of the greeting are gathered without a message.
Greeted(g) == [g EXCEPT !.tx = @ \cup {opens}, !.rx = @ \cup {opens}]

\* A request goes out: what came before the very first one is written first.
\* flush() writes the request.
Requested(g) ==
  LET h == IF g.init THEN RxWritten(TxWritten(g)) ELSE g
  IN  TxWritten([h EXCEPT !.init = FALSE, !.tx = @ \cup {opens}])

Heard(g) ==
  [g EXCEPT !.rx = @ \cup {opens}, !.in = IF g.init \/ @ # 0 THEN @ ELSE opens]
HeardAll(g) == IF g.init THEN g ELSE [RxWritten(g) EXCEPT !.in = 0]

\* The logger is told, if it listens.
Log(next) == logger' = IF listening THEN next ELSE logger

-----------------------------------------------------------------------------
(* Opening and closing *)

\* io_open(), of the channel and of the manager: TWS if it can be reached, or
\* else the fake one. The observers are told; the logger becomes one after that.
Open(reached, paired) ==
  /\ phase = "closed" /\ ~stop
  /\ opens < MaxOpens
  /\ opens' = opens + 1
  /\ conn' = IF reached THEN "real" ELSE IF paired THEN "fake" ELSE NoConn
  /\ faking' = (conn' = "fake")
  /\ far' = IF faking' THEN opens' ELSE far
  /\ sockets' = sockets \cup (CASE conn' = "real" -> {Real'}
                                [] conn' = "fake" -> {Near', Far'}
                                [] OTHER          -> {})
  /\ phase' = IF conn' = NoConn THEN "failed" ELSE "open"
  /\ Log(Opened(logger))
  /\ listening' = (listening \/ ~faking')
  /\ asked' = "none"
  /\ UNCHANGED <<greeting, stop, misread>>

\* fake_ib_tws_server(3), and mg_close_connection() of m_tws_conn.
FarEnds == IF far = 0 THEN {} ELSE {<<far, "far">>}
NearEnd == IF conn = "real" THEN {Real} ELSE {Near}

\* Faulty variant: the far end is left to the fake TWS.
CloseNearEnd ==
  /\ conn' = NoConn
  /\ faking' = FALSE
  /\ far' = 0
  /\ sockets' = sockets \ NearEnd

\* What there is of a connection is closed.
CloseEnds ==
  IF conn = NoConn THEN UNCHANGED link
  ELSE /\ conn' = NoConn
       /\ faking' = FALSE
       /\ far' = 0
       /\ sockets' = (sockets \ NearEnd) \ FarEnds

\* Faulty variant: the logger is taken off first.
CloseUnheard ==
  /\ CloseEnds
  /\ listening' = FALSE
  /\ phase' = "closed"
  /\ UNCHANGED <<opens, greeting, logger, asked, stop, misread>>

\* io_close(), which may come more than once and at any time: when io_receive()
\* fails, real or fake, in the middle of the greeting too. The fake TWS's static
\* flag stays as it is.
Close ==
  /\ CloseEnds
  /\ Log(Closed(logger))
  /\ listening' = FALSE
  /\ phase' = "closed"
  /\ UNCHANGED <<opens, greeting, asked, stop, misread>>

-----------------------------------------------------------------------------
(* Traffic *)

\* The fake TWS reads what is sent to it, unless the server is stopping.
Served == faking /\ ~stop

\* Faulty variant: the fake TWS forgets that the second message was the last one.
GreetsOnAndOn(m) == m = "version" \/ greeting

\* What the fake TWS makes of its flag on a message of one element, without and
\* with the flag up: the version begins a greeting that has not begun; all else
\* ends it, being taken for the client id, or for a request.
Greets(m) == m = "version" /\ ~greeting

\* The version, and TWS's version in return. The fake TWS answers so unless it
\* takes the message for the client id: then it is the accounts and the farms, and
\* the library may go on with that or close.
GreetFirst ==
  /\ phase = "open"
  /\ phase' = "greeted"
  /\ greeting' = IF Served THEN Greets("version") ELSE greeting
  /\ misread' = IF ~Served THEN misread ELSE IF greeting THEN misread + 1 ELSE 0
  /\ Log(Greeted(logger))
  /\ UNCHANGED <<opens, link, listening, asked, stop>>

\* The client id. The fake TWS takes it for a request if it took the version for it.
GreetSecond ==
  /\ phase = "greeted"
  /\ phase' = "connected"
  /\ asked' = IF Served /\ ~greeting THEN "client_id" ELSE asked
  /\ greeting' = IF Served THEN Greets("client_id") ELSE greeting
  /\ Log(Greeted(logger))
  /\ UNCHANGED <<opens, link, listening, stop, misread>>

\* The requests that tws_fake_server.cpp has an answer to; all others fail an
\* assertion there.
FakeKnows == {"req_scanner_subscription", "cancel_scanner_subscription",
              "req_scanner_parameters", "req_current_time"}

\* A request, as far as the program transmits it. Any request ends the greeting.
Request(k) ==
  /\ phase = "connected"
  /\ asked' = IF Served THEN k ELSE asked
  /\ greeting' = IF Served THEN FALSE ELSE greeting
  /\ Log(Requested(logger))
  /\ UNCHANGED <<phase, opens, link, listening, stop, misread>>

\* A part of a message comes in, and the end of one. The connection may break
\* between two of them.
Hear ==
  /\ phase = "connected"
  /\ Log(Heard(logger))
  /\ UNCHANGED <<phase, opens, link, greeting, listening, asked, stop, misread>>

HearEnd ==
  /\ phase = "connected"
  /\ Log(HeardAll(logger))
  /\ UNCHANGED <<phase, opens, link, greeting, listening, asked, stop, misread>>

Stop ==
  /\ ~stop
  /\ stop' = TRUE
  /\ UNCHANGED <<phase, opens, link, greeting, listening, logger, asked, misread>>

OpenAny == \E reached, paired \in BOOLEAN : Open(reached, paired)

\* Faulty variant: every kind of request is transmitted.
RequestAnyKind == \E k \in Kinds : Request(k)
RequestAny == \E k \in Transmits : Request(k)

Next == OpenAny \/ Close \/ GreetFirst \/ GreetSecond \/ RequestAny \/ Hear \/ HearEnd \/ Stop

Spec == Init /\ [][Next]_vars

-----------------------------------------------------------------------------
(* Safety *)

\* The sockets that are open are those of the one connection there is, whatever
\* sequence of real, fake and failed connections came before, and the flag that
\* has the back-end serve the fake TWS is up just as long as the fake TWS is
\* there; a connection is never opened over another: assert(!m_tws_conn).
OneConnection ==
  /\ sockets = CASE conn = "real" -> {Real}
                 [] conn = "fake" -> {Near, Far}
                 [] OTHER         -> {}
  /\ faking <=> conn = "fake"
  /\ far # 0 <=> conn = "fake"

\* What the logger keeps is of the real connection there is: everything was
\* written when the connection was closed, the part of a message included, and
\* nothing of the fake TWS gets into the log.
WrittenInTime == logger.tx \cup logger.rx \subseteq (IF conn = "real" THEN {opens} ELSE {})

\* The fake TWS's static flag outlives a connection that is closed between the two
\* messages of its greeting, and the next fake connection then has its version taken
\* for the client id. That spoils one connection at most: however it and those before
\* it ended, the first message after a misread one is read for what it is.
MisreadOnce == misread <= 1

\* Whatever the fake TWS takes for a request, it has an answer to: a request of
\* another kind fails an assertion there. So does a client id that is taken for
\* one, which happens on a connection whose version was misread, and on no other.
FakeAnswers ==
  asked \notin FakeKnows \cup {"none"} => asked = "client_id" /\ misread = 1
=============================================================================
