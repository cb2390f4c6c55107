------------------------------ MODULE TwsProofs ------------------------------
(***************************************************************************)
(* Proofs about what TWS is passed, and over which connection.             *)
(*                                                                         *)
(* The first part is about TwsChannel, for any number of attempts to       *)
(* connect.  It follows from how the phase of the library, the connection, *)
(* the fake TWS's static flag and the logger's place among the observers   *)
(* hang together, which none of the four says of itself.                   *)
(*                                                                         *)
(* The second part is about TwsRecords, for any number of blocks.  A copy  *)
(* is lent from its preparation to its cleaning up, in the order any of    *)
(* the tx() methods takes, and holds what preparing it now would fill in,  *)
(* because the program's value does not change in between.                 *)
(***************************************************************************)
EXTENDS TwsChannel, TwsRecords, TLAPS

Loggers == [init : BOOLEAN, tx : SUBSET Nat, rx : SUBSET Nat, in : Nat]

TypeOK ==
  /\ phase \in {"closed", "failed", "open", "greeted", "connected"}
  /\ opens \in Nat
  /\ conn \in {"none", "real", "fake"}
  /\ faking \in BOOLEAN
  /\ far \in Nat
  /\ greeting \in BOOLEAN
  /\ listening \in BOOLEAN
  /\ logger \in Loggers
  /\ asked \in Transmits \cup {"none", "client_id"}
  /\ stop \in BOOLEAN
  /\ misread \in Nat

\* The library has a connection just when the channel has one.
PhaseOK == phase \in {"closed", "failed"} <=> conn = NoConn

\* The far end that would be closed is that of the connection there is.
FarOK == conn = "fake" => far = opens /\ opens # 0

\* The logger hears what happens on a real connection, and on no other; it
\* stays where it is after an attempt that failed, until the library closes.
ListenerOK ==
  /\ conn = "real" => listening
  /\ listening => conn = "real" \/ phase = "failed"

\* A fake connection that was misread leaves the flag down, and so does what is
\* sent over it next.
GreetingOK == misread <= 1 /\ (misread = 1 => ~greeting)

\* The flag is down between the halves of a fake greeting only if the version was
\* misread, and only then can a client id be taken for a request.
AskedOK ==
  /\ phase = "open" => asked = "none"
  /\ phase = "greeted" /\ Served /\ ~greeting => misread = 1
  /\ asked = "client_id" => misread = 1

Invariant ==
  TypeOK /\ PhaseOK /\ FarOK /\ ListenerOK /\ GreetingOK /\ AskedOK /\ OneConnection

-----------------------------------------------------------------------------

\* What the logger's operators return is a logger again.
LEMMA LoggerTypes ==
  ASSUME opens \in Nat, NEW g \in Loggers
  PROVE  /\ Opened(g) \in Loggers /\ Closed(g) \in Loggers /\ Greeted(g) \in Loggers
         /\ Requested(g) \in Loggers /\ Heard(g) \in Loggers /\ HeardAll(g) \in Loggers
BY DEF Loggers, Opened, Closed, Greeted, Requested, Heard, HeardAll, TxWritten, RxWritten

LEMMA InitInvariant == Init => Invariant
<1> SUFFICES ASSUME Init PROVE Invariant
  OBVIOUS
<1> USE DEF Init, NoConn
<1>1. logger \in Loggers
  BY DEF NewLogger, Loggers
<1>2. TypeOK
  BY <1>1 DEF TypeOK
<1>3. PhaseOK /\ FarOK /\ ListenerOK /\ GreetingOK /\ AskedOK /\ OneConnection
  BY DEF PhaseOK, FarOK, ListenerOK, GreetingOK, AskedOK, OneConnection
<1> QED
  BY <1>2, <1>3 DEF Invariant

LEMMA OpenKeeps ==
  ASSUME Invariant, NEW reached \in BOOLEAN, NEW paired \in BOOLEAN, Open(reached, paired)
  PROVE  Invariant'
<1> USE DEF Invariant, NoConn
<1>1. conn = "none" /\ sockets = {} /\ far = 0 /\ ~faking /\ ~listening
  BY DEF Open, TypeOK, PhaseOK, ListenerOK, OneConnection
<1>2. /\ opens \in Nat /\ opens' = opens + 1 /\ opens' # 0
      /\ conn' \in {"none", "real", "fake"} /\ (faking' <=> conn' = "fake")
      /\ far' = (IF faking' THEN opens' ELSE 0) /\ logger' = logger
      /\ asked' = "none" /\ phase' \in {"failed", "open"}
      /\ UNCHANGED <<greeting, stop, misread>>
  BY <1>1 DEF Open, TypeOK, Log
<1>3. TypeOK'
  BY <1>2 DEF Open, TypeOK
<1>4. PhaseOK' /\ FarOK' /\ ListenerOK' /\ GreetingOK' /\ AskedOK'
  BY <1>1, <1>2 DEF Open, PhaseOK, FarOK, ListenerOK, GreetingOK, AskedOK
<1>5. OneConnection'
  BY <1>1, <1>2 DEF Open, OneConnection, Near, Far, Real
<1> QED
  BY <1>3, <1>4, <1>5

\* Nothing is left open, of whatever kind the connection was.
LEMMA EndsClosed ==
  ASSUME Invariant, CloseEnds
  PROVE  conn' = "none" /\ ~faking' /\ far' = 0 /\ sockets' = {}
<1> USE DEF Invariant, NoConn
<1>1. CASE conn = "none"
  BY <1>1 DEF CloseEnds, TypeOK, OneConnection, link
<1>2. CASE conn = "real"
  BY <1>2 DEF CloseEnds, OneConnection, NearEnd
<1>3. CASE conn = "fake"
  BY <1>3 DEF CloseEnds, OneConnection, NearEnd, FarEnds, FarOK, Near, Far
<1> QED
  BY <1>1, <1>2, <1>3 DEF TypeOK

LEMMA CloseKeeps ==
  ASSUME Invariant, Close
  PROVE  Invariant'
<1> USE DEF Invariant, NoConn
<1>1. conn' = "none" /\ ~faking' /\ far' = 0 /\ sockets' = {}
  BY EndsClosed DEF Close
<1>2. faking' \in BOOLEAN
  BY DEF Close, CloseEnds, TypeOK, link
<1>3. logger' \in Loggers
  BY LoggerTypes DEF Close, Log, TypeOK
<1>4. TypeOK'
  BY <1>1, <1>2, <1>3 DEF Close, TypeOK
<1>5. PhaseOK' /\ FarOK' /\ ListenerOK' /\ GreetingOK' /\ AskedOK'
  BY <1>1 DEF Close, PhaseOK, FarOK, ListenerOK, GreetingOK, AskedOK
<1> QED
  BY <1>1, <1>4, <1>5 DEF OneConnection

\* Traffic: the connection stays, the phase goes on, and a message that is misread
\* leaves the flag down.
LEMMA TrafficKeeps ==
  ASSUME Invariant, GreetFirst \/ GreetSecond \/ RequestAny \/ Hear \/ HearEnd
  PROVE  Invariant'
<1> USE DEF Invariant, NoConn
<1>1. UNCHANGED <<opens, link, listening, stop>> /\ phase \in {"open", "greeted", "connected"}
  BY DEF GreetFirst, GreetSecond, RequestAny, Request, Hear, HearEnd
<1>2. phase' \in {"greeted", "connected"} /\ asked' \in Transmits \cup {"none", "client_id"}
  BY DEF GreetFirst, GreetSecond, RequestAny, Request, Hear, HearEnd, TypeOK
<1>3. greeting' \in BOOLEAN /\ misread' \in Nat /\ GreetingOK'
  <2>1. CASE GreetFirst
    <3>1. Greets("version") <=> ~greeting
      BY DEF Greets
    <3>2. greeting' \in BOOLEAN
      BY <2>1, <3>1 DEF GreetFirst, TypeOK, Greets
    <3>3. CASE Served
      <4>1. (greeting' <=> ~greeting) /\ misread' = (IF greeting THEN misread + 1 ELSE 0)
        BY <2>1, <3>1, <3>3 DEF GreetFirst
      <4>2. misread' \in Nat /\ misread' <= 1 /\ (misread' = 1 => greeting)
        BY <4>1 DEF TypeOK, GreetingOK
      <4> QED
        BY <3>2, <4>1, <4>2 DEF GreetingOK
    <3>4. CASE ~Served
      BY <2>1, <3>2, <3>4 DEF GreetFirst, TypeOK, GreetingOK
    <3> QED
      BY <3>3, <3>4
  <2>2. CASE GreetSecond
    <3>1. ~Greets("client_id")
      BY DEF Greets
    <3> QED
      BY <2>2, <3>1 DEF GreetSecond, Greets, TypeOK, GreetingOK
  <2>3. CASE RequestAny
    BY <2>3 DEF RequestAny, Request, TypeOK, GreetingOK
  <2>4. CASE Hear \/ HearEnd
    BY <2>4 DEF Hear, HearEnd, TypeOK, GreetingOK
  <2> QED
    BY <2>1, <2>2, <2>3, <2>4
<1>4. AskedOK'
  <2>1. "client_id" \notin Transmits
    BY DEF Transmits, EarlyTransmits, LateTransmits
  <2>2. Served' <=> Served
    BY <1>1 DEF Served, link
  <2>3. CASE GreetFirst
    <3>1. asked' = "none" /\ phase' = "greeted"
      BY <2>3 DEF GreetFirst, AskedOK
    <3>2. ASSUME Served, ~greeting' PROVE misread' = 1
      <4>1. greeting
        BY <2>3, <3>2 DEF GreetFirst, Greets
      <4>2. misread' = misread + 1
        BY <2>3, <3>2, <4>1 DEF GreetFirst
      <4>3. misread = 0
        BY <4>1 DEF TypeOK, GreetingOK
      <4> QED
        BY <4>2, <4>3
    <3> QED
      BY <2>2, <3>1, <3>2 DEF AskedOK
  <2>4. CASE GreetSecond
    BY <2>4 DEF GreetSecond, AskedOK
  <2>5. CASE RequestAny
    BY <2>1, <2>5 DEF RequestAny, Request, AskedOK
  <2>6. CASE Hear \/ HearEnd
    BY <2>6 DEF Hear, HearEnd, AskedOK
  <2> QED
    BY <2>3, <2>4, <2>5, <2>6
<1>5. logger' \in Loggers
  BY LoggerTypes
     DEF GreetFirst, GreetSecond, RequestAny, Request, Hear, HearEnd, Log, TypeOK
<1>6. TypeOK'
  BY <1>1, <1>2, <1>3, <1>5 DEF TypeOK, link
<1>7. PhaseOK' /\ FarOK' /\ ListenerOK'
  BY <1>1, <1>2 DEF PhaseOK, FarOK, ListenerOK, link
<1>8. OneConnection'
  BY <1>1 DEF OneConnection, Near, Far, Real, link
<1> QED
  BY <1>3, <1>4, <1>6, <1>7, <1>8

LEMMA NextInvariant == Invariant /\ [Next]_vars => Invariant'
<1> SUFFICES ASSUME Invariant, [Next]_vars PROVE Invariant'
  OBVIOUS
<1>1. CASE OpenAny
  BY <1>1, OpenKeeps DEF OpenAny
<1>2. CASE Close
  BY <1>2, CloseKeeps
<1>3. CASE GreetFirst \/ GreetSecond \/ RequestAny \/ Hear \/ HearEnd
  BY <1>3, TrafficKeeps
<1>4. CASE Stop \/ UNCHANGED vars
  <2>1. UNCHANGED <<phase, opens, link, greeting, listening, logger, asked, misread>>
        /\ stop' \in BOOLEAN /\ (stop => stop')
    BY <1>4 DEF Stop, vars, Invariant, TypeOK
  <2> QED
    BY <2>1 DEF Invariant, TypeOK, PhaseOK, FarOK, ListenerOK, GreetingOK, AskedOK,
                Served, OneConnection, Near, Far, Real, link
<1> QED
  BY <1>1, <1>2, <1>3, <1>4 DEF Next

\* Types, and how the parts of a connection's state hang together.
THEOREM ChannelInvariant == Spec => []Invariant
BY InitInvariant, NextInvariant, PTL DEF Spec

\* One connection at a time, with its own sockets and no others, however many
\* real, fake and failed ones came before (io_open(), io_close()).
THEOREM ConnectionSafe == Spec => []OneConnection
<1>1. Invariant => OneConnection
  BY DEF Invariant
<1> QED
  BY <1>1, ChannelInvariant, PTL

\* The static in_server_negotiation that a fake connection leaves up when it is
\* closed half-way through its greeting spoils the greeting of one further fake
\* connection at most, however many follow and however they end.
THEOREM GreetingHeals == Spec => []MisreadOnce
<1>1. Invariant => MisreadOnce
  BY DEF Invariant, GreetingOK, MisreadOnce
<1> QED
  BY <1>1, ChannelInvariant, PTL

\* The fake TWS has an answer to every kind the program transmits, and only a
\* client id that follows a misread version is taken for another
\* (fake_ib_tws_server(), f_commence_transmit()).
THEOREM FakeSafe == Spec => []FakeAnswers
<1>1. Invariant => FakeAnswers
  BY DEF Invariant, TypeOK, AskedOK, FakeAnswers, FakeKnows, Transmits, EarlyTransmits,
         LateTransmits
<1> QED
  BY <1>1, ChannelInvariant, PTL

-----------------------------------------------------------------------------
(* The log *)

\* Each operator of the logger adds elements of this connection at most.
LEMMA LoggerAdds ==
  ASSUME opens \in Nat, NEW g \in Loggers, NEW S, g.tx \cup g.rx \subseteq S, opens \in S
  PROVE  /\ Greeted(g).tx \cup Greeted(g).rx \subseteq S
         /\ Requested(g).tx \cup Requested(g).rx \subseteq S
         /\ Heard(g).tx \cup Heard(g).rx \subseteq S
         /\ HeardAll(g).tx \cup HeardAll(g).rx \subseteq S
BY DEF Loggers, Greeted, Requested, Heard, HeardAll, TxWritten, RxWritten

LEMMA NextWritten == LogTraffic /\ Invariant /\ WrittenInTime /\ [Next]_vars => WrittenInTime'
<1> SUFFICES ASSUME LogTraffic, Invariant, WrittenInTime, [Next]_vars PROVE WrittenInTime'
  OBVIOUS
<1> USE DEF Invariant, NoConn
<1>1. CASE OpenAny
  <2>1. conn = "none" /\ ~listening
    BY <1>1 DEF OpenAny, Open, PhaseOK, ListenerOK, TypeOK
  <2>2. logger' = logger
    BY <1>1, <2>1 DEF OpenAny, Open, Log
  <2> QED
    BY <2>1, <2>2 DEF WrittenInTime
<1>2. CASE Close
  <2>1. logger'.tx \cup logger'.rx = {}
    <3>1. CASE listening
      BY <1>2, <3>1 DEF Close, Log, Closed, TxWritten, RxWritten, TypeOK, Loggers
    <3>2. CASE ~listening
      BY <1>2, <3>2 DEF Close, Log, ListenerOK, WrittenInTime, TypeOK
    <3> QED
      BY <3>1, <3>2
  <2> QED
    BY <2>1 DEF WrittenInTime
<1>3. CASE GreetFirst \/ GreetSecond \/ RequestAny \/ Hear \/ HearEnd
  <2>1. UNCHANGED <<opens, conn>> /\ phase \notin {"closed", "failed"}
    BY <1>3 DEF GreetFirst, GreetSecond, RequestAny, Request, Hear, HearEnd, link
  <2>2. CASE listening
    <3>1. conn = "real" /\ logger.tx \cup logger.rx \subseteq {opens}
      BY <2>1, <2>2 DEF ListenerOK, WrittenInTime
    <3>2. logger' \in {Greeted(logger), Requested(logger), Heard(logger), HeardAll(logger)}
      BY <1>3, <2>2 DEF GreetFirst, GreetSecond, RequestAny, Request, Hear, HearEnd, Log
    <3>3. logger'.tx \cup logger'.rx \subseteq {opens}
      BY <3>1, <3>2, LoggerAdds DEF TypeOK
    <3> QED
      BY <2>1, <3>1, <3>3 DEF WrittenInTime
  <2>3. CASE ~listening
    <3>1. logger' = logger
      BY <1>3, <2>3 DEF GreetFirst, GreetSecond, RequestAny, Request, Hear, HearEnd, Log
    <3> QED
      BY <2>1, <3>1 DEF WrittenInTime
  <2> QED
    BY <2>2, <2>3
<1>4. CASE Stop \/ UNCHANGED vars
  BY <1>4 DEF Stop, vars, link, WrittenInTime
<1> QED
  BY <1>1, <1>2, <1>3, <1>4 DEF Next

\* With a log, whatever was heard of a connection is written by the time it is
\* closed, half a message included, and nothing of the fake TWS is ever kept.
\* Without one the buffers are not emptied (write_tx_msg(), write_rx_msg()).
THEOREM LogWritten ==
  ASSUME LogTraffic
  PROVE  Spec => []WrittenInTime
<1>1. Init => WrittenInTime
  BY DEF Init, WrittenInTime, NewLogger
<1>2. Invariant /\ WrittenInTime /\ [Next]_vars => WrittenInTime'
  BY NextWritten
<1> QED
  BY <1>1, <1>2, ChannelInvariant, PTL DEF Spec

-----------------------------------------------------------------------------
(* The records *)

\* The step op on the record that holds the field is still to come.
Ahead(op) == \E i \in DOMAIN todo : todo[i] = Does(op, RecordOf)

Records == {"contract", "order", "filter", "subscription", "none"}
Steps == [op : {"prep", "pass", "call", "cleanup"}, record : Records]
Copies == {NoCopy} \cup [there : {TRUE}, value : Values, block : {0, 1}]

RecordTypeOK ==
  /\ field \in Read \cup Sent
  /\ init \in Values
  /\ held \in [valid : BOOLEAN, stored : Values]
  /\ given \in Values \cup {Nothing}
  /\ lent \in Copies
  /\ blocks \in Nat
  /\ todo \in Seq(Steps)

\* A value is valid if and only if the program or TWS gave it, and is that one.
\* A list that was given none is empty, because no default is suggested for it.
ValueOK ==
  /\ held.valid <=> given # Nothing
  /\ held.valid => held.stored = given
  /\ field \in Parts => init = "zero"
  /\ field \in Lists /\ ~held.valid => held.stored = "zero"

\* In what is left of a tx(), s, the record r is passed after it is prepared and
\* cleaned up after it is passed, each once at most.
InOrder(s, r) ==
  /\ \A i \in DOMAIN s : s[i] = Does("prep", r)
       => \E j \in DOMAIN s : i < j /\ s[j] = Does("pass", r)
  /\ \A i \in DOMAIN s : s[i] = Does("pass", r)
       => \E j \in DOMAIN s : i < j /\ s[j] = Does("cleanup", r)
  /\ \A i, j \in DOMAIN s : s[i] = s[j] /\ s[i].record = r => i = j

\* The copy is there while its cleaning up is ahead and its preparation is not, and
\* holds what preparing it now would fill in.
CopyOK ==
  /\ lent.there <=> Ahead("cleanup") /\ ~Ahead("prep")
  /\ lent.there => lent.value = Filled /\ lent.block = Block(held)
  /\ blocks = IF lent.there THEN 1 + lent.block ELSE 0

RecordInvariant == RecordTypeOK /\ ValueOK /\ InOrder(todo, RecordOf) /\ CopyOK

-----------------------------------------------------------------------------
(* Fields and records *)

\* Every field that is read of a record of TWS's is filled in for TWS, and the
\* other way round, in each of the four records.
LEMMA EveryFieldSent == Read \cup Sent = Sent
BY DEF Read, Sent, OrderRead, OrderSent, ContractRead, ContractSent, OrderAmountsRead,
       OrderAmountsSent, OrderTextsRead, OrderTextsSent, OrderListsRead, OrderListsSent,
       OrderCountsRead, OrderCountsSent, OrderFlagsRead, OrderFlagsSent, FilterRead,
       FilterSent, ScannerRead, ScannerSent

\* What has a block of its own loses it when the record is cleaned up.
LEMMA EveryPartCleaned ==
  field \in Lists \cup {"c_undercomp"} => field \in PartsCleaned
BY DEF Lists, OrderListsRead, PartsCleaned, ContractPartsCleaned, OrderPartsCleaned

LEMMA RecordKnown == RecordOf \in Records /\ RecordOf # "none"
BY DEF RecordOf, Records

LEMMA BlockType == Block(held) \in {0, 1}
BY DEF Block

LEMMA FilledType ==
  ASSUME RecordTypeOK, ValueOK
  PROVE  Filled \in Values /\ Filled = IF given = Nothing THEN init ELSE given
<1>1. field \in Sent
  BY EveryFieldSent DEF RecordTypeOK
<1>2. field \in Lists => field \in Parts
  BY DEF Parts
<1> QED
  BY <1>1, <1>2 DEF Filled, RecordTypeOK, ValueOK

-----------------------------------------------------------------------------
(* What tx() does *)

\* There are three sorts of methods, by the records they pass.
LEMMA ThreeSorts ==
  ASSUME NEW k
  PROVE  \/ \E r \in Records \ {"none"} : Tx(k) = With(r)
         \/ Tx(k) = OrderOfContract
         \/ Tx(k) = <<Call>>
<1>1. k \in DOMAIN EarlyTx => \E r \in Records \ {"none"} : EarlyTx[k] \in {With(r), OrderOfContract}
  <2>1. k \in DOMAIN EarlyTx
          => EarlyTx[k] \in {With("subscription"), With("contract"), OrderOfContract}
    BY DEF EarlyTx
  <2> QED
    BY <2>1 DEF Records
<1>2. k \in DOMAIN LateTx => \E r \in Records \ {"none"} : LateTx[k] = With(r)
  <2>1. k \in DOMAIN LateTx => LateTx[k] \in {With("filter"), With("contract")}
    BY DEF LateTx
  <2> QED
    BY <2>1 DEF Records
<1> QED
  BY <1>1, <1>2 DEF Tx

\* Every method prepares a record before it passes it and cleans it up after that,
\* whether or not the call fails, and does nothing of it without the rest.
LEMMA TxInOrder ==
  ASSUME NEW k, NEW r \in Records \ {"none"}
  PROVE  /\ Tx(k) \in Seq(Steps)
         /\ InOrder(Tx(k), r)
         /\ (\E i \in DOMAIN Tx(k) : Tx(k)[i] = Does("cleanup", r))
              <=> (\E i \in DOMAIN Tx(k) : Tx(k)[i] = Does("prep", r))
<1> DEFINE Whole(s) == /\ s \in Seq(Steps) /\ InOrder(s, r)
                       /\ (\E i \in DOMAIN s : s[i] = Does("cleanup", r))
                            <=> (\E i \in DOMAIN s : s[i] = Does("prep", r))
<1>1. ASSUME NEW q \in Records \ {"none"} PROVE Whole(With(q))
  <2> DEFINE s == With(q)
  <2>1. /\ s \in Seq(Steps) /\ DOMAIN s = 1..4
        /\ s[1] = Does("prep", q) /\ s[2] = Does("pass", q)
        /\ s[3] = Does("call", "none") /\ s[4] = Does("cleanup", q)
    BY DEF With, Call, Does, Steps, Records
  <2> HIDE DEF s
  <2>2. InOrder(s, r)
    BY <2>1 DEF InOrder, Does
  <2>3. (\E i \in DOMAIN s : s[i] = Does("cleanup", r))
          <=> (\E i \in DOMAIN s : s[i] = Does("prep", r))
    BY <2>1 DEF Does
  <2> QED
    BY <2>1, <2>2, <2>3 DEF s
<1>2. Whole(OrderOfContract)
  <2> DEFINE s == OrderOfContract
  <2>1. /\ s \in Seq(Steps) /\ DOMAIN s = 1..7
        /\ s[1] = Does("prep", "contract") /\ s[2] = Does("prep", "order")
        /\ s[3] = Does("pass", "contract") /\ s[4] = Does("pass", "order")
        /\ s[5] = Does("call", "none")
        /\ s[6] = Does("cleanup", "order") /\ s[7] = Does("cleanup", "contract")
    BY DEF OrderOfContract, Call, Does, Steps, Records
  <2> HIDE DEF s
  <2>2. InOrder(s, r)
    BY <2>1 DEF InOrder, Does
  <2>3. (\E i \in DOMAIN s : s[i] = Does("cleanup", r))
          <=> (\E i \in DOMAIN s : s[i] = Does("prep", r))
    BY <2>1 DEF Does
  <2> QED
    BY <2>1, <2>2, <2>3 DEF s
<1>3. Whole(<<Call>>)
  BY DEF Call, Does, Steps, Records, InOrder
<1> HIDE DEF Whole
<1>4. Whole(Tx(k))
  <2>1. CASE \E q \in Records \ {"none"} : Tx(k) = With(q)
    BY <1>1, <2>1
  <2>2. CASE Tx(k) \in {OrderOfContract, <<Call>>}
    BY <1>2, <1>3, <2>2
  <2> QED
    BY <2>1, <2>2, ThreeSorts
<1> QED
  BY <1>4 DEF Whole

\* The order holds for what is left after the first step, which was the step op on
\* r if it is not among the rest.
LEMMA TailInOrder ==
  ASSUME NEW s \in Seq(Steps), s # <<>>, NEW r, InOrder(s, r)
  PROVE  /\ Tail(s) \in Seq(Steps)
         /\ InOrder(Tail(s), r)
         /\ \A op : (\E i \in DOMAIN Tail(s) : Tail(s)[i] = Does(op, r))
                      <=> (\E i \in DOMAIN s : s[i] = Does(op, r)) /\ Head(s) # Does(op, r)
<1> DEFINE t == Tail(s)
<1>1. /\ t \in Seq(Steps) /\ Len(s) \in Nat /\ Len(s) >= 1
      /\ DOMAIN s = 1..Len(s) /\ DOMAIN t = 1..(Len(s) - 1)
      /\ \A i \in DOMAIN t : i \in DOMAIN s /\ i + 1 \in DOMAIN s /\ t[i] = s[i + 1]
      /\ Head(s) = s[1] /\ 1 \in DOMAIN s
  OBVIOUS
<1> HIDE DEF t
<1>2. \A j \in DOMAIN s : j # 1 => j - 1 \in DOMAIN t /\ t[j - 1] = s[j]
  BY <1>1
<1>3. \A op : Does(op, r).record = r
  BY DEF Does
<1>4. ASSUME NEW op
      PROVE  (\E i \in DOMAIN t : t[i] = Does(op, r))
               <=> (\E i \in DOMAIN s : s[i] = Does(op, r)) /\ Head(s) # Does(op, r)
  <2>1. ASSUME NEW i \in DOMAIN t, t[i] = Does(op, r) PROVE Head(s) # Does(op, r)
    <3>1. i + 1 # 1 /\ i + 1 \in DOMAIN s /\ s[i + 1] = Does(op, r)
      BY <1>1, <2>1
    <3> QED
      BY <1>1, <1>3, <3>1 DEF InOrder
  <2> QED
    BY <1>1, <1>2, <2>1
<1>5. ASSUME NEW a, NEW b,
             \A i \in DOMAIN s : s[i] = a => \E j \in DOMAIN s : i < j /\ s[j] = b,
             NEW i \in DOMAIN t, t[i] = a
      PROVE  \E j \in DOMAIN t : i < j /\ t[j] = b
  <2>1. PICK j \in DOMAIN s : i + 1 < j /\ s[j] = b
    BY <1>1, <1>5
  <2>2. j - 1 \in DOMAIN t /\ i < j - 1 /\ t[j - 1] = b
    BY <1>1, <1>2, <2>1
  <2> QED
    BY <2>2
<1>6. ASSUME NEW i \in DOMAIN t, NEW j \in DOMAIN t, t[i] = t[j], t[i].record = r
      PROVE  i = j
  <2>1. i + 1 = j + 1
    BY <1>1, <1>6 DEF InOrder
  <2> QED
    BY <1>1, <2>1
<1>7. InOrder(t, r)
  <2>1. \A i \in DOMAIN t : t[i] = Does("prep", r)
          => \E j \in DOMAIN t : i < j /\ t[j] = Does("pass", r)
    <3>1. \A i \in DOMAIN s : s[i] = Does("prep", r)
            => \E j \in DOMAIN s : i < j /\ s[j] = Does("pass", r)
      BY DEF InOrder
    <3> QED
      BY <3>1, <1>5
  <2>2. \A i \in DOMAIN t : t[i] = Does("pass", r)
          => \E j \in DOMAIN t : i < j /\ t[j] = Does("cleanup", r)
    <3>1. \A i \in DOMAIN s : s[i] = Does("pass", r)
            => \E j \in DOMAIN s : i < j /\ s[j] = Does("cleanup", r)
      BY DEF InOrder
    <3> QED
      BY <3>1, <1>5
  <2> QED
    BY <2>1, <2>2, <1>6 DEF InOrder
<1> QED
  BY <1>1, <1>4, <1>7 DEF t

-----------------------------------------------------------------------------
(* The steps *)

LEMMA InitRecords == RecordsInit => RecordInvariant
<1> SUFFICES ASSUME RecordsInit PROVE RecordInvariant
  OBVIOUS
<1> USE DEF RecordsInit
<1>1. RecordTypeOK
  BY DEF RecordTypeOK, Values, Unset, Copies
<1>2. ValueOK
  BY DEF ValueOK, Unset
<1>3. InOrder(todo, RecordOf)
  BY DEF InOrder
<1>4. CopyOK
  BY DEF CopyOK, Ahead, NoCopy
<1> QED
  BY <1>1, <1>2, <1>3, <1>4 DEF RecordInvariant

\* The same field has the same record.
LEMMA SameRecord == field' = field => RecordOf' = RecordOf
BY DEF RecordOf

\* Nothing is lent while nothing is transmitted.
LEMMA NothingLent ==
  ASSUME RecordInvariant, todo = <<>>
  PROVE  ~lent.there /\ lent = NoCopy /\ blocks = 0
<1>1. ~lent.there
  BY DEF RecordInvariant, CopyOK, Ahead
<1> QED
  BY <1>1 DEF RecordInvariant, RecordTypeOK, CopyOK, Copies

\* The field's value changes only while nothing is lent.
LEMMA FillStep ==
  ASSUME RecordInvariant, Fill
  PROVE  RecordInvariant'
<1>1. Kept /\ todo = <<>>
  BY DEF Fill, Construct, Peek, Set, Clear, Kept
<1>2. lent = NoCopy /\ blocks = 0 /\ RecordOf' = RecordOf
  BY <1>1, NothingLent, SameRecord DEF Kept
<1>3. /\ held' \in [valid : BOOLEAN, stored : Values] /\ given' \in Values \cup {Nothing}
      /\ ValueOK'
  <2> USE <1>1 DEF RecordInvariant, RecordTypeOK, ValueOK, Kept
  <2>1. Nothing \notin Values /\ "zero" \in Values
    BY DEF Nothing, Values
  <2>2. ASSUME NEW v \in Values, Construct(v)
        PROVE  /\ held' \in [valid : BOOLEAN, stored : Values]
               /\ given' \in Values \cup {Nothing} /\ ValueOK'
    <3>1. Converted(v) \in Values
      BY <2>1 DEF Converted, Values
    <3>2. CASE held' = Some(Converted(v)) /\ given' = Converted(v)
      <4>1. PICK w \in Values : held' = [valid |-> TRUE, stored |-> w] /\ given' = w
        BY <3>1, <3>2 DEF Some
      <4>2. held'.valid = TRUE /\ held'.stored = w /\ given' # Nothing
        BY <2>1, <4>1
      <4> QED
        BY <2>1, <4>1, <4>2
    <3>3. CASE held' = Unset("zero") /\ given' = Nothing
      <4>1. held' = [valid |-> FALSE, stored |-> "zero"]
        BY <3>3 DEF Unset
      <4>2. held'.valid = FALSE /\ held'.stored = "zero"
        BY <4>1
      <4>3. held' \in [valid : BOOLEAN, stored : Values]
        BY <2>1, <4>1
      <4>4. field' = field /\ init' = init
        OBVIOUS
      <4>5. ValueOK'
        BY <3>3, <4>2, <4>4
      <4> QED
        BY <3>3, <4>3, <4>5
    <3> QED
      BY <2>2, <3>2, <3>3 DEF Construct
  <2>3. ASSUME NEW v \in Values, Peek(v)
        PROVE  /\ held' \in [valid : BOOLEAN, stored : Values]
               /\ given' \in Values \cup {Nothing} /\ ValueOK'
    BY <2>1, <2>3 DEF Peek, Unset, Parts
  <2>4. ASSUME NEW v \in Values, Set(v)
        PROVE  /\ held' \in [valid : BOOLEAN, stored : Values]
               /\ given' \in Values \cup {Nothing} /\ ValueOK'
    BY <2>1, <2>4 DEF Set, Some
  <2>5. ASSUME Clear
        PROVE  /\ held' \in [valid : BOOLEAN, stored : Values]
               /\ given' \in Values \cup {Nothing} /\ ValueOK'
    <3>1. held' = [valid |-> FALSE, stored |-> held.stored] /\ held.stored \in Values
      BY <2>5 DEF Clear
    <3> QED
      BY <2>1, <2>5, <3>1 DEF Clear
  <2> QED
    BY <2>2, <2>3, <2>4, <2>5 DEF Fill
<1>4. RecordTypeOK'
  BY <1>1, <1>3 DEF RecordInvariant, RecordTypeOK, Kept
<1>5. InOrder(todo', RecordOf') /\ CopyOK'
  BY <1>1, <1>2 DEF Kept, InOrder, CopyOK, Ahead, NoCopy
<1> QED
  BY <1>3, <1>4, <1>5 DEF RecordInvariant

LEMMA BeginStep ==
  ASSUME RecordInvariant, NEW k, Begin(k)
  PROVE  RecordInvariant'
<1>1. lent = NoCopy /\ blocks = 0 /\ RecordOf' = RecordOf
  BY NothingLent, SameRecord DEF Begin
<1>2. /\ todo' \in Seq(Steps) /\ InOrder(todo', RecordOf)
      /\ (\E i \in DOMAIN todo' : todo'[i] = Does("cleanup", RecordOf))
           <=> (\E i \in DOMAIN todo' : todo'[i] = Does("prep", RecordOf))
  BY TxInOrder, RecordKnown DEF Begin
<1>3. RecordTypeOK'
  BY <1>2 DEF Begin, RecordInvariant, RecordTypeOK
<1>4. ValueOK'
  BY DEF Begin, RecordInvariant, ValueOK
<1>5. CopyOK'
  BY <1>1, <1>2 DEF Begin, CopyOK, Ahead, NoCopy
<1> QED
  BY <1>1, <1>2, <1>3, <1>4, <1>5 DEF RecordInvariant

\* What is ahead after the first step of what is left.
LEMMA DoneStep ==
  ASSUME RecordInvariant, todo # <<>>, Done, field' = field
  PROVE  /\ todo' \in Seq(Steps) /\ RecordOf' = RecordOf
         /\ InOrder(todo', RecordOf')
         /\ \A op : Ahead(op)' <=> Ahead(op) /\ Head(todo) # Does(op, RecordOf)
<1>1. RecordOf' = RecordOf /\ todo' = Tail(todo) /\ todo \in Seq(Steps)
  BY SameRecord DEF Done, RecordInvariant, RecordTypeOK
<1> QED
  BY <1>1, TailInOrder DEF RecordInvariant, Ahead

\* The first step, if it is one on the record, is ahead, with those that follow it
\* and without those that come before.
LEMMA DoingFirst ==
  ASSUME RecordInvariant
  PROVE  /\ Doing("prep") => Ahead("prep") /\ Ahead("cleanup")
         /\ Doing("pass") => ~Ahead("prep") /\ Ahead("cleanup")
         /\ Doing("cleanup") => ~Ahead("prep") /\ Ahead("cleanup")
<1> DEFINE r == RecordOf
<1>1. todo \in Seq(Steps) /\ InOrder(todo, r)
  BY DEF RecordInvariant, RecordTypeOK
<1>2. \A op : Doing(op) => 1 \in DOMAIN todo /\ todo[1] = Does(op, r)
  BY <1>1 DEF Doing
<1>3. \A i \in DOMAIN todo : i \in Nat /\ i >= 1
  BY <1>1
<1>4. \A op : Does(op, r).record = r /\ Does(op, r).op = op
  BY DEF Does
<1> HIDE DEF r
<1>5. \A i \in DOMAIN todo : todo[i] = Does("prep", r)
        => \E j \in DOMAIN todo : i < j /\ todo[j] = Does("pass", r)
  BY <1>1 DEF InOrder
<1>6. \A i \in DOMAIN todo : todo[i] = Does("pass", r)
        => \E j \in DOMAIN todo : i < j /\ todo[j] = Does("cleanup", r)
  BY <1>1 DEF InOrder
<1>7. \A i, j \in DOMAIN todo : todo[i] = todo[j] /\ todo[i].record = r => i = j
  BY <1>1 DEF InOrder
<1>8. Doing("prep") => Ahead("prep") /\ Ahead("cleanup")
  BY <1>2, <1>5, <1>6 DEF Ahead, r
<1>9. Doing("pass") => ~Ahead("prep") /\ Ahead("cleanup")
  <2> SUFFICES ASSUME Doing("pass") PROVE ~Ahead("prep") /\ Ahead("cleanup")
    OBVIOUS
  <2>1. 1 \in DOMAIN todo /\ todo[1] = Does("pass", r)
    BY <1>2
  <2>2. Ahead("cleanup")
    BY <2>1, <1>6 DEF Ahead, r
  <2>3. ASSUME NEW i \in DOMAIN todo, todo[i] = Does("prep", r) PROVE FALSE
    <3>1. PICK j \in DOMAIN todo : i < j /\ todo[j] = Does("pass", r)
      BY <2>3, <1>5
    <3>2. j = 1
      BY <2>1, <3>1, <1>4, <1>7
    <3> QED
      BY <3>1, <3>2, <1>3
  <2> QED
    BY <2>2, <2>3 DEF Ahead, r
<1>10. Doing("cleanup") => ~Ahead("prep") /\ Ahead("cleanup")
  <2> SUFFICES ASSUME Doing("cleanup") PROVE ~Ahead("prep") /\ Ahead("cleanup")
    OBVIOUS
  <2>1. 1 \in DOMAIN todo /\ todo[1] = Does("cleanup", r)
    BY <1>2
  <2>2. ASSUME NEW i \in DOMAIN todo, todo[i] = Does("prep", r) PROVE FALSE
    <3>1. PICK j \in DOMAIN todo : i < j /\ todo[j] = Does("pass", r)
      BY <2>2, <1>5
    <3>2. PICK h \in DOMAIN todo : j < h /\ todo[h] = Does("cleanup", r)
      BY <3>1, <1>6
    <3>3. h = 1
      BY <2>1, <3>2, <1>4, <1>7
    <3> QED
      BY <3>1, <3>2, <3>3, <1>3
  <2> QED
    BY <2>1, <2>2 DEF Ahead, r
<1> QED
  BY <1>8, <1>9, <1>10

LEMMA PrepStep ==
  ASSUME RecordInvariant, Prep
  PROVE  RecordInvariant'
<1>1. todo # <<>> /\ Done /\ field' = field /\ Head(todo) = Does("prep", RecordOf)
  BY DEF Prep, Doing
<1>2. ~lent.there /\ blocks = 0
  BY DoingFirst DEF Prep, RecordInvariant, CopyOK
<1>3. /\ Filled \in Values /\ Block(held) \in {0, 1}
      /\ lent' = [there |-> TRUE, value |-> Filled, block |-> Block(held)]
      /\ blocks' = 1 + Block(held)
  BY <1>2, FilledType, BlockType DEF Prep, RecordInvariant
<1>4. Ahead("cleanup")' /\ ~Ahead("prep")'
  <2>1. Head(todo) # Does("cleanup", RecordOf)
    BY <1>1 DEF Does
  <2>2. Ahead("cleanup")
    BY DoingFirst DEF Prep
  <2> QED
    BY <1>1, <2>1, <2>2, DoneStep
<1>5. RecordTypeOK'
  <2>1. todo' \in Seq(Steps) /\ lent' \in Copies /\ blocks' \in Nat
    BY <1>1, <1>3, DoneStep DEF Copies
  <2> QED
    BY <2>1 DEF Prep, RecordInvariant, RecordTypeOK
<1>6. CopyOK'
  BY <1>3, <1>4 DEF Prep, CopyOK, Filled, Block
<1>7. ValueOK'
  BY DEF Prep, RecordInvariant, ValueOK
<1> QED
  BY <1>1, <1>5, <1>6, <1>7, DoneStep DEF RecordInvariant

\* Steps that leave the record and its copy alone.
LEMMA LeaveStep ==
  ASSUME RecordInvariant, Pass \/ Other
  PROVE  RecordInvariant'
<1>1. /\ todo # <<>> /\ Done /\ UNCHANGED <<field, init, held, given, lent, blocks>>
      /\ \A op \in {"prep", "cleanup"} : Head(todo) # Does(op, RecordOf)
  BY DEF Pass, Other, Doing, Does
<1>2. (Ahead("cleanup")' <=> Ahead("cleanup")) /\ (Ahead("prep")' <=> Ahead("prep"))
  BY <1>1, DoneStep
<1>3. RecordTypeOK'
  BY <1>1, DoneStep DEF RecordInvariant, RecordTypeOK
<1>4. CopyOK'
  BY <1>1, <1>2 DEF RecordInvariant, CopyOK, Filled, Block
<1>5. ValueOK'
  BY <1>1 DEF RecordInvariant, ValueOK
<1> QED
  BY <1>1, <1>3, <1>4, <1>5, DoneStep DEF RecordInvariant

LEMMA CleanupStep ==
  ASSUME RecordInvariant, Cleanup
  PROVE  RecordInvariant'
<1>1. todo # <<>> /\ Done /\ field' = field /\ Head(todo) = Does("cleanup", RecordOf)
  BY DEF Cleanup, Doing
<1>2. lent.there /\ lent.block = Block(held) /\ blocks = 1 + lent.block
  BY DoingFirst DEF Cleanup, RecordInvariant, CopyOK
<1>3. Released(PartsCleaned) = lent.block
  BY <1>2, EveryPartCleaned DEF Released, Block
<1>4. lent' = NoCopy /\ blocks' = 0
  BY <1>2, <1>3, BlockType DEF Cleanup
<1>5. ~Ahead("cleanup")'
  BY <1>1, DoneStep
<1>6. RecordTypeOK'
  <2>1. todo' \in Seq(Steps) /\ lent' \in Copies /\ blocks' \in Nat
    BY <1>1, <1>4, DoneStep DEF Copies
  <2> QED
    BY <2>1 DEF Cleanup, RecordInvariant, RecordTypeOK
<1>7. CopyOK'
  BY <1>4, <1>5 DEF CopyOK, NoCopy
<1>8. ValueOK'
  BY DEF Cleanup, RecordInvariant, ValueOK
<1> QED
  BY <1>1, <1>6, <1>7, <1>8, DoneStep DEF RecordInvariant

LEMMA RecordStep == RecordInvariant /\ [RecordsNext]_recordVars => RecordInvariant'
<1> SUFFICES ASSUME RecordInvariant, [RecordsNext]_recordVars PROVE RecordInvariant'
  OBVIOUS
<1>1. CASE UNCHANGED recordVars
  <2>1. RecordOf' = RecordOf
    BY <1>1, SameRecord DEF recordVars
  <2> QED
    BY <1>1, <2>1 DEF recordVars, RecordInvariant, RecordTypeOK, ValueOK, InOrder, CopyOK,
         Ahead, Filled, Block
<1> QED
  BY <1>1, FillStep, BeginStep, PrepStep, LeaveStep, CleanupStep DEF RecordsNext

\* The values, the order of the steps of tx() and the copy that is lent agree.
THEOREM RecordsInvariant == RecordsSpec => []RecordInvariant
BY InitRecords, RecordStep, PTL DEF RecordsSpec

\* TWS is passed what a field was given last, or the library's own value; no
\* suggested default and no earlier copy, and never a copy that is not there.
THEOREM ValuesSent == RecordsSpec => []SentAsGiven
<1>1. RecordInvariant => SentAsGiven
  BY DoingFirst, FilledType DEF SentAsGiven, RecordInvariant, CopyOK
<1> QED
  BY <1>1, RecordsInvariant, PTL

\* No block is forgotten or released twice, and no copy outlives the call,
\* however many blocks there may be.
THEOREM CopiesReleased == RecordsSpec => []NothingLeaks
<1>1. RecordInvariant => NothingLeaks
  BY NothingLent DEF NothingLeaks, RecordInvariant, CopyOK
<1> QED
  BY <1>1, RecordsInvariant, PTL
=============================================================================
