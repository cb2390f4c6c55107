----------------------------- MODULE ScannerLimit -----------------------------
(***************************************************************************)
(* Market-scanner subscriptions of the back-end thread.  TWS runs at most  *)
(* ten of them at a time, so ib_tws_scanner_subscription_limitation holds  *)
(* requests back until a slot is free, and pulse_pending_issues() tries    *)
(* the postponed ones again on every round of the loop.  A request that    *)
(* ends gives up its slot and has TWS told so by a cancel message.         *)
(*                                                                         *)
(* All of it happens in one thread; what it meets is TWS, which reports    *)
(* when it likes, and a connection that may be lost at any moment.  A      *)
(* cancel message for a known request is created, transmitted and deleted  *)
(* within the step that ends the request.                                  *)
(***************************************************************************)
EXTENDS Integers, SequencesExt

CONSTANTS
  Requests,   \* addresses of ib_msg_req_scanner_subscription objects
  MaxActive,  \* m_max_scanner_subscriptions
  MaxId,      \* the largest id: 2^32 - 1
  Announced,  \* ids TWS may announce as NEXT_VALID_ID
  MaxDrops    \* bound: how often the TWS connection is lost

ASSUME ScannerAssumption ==
  /\ MaxActive \in Nat \ {0}
  /\ MaxId \in Nat /\ MaxId > 2
  /\ Announced \subseteq {n \in Nat : 0 < n /\ n < MaxId - 2}
  /\ MaxDrops \in Nat

\* The states of a request between two steps; "none" is unallocated memory.
States == {"none", "WAIT_FOR_TRANSMIT", "READY_TO_RECEIVE_RESPONSE", "DESTRUCTION"}

Phases == {"pulse", "tickle", "event", "exec", "top", "down"}

VARIABLES
  state,     \* m_now_state
  ticker,    \* m_ticker_id
  owned,     \* the scanner requests of m_msgs_i_own, in its order
  active,    \* m_active_scanner_subscriptions
  prevId,    \* m_prev_id of the manager of order and ticker ids
  wire,      \* tickers subscribed on this connection, and not cancelled
  orphans,   \* cancel messages that stay in m_msgs_i_own for ever
  phase,     \* where the back-end thread is in its loop
  todo,      \* the requests that are still to be tried in this phase
  link,      \* what calls of the TWS library find: "up" or "lost"
  drops      \* how often the connection was lost so far

vars == <<state, ticker, owned, active, prevId, wire, orphans, phase, todo, link, drops>>

Parked == {r \in Requests : state[r] = "WAIT_FOR_TRANSMIT"}
Ready  == {r \in Requests : state[r] = "READY_TO_RECEIVE_RESPONSE"}

\* Faulty variant: off by one.
FullLate == Len(active) > MaxActive

Full == Len(active) >= MaxActive

-----------------------------------------------------------------------------
(* Ids *)

\* obtain_unique_id(): unsigned and wrapping.
NextId == IF prevId = MaxId THEN 0 ELSE prevId + 1

\* Two start_id - 1 in a row turn the default start 1 into -1, so that the
\* first id handed out is 0.
FirstPrevId == MaxId

\* The id a cancel message for ticker t carries: 0 means "none given" to the
\* constructor, which then obtains an id.
CancelId(t) == IF t = 0 THEN NextId ELSE t

Init ==
  /\ state = [r \in Requests |-> "none"]
  /\ ticker = [r \in Requests |-> 0]
  /\ owned = <<>>
  /\ active = <<>>
  /\ prevId = FirstPrevId
  /\ wire = {}
  /\ orphans = 0
  /\ phase = "down"
  /\ todo = <<>>
  /\ link = "lost"
  /\ drops = 0

-----------------------------------------------------------------------------
(* The limit *)

\* The cancel message for ticker t, from its constructor to its last state.  It
\* matches the request that ends; that makes its command fail after it was
\* transmitted, and it is deleted on the spot.  One that matches nothing is
\* still transmitted, and stays to receive a response.
SendCancel(t) ==
  /\ prevId' = IF CancelId(t) = t THEN prevId ELSE CancelId(t)
  /\ wire' = IF link = "up" THEN wire \ {CancelId(t)} ELSE wire
  /\ orphans' = IF link = "up" /\ CancelId(t) # t THEN orphans + 1 ELSE orphans

\* A request that holds a slot ends: the first slot of its ticker is erased,
\* TWS is told, and the request is marked for destruction.
GiveUpSlot(r) ==
  /\ state' = [state EXCEPT ![r] = "DESTRUCTION"]
  /\ SendCancel(ticker[r])
  /\ \E i \in DOMAIN active :
       /\ ticker[active[i]] = ticker[r]
       /\ \A j \in 1..(i - 1) : ticker[active[j]] # ticker[r]
       /\ active' = RemoveAt(active, i)

\* COMMENCE_TRANSMIT with all slots taken: the request stays where it is.
HoldBack(r) ==
  /\ Full
  /\ UNCHANGED <<state, ticker, active, prevId, wire, orphans>>

\* COMMENCE_TRANSMIT with a slot free, and a TWS call that succeeds.
Transmit(r) ==
  /\ ~Full
  /\ link = "up"
  /\ active' = Append(active, r)
  /\ state' = [state EXCEPT ![r] = "READY_TO_RECEIVE_RESPONSE"]
  /\ wire' = wire \cup {ticker[r]}
  /\ UNCHANGED <<ticker, prevId, orphans>>

\* Faulty variant: a failed request keeps the slot it took.
RefuseHoldingSlot(r) ==
  /\ ~Full
  /\ active' = Append(active, r)
  /\ state' = [state EXCEPT ![r] = "DESTRUCTION"]
  /\ SendCancel(ticker[r])
  /\ UNCHANGED ticker

\* COMMENCE_TRANSMIT with a slot free, and a TWS call that fails: the slot it
\* took is erased again by FAILED, which sends a cancel message as well.
Refuse(r) ==
  /\ ~Full
  /\ state' = [state EXCEPT ![r] = "DESTRUCTION"]
  /\ SendCancel(ticker[r])
  /\ UNCHANGED <<ticker, active>>

\* The request at hand is tried, if it is one that waits.
TryNext ==
  /\ phase \in {"exec", "tickle"}
  /\ todo # <<>>
  /\ state[Head(todo)] = "WAIT_FOR_TRANSMIT"
  /\ HoldBack(Head(todo)) \/ Transmit(Head(todo)) \/ Refuse(Head(todo))
  /\ todo' = Tail(todo)
  /\ UNCHANGED <<owned, phase, link, drops>>

SkipNext ==
  /\ phase \in {"exec", "tickle"}
  /\ todo # <<>>
  /\ state[Head(todo)] # "WAIT_FOR_TRANSMIT"
  /\ todo' = Tail(todo)
  /\ UNCHANGED <<state, ticker, owned, active, prevId, wire, orphans, phase, link, drops>>

-----------------------------------------------------------------------------
(* The loop of the back-end thread *)

\* pulse_marked_messages() deletes what is marked for destruction.
Delete(i) ==
  /\ phase \in {"pulse", "top"}
  /\ i \in DOMAIN owned
  /\ state[owned[i]] = "DESTRUCTION"
  /\ state' = [state EXCEPT ![owned[i]] = "none"]
  /\ ticker' = [ticker EXCEPT ![owned[i]] = 0]
  /\ owned' = RemoveAt(owned, i)
  /\ UNCHANGED <<active, prevId, wire, orphans, phase, todo, link, drops>>

PulseDone == \A i \in DOMAIN owned : state[owned[i]] # "DESTRUCTION"

\* Faulty variants: no tickling at all; the scan ends one too early; it begins
\* at the request after the one that was served last.
TickleNothing ==
  /\ phase = "pulse" /\ PulseDone
  /\ phase' = "tickle"
  /\ UNCHANGED <<state, ticker, owned, active, prevId, wire, orphans, todo, link, drops>>
TickleButLast ==
  /\ phase = "pulse" /\ PulseDone
  /\ phase' = "tickle"
  /\ todo' = SubSeq(owned, 1, Len(owned) - 1)
  /\ UNCHANGED <<state, ticker, owned, active, prevId, wire, orphans, link, drops>>
TickleRoundRobin ==
  /\ phase = "pulse" /\ PulseDone
  /\ phase' = "tickle"
  /\ \E i \in 0..Len(owned) :
       todo' = SubSeq(owned, i + 1, Len(owned)) \o SubSeq(owned, 1, i)
  /\ UNCHANGED <<state, ticker, owned, active, prevId, wire, orphans, link, drops>>

\* The scan of pulse_pending_issues() begins at index 0 every time: state()
\* never returns COMMENCE_TRANSMIT, so m_last_tickled_queue_position stays 0.
StartTickle ==
  /\ phase = "pulse" /\ PulseDone
  /\ phase' = "tickle"
  /\ todo' = owned
  /\ UNCHANGED <<state, ticker, owned, active, prevId, wire, orphans, link, drops>>

\* select() found TWS silent, or readable.
TickleDone ==
  /\ phase = "tickle" /\ todo = <<>>
  /\ phase' \in {"pulse", "event"}
  /\ UNCHANGED <<state, ticker, owned, active, prevId, wire, orphans, todo, link, drops>>

ExecDone ==
  /\ phase = "exec" /\ todo = <<>>
  /\ phase' = "event"
  /\ UNCHANGED <<state, ticker, owned, active, prevId, wire, orphans, todo, link, drops>>

\* The worker's own pulse; a TWS message that is in the read buffer already is
\* handled without another turn of io_receive().
TopDone ==
  /\ phase = "top" /\ PulseDone
  /\ phase' \in {"pulse", "event"}
  /\ UNCHANGED <<state, ticker, owned, active, prevId, wire, orphans, todo, link, drops>>

-----------------------------------------------------------------------------
(* TWS callbacks *)

\* Bound: the ids do not come round.
IdsLeft == prevId = MaxId \/ prevId < MaxId - 2

\* The answer to the scanner-parameters request: one new request for each scan
\* it names; EXEC_COMMAND takes each to WAIT_FOR_TRANSMIT, and tries it.
Subscribe(r) ==
  /\ phase = "event"
  /\ IdsLeft
  /\ state[r] = "none"
  /\ state' = [state EXCEPT ![r] = "WAIT_FOR_TRANSMIT"]
  /\ ticker' = [ticker EXCEPT ![r] = NextId]
  /\ prevId' = NextId
  /\ owned' = Append(owned, r)
  /\ todo' = <<r>>
  /\ phase' = "exec"
  /\ UNCHANGED <<active, wire, orphans, link, drops>>

\* The end of a scan, a scan without rows, or an error report for it: the
\* request whose ticker it carries is completed or aborted.
ReportEnd(r) ==
  /\ phase = "event"
  /\ r \in Ready /\ ticker[r] \in wire
  /\ GiveUpSlot(r)
  /\ phase' = "top"
  /\ UNCHANGED <<ticker, owned, todo, link, drops>>

\* Faulty variant: the id is set, up or down.
AnnounceReset(n) ==
  /\ phase = "event" /\ link = "up"
  /\ prevId' = n
  /\ phase' = "top"
  /\ UNCHANGED <<state, ticker, owned, active, wire, orphans, todo, link, drops>>

\* NEXT_VALID_ID: update_unique_id() compares unsigned values.
Announce(n) ==
  /\ phase = "event" /\ link = "up"
  /\ prevId' = IF prevId < n THEN n ELSE prevId
  /\ phase' = "top"
  /\ UNCHANGED <<state, ticker, owned, active, wire, orphans, todo, link, drops>>

\* Every other report, those for a ticker without a request included.
OtherReport ==
  /\ phase = "event"
  /\ phase' = "top"
  /\ UNCHANGED <<state, ticker, owned, active, prevId, wire, orphans, todo, link, drops>>

-----------------------------------------------------------------------------
(* The connection *)

\* The connection breaks: calls fail from now on.
Lose ==
  /\ link = "up"
  /\ drops < MaxDrops
  /\ link' = "lost"
  /\ drops' = drops + 1
  /\ UNCHANGED <<state, ticker, owned, active, prevId, wire, orphans, phase, todo>>

\* The worker notices, disconnects and waits. It does nothing about the
\* requests that were transmitted on the connection, nor about their slots.
Disconnect ==
  /\ phase \in {"event", "top"}
  /\ link = "lost"
  /\ phase' = "down"
  /\ wire' = {}
  /\ UNCHANGED <<state, ticker, owned, active, prevId, orphans, todo, link, drops>>

Connect ==
  /\ phase = "down"
  /\ phase' = "pulse"
  /\ link' = "up"
  /\ UNCHANGED <<state, ticker, owned, active, prevId, wire, orphans, todo, drops>>

Loop == TryNext \/ SkipNext \/ (\E i \in DOMAIN owned : Delete(i)) \/ StartTickle
        \/ TickleDone \/ ExecDone \/ TopDone \/ Disconnect \/ Connect
Callback == (\E r \in Requests : Subscribe(r) \/ ReportEnd(r))
            \/ (\E n \in Announced : Announce(n)) \/ OtherReport

Next == Loop \/ Callback \/ Lose

Spec == Init /\ [][Next]_vars

-----------------------------------------------------------------------------
(* Safety *)

TypeOK ==
  /\ state \in [Requests -> States]
  /\ ticker \in [Requests -> 0..MaxId]
  /\ owned \in Seq(Requests)
  /\ active \in Seq(Requests)
  /\ prevId \in 0..MaxId
  /\ wire \subseteq 0..MaxId
  /\ orphans \in Nat
  /\ phase \in Phases
  /\ todo \in Seq(Requests)
  /\ link \in {"up", "lost"}
  /\ drops \in 0..MaxDrops

\* The limiter keeps bare pointers to requests, for as long as they hold a
\* slot: every slot is a transmitted request, in one slot only, and every
\* transmitted request has its slot. No pointer outlives its request.
SlotsAreTransmitted == IsInjective(active) /\ Range(active) = Ready

\* tws_instance.cpp: "protect against overrunning the TWS-imposed maximum
\* number of subscriptions". The subscription with ticker 0 is exempt, see
\* WithinTwsLimit.
WithinTwsLimitButZero == Cardinality(wire \ {0}) <= MaxActive

\* "make sure we cancel any possibly running subscription": on a live
\* connection nothing but subscription 0 runs at TWS without holding a slot.
RunningHoldsSlot ==
  link = "up" => \A t \in wire \ {0} : \E i \in DOMAIN active : ticker[active[i]] = t

\* app_manager.h: "all ids we send to/use with IB/TWS are unique", whatever TWS
\* announces meanwhile: a report and a cancel message mean one request.
TickersUnique ==
  \A q, r \in Requests :
    q # r /\ state[q] # "none" /\ state[r] # "none" => ticker[q] # ticker[r]

\* "ensure that scheduled / postponed requests get serviced": when the scan is
\* through, a request is postponed only because every slot is taken.
NoIdleSlot == phase = "tickle" /\ todo = <<>> /\ Parked # {} => Full

\* At most one cancel message stays behind for ever.
OneOrphan == orphans <= 1

\* The postponed requests are transmitted in the order they were made in.
OldestFirst ==
  [][\A q, r \in Requests :
       phase = "tickle" /\ {q, r} \subseteq Parked /\ r \in Ready'
         => ticker[r] <= ticker[q]]_vars

-----------------------------------------------------------------------------
(* What it comes to *)

Tickers(rs) == {ticker[r] : r \in rs}

Waiting  == Tickers(Parked)
Fresh    == Tickers(IF phase = "exec" THEN {todo[i] : i \in DOMAIN todo} ELSE {})
Running  == Tickers({r \in Ready : ticker[r] \in wire})
Leftover == Tickers({r \in Ready : ticker[r] \notin wire})

\* From outside there are subscriptions that wait, run and end: one that is made
\* is tried at once, after that the oldest starts first, never without a free
\* slot; what ran on a lost connection keeps its slots, and nothing else does.
Service == INSTANCE SubscriptionService WITH
  waiting <- Waiting, fresh <- Fresh, running <- Running, stranded <- Leftover,
  nextId <- NextId
ImplementsService == Service!Spec

\* A subscription that is over, or whose connection is, never waits or runs
\* again, and no other one comes to have its id.
OverIsOver ==
  [][\A id \in 0..MaxId :
       id < NextId /\ id \notin Waiting \cup Running => id \notin (Waiting \cup Running)']_vars

-----------------------------------------------------------------------------
(* Liveness *)

\* The thread keeps running, TWS ends every scan it runs, neither fills every
\* gap of the loop nor is silent for ever, and the read buffer runs empty.
FairSpec ==
  /\ Spec
  /\ WF_vars(Loop \/ OtherReport)
  /\ SF_vars(TickleDone /\ phase' = "event")
  /\ SF_vars(TopDone /\ phase' = "pulse")
  /\ \A r \in Requests : SF_vars(ReportEnd(r))

\* The connection on which the request in the slot was transmitted is gone: no
\* report will come for it.
Stranded(i) == ticker[active[i]] \notin wire

\* A postponed request is transmitted, or ended, in the end, unless every slot
\* is held by a request of a connection that was lost.
PostponedServed ==
  \A r \in Requests :
    r \in Parked ~> r \notin Parked \/ (Full /\ \A i \in DOMAIN active : Stranded(i))

\* tws_instance.cpp: "protect against overrunning the TWS-imposed maximum
\* number of subscriptions".
WithinTwsLimit == Cardinality(wire) <= MaxActive
=============================================================================
