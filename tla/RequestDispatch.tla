--------------------------- MODULE RequestDispatch ---------------------------
(***************************************************************************)
(* The requests in the back-end's hands: how one gets to TWS, how reports  *)
(* of TWS find the requests they are meant for, and what a cancel message  *)
(* does to them. Requests are the back-end's own, or have been handed to   *)
(* it for good; Tier2 has the threads and the way back to the front-end.   *)
(*                                                                         *)
(* A step is one message's EXEC_COMMAND, one report, or one try of a       *)
(* postponed request.  A message that fails, or is through, is deleted in  *)
(* the same step.  TWS describes one usable scan (MarketScans has more).   *)
(***************************************************************************)
EXTENDS RequestKinds, Integers, Sequences, FiniteSets

CONSTANTS
  Issued,    \* the kinds of requests that are made
  Made,      \* those the program itself makes
  Ids,       \* ticker and order ids
  MaxActive, \* m_max_scanner_subscriptions
  MaxMsgs,   \* bound: messages in the back-end's hands
  MaxDrops   \* bound: how often the connection is lost

ASSUME DispatchAssumption ==
  /\ Issued \subseteq Kinds
  /\ Made \subseteq Issued
  /\ MaxActive \in Nat \ {0}
  /\ MaxMsgs \in Nat
  /\ MaxDrops \in Nat

VARIABLES
  msgs,    \* m_msgs_i_own: kind, id and state of each message
  link,    \* what calls of the TWS library find: "up" or "lost"
  drops    \* how often the connection was lost so far

vars == <<msgs, link, drops>>

\* The id a message of kind k can carry; 0 stands for none.
IdsFor(k) == IF IdOf[k] = "none" THEN {0} ELSE Ids

IsReady(m) == m.state = "READY_TO_RECEIVE_RESPONSE"

\* The places of the subscriptions that take up a slot.
Running == {i \in DOMAIN msgs : msgs[i].kind = "req_scanner_subscription" /\ IsReady(msgs[i])}

\* Faulty variant: a place is counted in what is left when its turn comes.
WithoutShifted(s, places) ==
  LET Earlier(p) == {q \in places : q < p}
      kept   == DOMAIN s \ {p + Cardinality(Earlier(p)) : p \in places}
      Nth(j) == CHOOSE i \in kept : Cardinality({h \in kept : h <= i}) = j
  IN  [j \in 1..Cardinality(kept) |-> s[Nth(j)]]

\* The messages of s, but for those at these places, in the order they were in.
Without(s, places) ==
  LET kept   == DOMAIN s \ places
      Nth(j) == CHOOSE i \in kept : Cardinality({h \in kept : h <= i}) = j
  IN  [j \in 1..Cardinality(kept) |-> s[Nth(j)]]

Init ==
  /\ msgs = <<>>
  /\ link = "up"
  /\ drops = 0

-----------------------------------------------------------------------------
(* Requests *)

\* COMMENCE_TRANSMIT, with a slot or without the need of one: the message is
\* where this takes it, or gone.
Transmitted(k, id) ==
  IF k \in Transmits /\ link = "lost" THEN <<>>
  ELSE <<[kind |-> k, id |-> id,
          state |-> IF k \in Transmits THEN "READY_TO_RECEIVE_RESPONSE"
                    ELSE "COMMENCE_TRANSMIT"]>>

\* A request that cancels nothing: ids are given, or fresh.
IssueRequest(k, id) ==
  /\ k \notin Cancels
  /\ Len(msgs) < MaxMsgs
  /\ msgs' = msgs \o
       IF k = "req_scanner_subscription" /\ Cardinality(Running) >= MaxActive
       THEN <<[kind |-> k, id |-> id, state |-> "WAIT_FOR_TRANSMIT"]>>
       ELSE Transmitted(k, id)
  /\ UNCHANGED <<link, drops>>

\* The message of kind k and this id is about m, whatever the state of m.
IsAbout(k, id, m) == k \in CancelledBy(m.kind) /\ (k \in CancelsAll \/ m.id = id)

\* Faulty variant: only requests that were transmitted are cancelled.
IssueCancelReady(k, id) ==
  /\ k \in Cancels
  /\ Len(msgs) < MaxMsgs
  /\ LET about == {i \in DOMAIN msgs : IsReady(msgs[i]) /\ IsAbout(k, id, msgs[i])}
     IN  msgs' = IF about = {} THEN msgs \o Transmitted(k, id) ELSE Without(msgs, about)
  /\ UNCHANGED <<link, drops>>

\* A cancel message: every request it is about is aborted. That makes its own
\* command fail, after it was transmitted, and it is deleted. If it is about
\* none it stays, in spite of the DESTRUCTION it went through.
IssueCancel(k, id) ==
  /\ k \in Cancels
  /\ Len(msgs) < MaxMsgs
  /\ LET about == {i \in DOMAIN msgs : IsAbout(k, id, msgs[i])}
     IN  msgs' = IF about = {} THEN msgs \o Transmitted(k, id) ELSE Without(msgs, about)
  /\ UNCHANGED <<link, drops>>

\* pulse_pending_issues() tries the postponed subscription at i.
Retry(i) ==
  /\ msgs[i].state = "WAIT_FOR_TRANSMIT"
  /\ Cardinality(Running) < MaxActive
  /\ msgs' = SubSeq(msgs, 1, i - 1) \o Transmitted(msgs[i].kind, msgs[i].id)
               \o SubSeq(msgs, i + 1, Len(msgs))
  /\ UNCHANGED <<link, drops>>

-----------------------------------------------------------------------------
(* Reports *)

\* What a report can be, as far as the requests tell: "empty" is a scan without
\* rows, "failed" and "no items" are the two errors that end a subscription.
Details(r) ==
  CASE r = "scanner_data_start" -> {"empty", "rows"}
    [] r = "error"              -> {"failed", "no items", "other"}
    [] OTHER                    -> {"any"}

\* ib_msg_req_scanner_subscription::process_response_message()
EndsScan(m, r, id, what) ==
  /\ m.id = id
  /\ \/ r = "scanner_data_end"
     \/ r = "scanner_data_start" /\ what = "empty"
     \/ r = "error" /\ what \in {"failed", "no items"}

\* The request has the report processed, and that ends it.
IsEnded(m, r, id, what) ==
  /\ IsReady(m)
  /\ r \in ListensTo(m.kind)
  /\ m.kind \in Answered
  /\ m.kind = "req_scanner_subscription" => EndsScan(m, r, id, what)

\* The subscriptions that n scanner-parameters requests make of their answer:
\* one each, transmitted while there are slots, postponed from then on. A
\* transmission that fails leaves its slot to the next.
Subscribed(n, free) ==
  IF Cardinality(Running) >= MaxActive \/ link = "up"
  THEN [i \in 1..n |->
          [kind |-> "req_scanner_subscription", id |-> free[i],
           state |-> IF Cardinality(Running) + i > MaxActive THEN "WAIT_FOR_TRANSMIT"
                     ELSE "READY_TO_RECEIVE_RESPONSE"]]
  ELSE <<>>

\* scan_queue_and_process(): all requests the report is meant for have it. The
\* list of them is made first, so that what they add is not looked at.
Receive(r, id, what) ==
  /\ LET ended == {i \in DOMAIN msgs : IsEnded(msgs[i], r, id, what)}
         n     == IF r = "scanner_parameters" THEN Cardinality(ended) ELSE 0
         used  == {msgs[i].id : i \in DOMAIN msgs}
     IN  \E free \in [1..n -> Ids \ used] :
           /\ \A i, j \in 1..n : i # j => free[i] # free[j]
           /\ msgs' = Without(msgs, ended) \o Subscribed(n, free)
  /\ UNCHANGED <<link, drops>>

Lose ==
  /\ link = "up" /\ drops < MaxDrops
  /\ link' = "lost"
  /\ drops' = drops + 1
  /\ UNCHANGED msgs

\* A new connection; the requests of the old one are kept.
Connect ==
  /\ link = "lost"
  /\ link' = "up"
  /\ UNCHANGED <<msgs, drops>>

Issue == \E k \in Issued : \E id \in IdsFor(k) : IssueRequest(k, id) \/ IssueCancel(k, id)
ReceiveAny ==
  \E r \in Reported : \E what \in Details(r) :
    \E id \in IF ResponseIdOf[r] = "none" THEN {0} ELSE Ids : Receive(r, id, what)
RetryAny == \E i \in DOMAIN msgs : Retry(i)

Next == Issue \/ ReceiveAny \/ RetryAny \/ Lose \/ Connect

Spec == Init /\ [][Next]_vars

-----------------------------------------------------------------------------
(* Safety *)

\* A cancel message ends every request it is about, those that were never
\* transmitted and those of a lost connection included, and adds nothing that
\* could be cancelled in turn.
CancelLeavesNone ==
  [][\A k \in Issued \cap Cancels : \A id \in IdsFor(k) :
       IssueCancel(k, id) => \A i \in DOMAIN msgs' : ~IsAbout(k, id, msgs'[i])]_vars

\* How many of the messages of s are just like m.
HowMany(s, m) == Cardinality({i \in DOMAIN s : s[i] = m})

\* What may take m out of the back-end's hands, or into another state: a cancel
\* message about it; a report it listens to, with its own id; if it was postponed,
\* its own try.
Cancelled(m) == \E k \in Issued : \E id \in IdsFor(k) : IsAbout(k, id, m) /\ IssueCancel(k, id)
Answer(m) ==
  \E r \in Reported \cap ListensTo(m.kind) : \E what \in Details(r) : Receive(r, m.id, what)
Tried(m) == \E i \in DOMAIN msgs : msgs[i] = m /\ Retry(i)

\* No subscription goes by mistake, whatever else is issued, ended, aborted, tried
\* or lost on that step, at the same time as others or beside others that are just
\* like it: there are fewer of a kind only if something was meant for them.
OthersKeepRunning ==
  [][\A i \in DOMAIN msgs :
       msgs[i].kind = "req_scanner_subscription"
       /\ HowMany(msgs', msgs[i]) < HowMany(msgs, msgs[i])
         => \/ Cancelled(msgs[i])
            \/ IF IsReady(msgs[i]) THEN Answer(msgs[i]) ELSE Tried(msgs[i])]_vars

\* Every request the program itself makes is transmitted, postponed or gone by
\* the time its command was executed; none is left half-way, whatever other
\* kinds are in use.
NoneStuck ==
  \A i \in DOMAIN msgs : msgs[i].kind \in Made => msgs[i].state # "COMMENCE_TRANSMIT"
=============================================================================
