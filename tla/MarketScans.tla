----------------------------- MODULE MarketScans -----------------------------
(***************************************************************************)
(* How ib_tws_manager gets its market scans going ("priming the pump").    *)
(* TWS fails silently when it is asked for scanner data while it has no    *)
(* data farm, so the manager lists the farms TWS reports, and asks for the *)
(* scanner parameters once it has a real-time and a historical one. The    *)
(* answer makes it request one subscription per scan.                      *)
(*                                                                         *)
(* All of it happens in the callbacks of one thread, one report of TWS per *)
(* step.  The manager outlives the connection: its lists and its requests  *)
(* are kept when the connection breaks, the flag is set again.             *)
(* What becomes of a subscription after it was requested is ScannerLimit.  *)
(***************************************************************************)
EXTENDS Integers, SequencesExt

CONSTANTS
  Farms,      \* names of data farms
  Scans,      \* the usable pairs of location and scan type TWS describes
  MaxListed,  \* bound: the length of a list of farms
  MaxDrops,   \* bound: how often the connection is lost
  MaxBad      \* bound: answers that are not XML

ASSUME ScansAssumption ==
  /\ MaxListed \in Nat
  /\ MaxDrops \in Nat
  /\ MaxBad \in Nat

\* The two sorts of data a farm serves.
Sorts == {"rt", "hist"}

Links == {"down", "up", "lost"}

VARIABLES
  link,    \* "lost": broken, while the thread still works off what it has read
  drops,   \* how often the connection was lost so far
  up,      \* the farms that are connected, going by TWS's reports on this link
  listed,  \* m_rt_providers and m_hist_providers
  prime,   \* m_still_need_to_prime_the_pump
  waiting, \* the scanner-parameters requests that wait for their response
  asked,   \* how often TWS was asked for the parameters on this link
  owed,    \* answers TWS has not sent yet
  subs,    \* how often each scan was subscribed to on this link
  bad      \* how many answers could not be parsed so far

vars == <<link, drops, up, listed, prime, waiting, asked, owed, subs, bad>>

reports == <<up, listed>>
conn    == <<link, drops>>
asks    == <<prime, waiting, asked, owed>>

NoFarms == [s \in Sorts |-> {}]

Init ==
  /\ link = "down"
  /\ drops = 0
  /\ up = NoFarms
  /\ listed = [s \in Sorts |-> <<>>]
  /\ prime = TRUE
  /\ waiting = 0
  /\ asked = 0
  /\ owed = 0
  /\ subs = [c \in Scans |-> 0]
  /\ bad = 0

-----------------------------------------------------------------------------
(* Asking for the parameters *)

\* Faulty variant: the flag stays up.
AskAgain ==
  /\ prime' = prime
  /\ \/ /\ link = "up"
        /\ waiting' = waiting + 1
        /\ asked' = asked + 1
        /\ owed' = owed + 1
     \/ UNCHANGED <<waiting, asked, owed>>

\* A new request, taken through EXEC_COMMAND. The call of the TWS library
\* succeeds, and the request waits for its response; or it fails, and the
\* request is deleted. The flag is cleared in either case.
Ask ==
  /\ prime' = FALSE
  /\ \/ /\ link = "up"
        /\ waiting' = waiting + 1
        /\ asked' = asked + 1
        /\ owed' = owed + 1
     \/ /\ link = "lost"
        /\ UNCHANGED <<waiting, asked, owed>>

\* The faulty variant looks at the lists as they were before the report.
PrimeTooEarly ==
  IF prime /\ \A s \in Sorts : listed[s] # <<>> THEN Ask ELSE UNCHANGED asks

\* The end of every ERR_MSG handler: both lists have an entry for the first
\* time since the manager connected.
PrimeThePump ==
  IF prime /\ \A s \in Sorts : listed'[s] # <<>> THEN Ask ELSE UNCHANGED asks

-----------------------------------------------------------------------------
(* ERR_MSG *)

Connected == link \in {"up", "lost"}

\* Faulty variant: a report is ignored once the pump is primed.
FarmUpIfNeeded(s, f) ==
  /\ Connected
  /\ Len(listed[s]) < MaxListed
  /\ up' = [up EXCEPT ![s] = @ \cup {f}]
  /\ listed' = IF prime THEN [listed EXCEPT ![s] = Append(@, f)] ELSE listed
  /\ PrimeThePump
  /\ UNCHANGED <<conn, subs, bad>>

\* "Market data farm connection is OK": the name after the last colon is
\* appended, whether it is in the list or not.
FarmUp(s, f) ==
  /\ Connected
  /\ Len(listed[s]) < MaxListed
  /\ up' = [up EXCEPT ![s] = @ \cup {f}]
  /\ listed' = [listed EXCEPT ![s] = Append(@, f)]
  /\ PrimeThePump
  /\ UNCHANGED <<conn, subs, bad>>

\* The list without the first entry of that name.
WithoutFirst(q, f) ==
  IF \E i \in DOMAIN q : q[i] = f
  THEN RemoveAt(q, CHOOSE i \in DOMAIN q :
                     q[i] = f /\ \A j \in 1..(i - 1) : q[j] # f)
  ELSE q

\* "... is broken" or "... is inactive"; both do the same in a release build.
FarmDown(s, f) ==
  /\ Connected
  /\ up' = [up EXCEPT ![s] = @ \ {f}]
  /\ listed' = [listed EXCEPT ![s] = WithoutFirst(@, f)]
  /\ PrimeThePump
  /\ UNCHANGED <<conn, subs, bad>>

\* Every other error code, and a text without a colon: the lists are left
\* alone, and looked at all the same.
OtherError ==
  /\ Connected
  /\ UNCHANGED reports
  /\ PrimeThePump
  /\ UNCHANGED <<conn, subs, bad>>

-----------------------------------------------------------------------------
(* SCANNER_PARAMETERS *)

\* The response is meant for every request that waits, and each of them has
\* it processed: one new subscription request per scan, each time.
Answer ==
  /\ Connected
  /\ owed > 0
  /\ owed' = owed - 1
  /\ subs' = [c \in Scans |-> subs[c] + waiting]
  /\ waiting' = 0
  /\ UNCHANGED <<conn, reports, prime, asked, bad>>

\* The same, with a text libxml cannot parse.
AnswerBad ==
  /\ Connected
  /\ owed > 0
  /\ bad < MaxBad
  /\ owed' = owed - 1
  /\ bad' = bad + 1
  /\ waiting' = 0
  /\ UNCHANGED <<conn, reports, prime, asked, subs>>

-----------------------------------------------------------------------------
(* The connection *)

\* The connection breaks: calls fail from now on.
Lose ==
  /\ link = "up"
  /\ drops < MaxDrops
  /\ link' = "lost"
  /\ drops' = drops + 1
  /\ UNCHANGED <<reports, asks, subs, bad>>

\* The worker leaves its loop; what TWS said and owed goes with the link.
Disconnect ==
  /\ link = "lost"
  /\ link' = "down"
  /\ up' = NoFarms
  /\ asked' = 0
  /\ owed' = 0
  /\ subs' = [c \in Scans |-> 0]
  /\ UNCHANGED <<drops, listed, prime, waiting, bad>>

\* Faulty variant: the flag is not set again.
ConnectUnprimed ==
  /\ link = "down"
  /\ link' = "up"
  /\ UNCHANGED <<drops, reports, asks, subs, bad>>

\* init_tws_api(), whether TWS can be reached or not.
Connect ==
  /\ link = "down"
  /\ link' \in {"up", "down"}
  /\ prime' = TRUE
  /\ UNCHANGED <<drops, reports, waiting, asked, owed, subs, bad>>

Report == \/ \E s \in Sorts, f \in Farms : FarmUp(s, f) \/ FarmDown(s, f)
          \/ OtherError
Next == Report \/ Answer \/ AnswerBad \/ Lose \/ Disconnect \/ Connect

Spec == Init /\ [][Next]_vars

-----------------------------------------------------------------------------
(* Safety *)

TypeOK ==
  /\ link \in Links
  /\ drops \in 0..MaxDrops
  /\ up \in [Sorts -> SUBSET Farms]
  /\ listed \in [Sorts -> Seq(Farms)]
  /\ prime \in BOOLEAN
  /\ waiting \in Nat
  /\ asked \in Nat
  /\ owed \in Nat
  /\ subs \in [Scans -> Nat]
  /\ bad \in 0..MaxBad

\* A farm that TWS reports as connected is in the manager's list, however many
\* reports about farms came in between and on however many connections.
UpIsListed == \A s \in Sorts : up[s] \subseteq Range(listed[s])

\* As soon as TWS has a farm of either sort the parameters were asked for on
\* this connection, or the call failed because the connection is gone.
PumpIsPrimed ==
  (\A s \in Sorts : up[s] # {}) => ~prime /\ (asked > 0 \/ link = "lost")

\* TWS is asked at most once on a connection.
AskedOnce == asked <= 1

\* Requests that wait in vain: one at most for every connection that was lost.
\* A response completes all that wait.
WaitingBound == waiting <= owed + drops

\* Each request that waits makes the manager subscribe to every scan: once on
\* the first connection, and once more for every connection lost before.
SubscriptionBound == \A c \in Scans : subs[c] <= 1 + drops

-----------------------------------------------------------------------------
(* Liveness *)

\* TWS answers what it is asked.
FairSpec == Spec /\ WF_vars(Answer \/ AnswerBad)

\* With a farm of either sort, every scan is subscribed to on every connection,
\* unless that connection breaks or its answer cannot be parsed: there is no
\* second attempt. Once TWS has answered it is done.
ScansGetGoing ==
  \A n \in 0..MaxBad :
    (link = "up" /\ (\A s \in Sorts : up[s] # {}) /\ (asked = 0 \/ owed > 0) /\ bad = n)
      ~> (link # "up" \/ bad # n \/ \A c \in Scans : subs[c] > 0)

=============================================================================
