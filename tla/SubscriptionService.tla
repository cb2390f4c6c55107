-------------------------- MODULE SubscriptionService --------------------------
(***************************************************************************)
(* What the manager promises for scanner subscriptions, seen from outside: *)
(* which subscription waits, which runs, and which holds its slot for      *)
(* nothing, each known by its ticker.  There are no objects, lists, scans  *)
(* or cancel messages here.                                                *)
(*                                                                         *)
(* A new subscription is tried once at once, and may so pass the older     *)
(* ones that wait; after that it starts in its turn.  None starts without  *)
(* a free slot.  What ran on a connection that is gone keeps its slots for *)
(* good.                                                                   *)
(***************************************************************************)
EXTENDS Integers, FiniteSets

CONSTANT MaxActive  \* how many subscriptions TWS may run

VARIABLES
  waiting,   \* subscriptions that are postponed
  fresh,     \* the one that is just being made, if there is one
  running,   \* those TWS runs
  stranded,  \* those that ran on a connection which is closed
  nextId     \* the ticker of the next one

vars == <<waiting, fresh, running, stranded, nextId>>

Init ==
  /\ waiting = {} /\ fresh = {} /\ running = {} /\ stranded = {}
  /\ nextId = 0

SlotFree == Cardinality(running \cup stranded) < MaxActive

\* A new subscription has its first try; otherwise it is the oldest one's turn.
HasTurn(id) ==
  /\ id \in waiting
  /\ fresh = {id} \/ (fresh = {} /\ \A other \in waiting : id <= other)

\* A cancel message may use up an id as well.
Spend == nextId' \in Nat /\ nextId' >= nextId

Ask ==
  /\ fresh = {}
  /\ waiting' = waiting \cup {nextId}
  /\ fresh' = {nextId}
  /\ nextId' = nextId + 1
  /\ UNCHANGED <<running, stranded>>

\* Postponed at the first try, because all slots are taken.
Postpone ==
  /\ fresh # {} /\ ~SlotFree
  /\ fresh' = {}
  /\ UNCHANGED <<waiting, running, stranded, nextId>>

Start(id) ==
  /\ HasTurn(id) /\ SlotFree
  /\ waiting' = waiting \ {id}
  /\ fresh' = {}
  /\ running' = running \cup {id}
  /\ UNCHANGED <<stranded, nextId>>

\* TWS cannot be asked: the subscription ends and leaves its slot free.
Refuse(id) ==
  /\ HasTurn(id) /\ SlotFree
  /\ waiting' = waiting \ {id}
  /\ fresh' = {}
  /\ Spend
  /\ UNCHANGED <<running, stranded>>

\* TWS reports the end of a subscription that it runs, or an error of it.
End(id) ==
  /\ id \in running
  /\ running' = running \ {id}
  /\ Spend
  /\ UNCHANGED <<waiting, fresh, stranded>>

\* TWS announces the next valid id.
Announce ==
  /\ Spend
  /\ UNCHANGED <<waiting, fresh, running, stranded>>

Disconnect ==
  /\ running' = {}
  /\ stranded' = stranded \cup running
  /\ UNCHANGED <<waiting, fresh, nextId>>

Next ==
  \/ Ask \/ Postpone \/ Announce \/ Disconnect
  \/ \E id \in waiting : Start(id) \/ Refuse(id)
  \/ \E id \in running : End(id)

Spec == Init /\ [][Next]_vars
=============================================================================
