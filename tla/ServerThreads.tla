---------------------------- MODULE ServerThreads ----------------------------
(***************************************************************************)
(* The life of the server's threads, and the registry in which they find   *)
(* each other. The two back-end threads are started with the server and    *)
(* run, each at its own pace, until the stop flag is up: they enter the    *)
(* registry first and leave it last.  A connection's thread is entered     *)
(* when its first client connects and stays: mongoose uses the connection  *)
(* again for the next client.                                              *)
(*                                                                         *)
(* The registry is a vector of processors and an index from keys to places *)
(* in it. Erasing empties the place and leaves the key.                    *)
(***************************************************************************)
EXTENDS Integers, Sequences, FiniteSets

CONSTANTS
  Conns,     \* mongoose's connections, each served by a thread
  Worker,    \* the key IB_TWS_API_CONNECTION_THREAD
  Tracker,   \* the key DATA_TRACKER_THREAD
  None       \* NULL

ASSUME ThreadsAssumption ==
  /\ Worker # Tracker
  /\ {Worker, Tracker} \cap Conns = {}
  /\ None \notin Conns \cup {Worker, Tracker}

Backs == {Worker, Tracker}
Keys == Conns \cup Backs

VARIABLES
  slots,  \* receiver_set; the processor of a key is named like the key
  index,  \* ctx_index and conn_index: the place of a key, 0 if it has none
  stop,   \* mongoose's stop flag
  at,     \* where the back-end threads are
  client  \* what goes on on each connection

vars == <<slots, index, stop, at, client>>

Init ==
  /\ slots = <<>>
  /\ index = [k \in Keys |-> 0]
  /\ stop = FALSE
  /\ at = [b \in Backs |-> "starting"]
  /\ client = [c \in Conns |-> "new"]

-----------------------------------------------------------------------------
(* The registry, under the mutex *)

Find(k) == IF index[k] = 0 THEN None ELSE slots[index[k]]

\* store(): the map's insert() leaves a key alone that is there already.
Store(k) ==
  /\ slots' = Append(slots, k)
  /\ index' = IF index[k] = 0 THEN [index EXCEPT ![k] = Len(slots) + 1] ELSE index

\* register_frontend_thread(), register_backend_thread()
RegisterThread(k) == IF Find(k) = None THEN Store(k) ELSE UNCHANGED <<slots, index>>

\* erase(), for unregister_frontend_thread() and unregister_backend_thread()
Erase(k) ==
  /\ slots' = IF index[k] = 0 THEN slots ELSE [slots EXCEPT ![index[k]] = None]
  /\ UNCHANGED index

-----------------------------------------------------------------------------
(* The back-end threads *)

\* The thread begins: it is entered, and goes to the head of its loop.
Begin(b) ==
  /\ at[b] = "starting"
  /\ RegisterThread(b)
  /\ at' = [at EXCEPT ![b] = "looping"]
  /\ UNCHANGED <<stop, client>>

\* What opening the connection to TWS, or the databases, comes to. The worker
\* tries again unless memory is short; the tracker gives up whatever is wrong.
GivesUp(b, outcome) ==
  outcome = "no memory" \/ (b = Tracker /\ outcome = "refused")

\* Faulty variant: a thread that gives up leaves the others running.
OpenAndQuit(b, outcome) ==
  /\ at[b] = "looping" /\ ~stop
  /\ at' = [at EXCEPT ![b] = CASE outcome = "open"      -> "running"
                               [] GivesUp(b, outcome)   -> "leaving"
                               [] OTHER                 -> "waiting"]
  /\ UNCHANGED <<slots, index, stop, client>>

\* One try. A thread that gives up stops the server.
Open(b, outcome) ==
  /\ at[b] = "looping" /\ ~stop
  /\ at' = [at EXCEPT ![b] = CASE outcome = "open"      -> "running"
                               [] GivesUp(b, outcome)   -> "leaving"
                               [] OTHER                 -> "waiting"]
  /\ stop' = (stop \/ GivesUp(b, outcome))
  /\ UNCHANGED <<slots, index, client>>

\* The inner loop ends: with the connection, on an error, or with the server.
EndRun(b) ==
  /\ at[b] = "running"
  /\ at' = [at EXCEPT ![b] = "waiting"]
  /\ UNCHANGED <<slots, index, stop, client>>

\* After a while, if the server goes on; at once, if it does not.
Again(b) ==
  /\ at[b] = "waiting"
  /\ at' = [at EXCEPT ![b] = "looping"]
  /\ UNCHANGED <<slots, index, stop, client>>

\* The outer loop is left.
Leave(b) ==
  /\ at[b] = "leaving" \/ (at[b] = "looping" /\ stop)
  /\ Erase(b)
  /\ at' = [at EXCEPT ![b] = "done"]
  /\ UNCHANGED <<stop, client>>

-----------------------------------------------------------------------------
(* The connections *)

\* MG_INIT_CLIENT_CONN
Accept(c) ==
  /\ client[c] \in {"new", "closed"} /\ ~stop
  /\ RegisterThread(c)
  /\ client' = [client EXCEPT ![c] = "open"]
  /\ UNCHANGED <<stop, at>>

\* MG_NEW_REQUEST for a page of TWS: the thread looks up itself and the worker.
BeginRequest(c) ==
  /\ client[c] = "open"
  /\ client' = [client EXCEPT ![c] = "asking"]
  /\ UNCHANGED <<slots, index, stop, at>>

EndRequest(c) ==
  /\ client[c] = "asking"
  /\ client' = [client EXCEPT ![c] = "open"]
  /\ UNCHANGED <<slots, index, stop, at>>

\* Faulty variant: the call that is commented out.
CloseAndErase(c) ==
  /\ client[c] = "open"
  /\ Erase(c)
  /\ client' = [client EXCEPT ![c] = "closed"]
  /\ UNCHANGED <<stop, at>>

\* MG_EXIT_CLIENT_CONN
Close(c) ==
  /\ client[c] = "open"
  /\ client' = [client EXCEPT ![c] = "closed"]
  /\ UNCHANGED <<slots, index, stop, at>>

\* Somebody stops the server.
Stop ==
  /\ ~stop
  /\ stop' = TRUE
  /\ UNCHANGED <<slots, index, at, client>>

Back(b) == \/ Begin(b) \/ EndRun(b) \/ Again(b) \/ Leave(b)
           \/ \E outcome \in {"open", "refused", "no memory"} : Open(b, outcome)
Front(c) == Accept(c) \/ BeginRequest(c) \/ EndRequest(c) \/ Close(c)

Next == (\E b \in Backs : Back(b)) \/ (\E c \in Conns : Front(c)) \/ Stop

Spec == Init /\ [][Next]_vars

-----------------------------------------------------------------------------
(* Safety *)

Present(k) ==
  IF k \in Backs THEN at[k] \notin {"starting", "done"} ELSE client[k] # "new"

\* A thread finds itself from the time it registers to the time it leaves,
\* whatever clients its connection had before, and whatever threads came and
\* went; it never finds another's processor, and has one place however often a
\* client connects.
FindsItself ==
  \A k \in Keys :
    /\ Find(k) = IF Present(k) THEN k ELSE None
    /\ Cardinality({i \in DOMAIN slots : slots[i] = k}) <= 1

-----------------------------------------------------------------------------
(* Liveness *)

\* The back-end's threads are scheduled, and their calls return: the receive
\* loop and the tracker's look at the stop flag in every round.
FairSpec ==
  /\ Spec
  /\ \A b \in Backs :
       /\ WF_vars(Begin(b)) /\ WF_vars(stop /\ EndRun(b)) /\ WF_vars(Again(b)) /\ WF_vars(Leave(b))

\* When the server is stopped, by whomever, or one of its back-end threads gives
\* up, both back-end threads end: none goes on without the other.
AllEndTogether ==
  (stop \/ \E b \in Backs : at[b] \in {"leaving", "done"}) ~> (\A b \in Backs : at[b] = "done")
=============================================================================
