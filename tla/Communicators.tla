---------------------------- MODULE Communicators ----------------------------
(***************************************************************************)
(* The paths between threads, and how the two ends come to use the same    *)
(* one. A path is a pair of communicators, one for each direction; the     *)
(* application manager lists them all under its mutex, and every thread    *)
(* keeps those it knows in m_senders, which it alone touches.              *)
(*                                                                         *)
(* A thread that needs a path looks in its own cache, then in the list,    *)
(* then makes a pair of sockets outside the mutex, and looks again before  *)
(* it adds the pair.  The other end finds out by itself: the back-end      *)
(* fetches what is new in every round of its receive loop.                 *)
(***************************************************************************)
EXTENDS Integers, FiniteSets, SequencesExt

CONSTANTS
  Fronts,  \* the threads that post requests
  Back     \* the thread that serves them and fetches new paths

ASSUME CommunicatorsAssumption == Back \notin Fronts

Threads == Fronts \cup {Back}

\* The threads t exchanges messages with; t is an end of every path it asks for.
Partners(t) == IF t = Back THEN Fronts ELSE {Back}

VARIABLES
  list,   \* m_communicators
  count,  \* m_new_communicators_count
  cache,  \* m_senders of every thread
  pc,     \* where each thread is in get_interthread_communicator()
  made    \* how many pairs of sockets were made so far

vars == <<list, count, cache, pc, made>>

\* One direction of the pair number n.
Comm(n, t, u) == [pair |-> n, from |-> t, to |-> u]
Opposite(c) == Comm(c.pair, c.to, c.from)
Both(c) == {c, Opposite(c)}

Matches(c, t, u) == c.from = t /\ c.to = u

Idle == [at |-> "idle"]
At(where, c) == [at |-> where, comm |-> c]

Init ==
  /\ list = <<>>
  /\ count = 0
  /\ cache = [t \in Threads |-> {}]
  /\ pc = [t \in Threads |-> Idle]
  /\ made = 0

-----------------------------------------------------------------------------
(* Asking for a path *)

\* The first match in the list, in a set, or the empty set.
Listed(t, u) ==
  LET hits == {i \in DOMAIN list : Matches(list[i], t, u)}
  IN  {list[i] : i \in {j \in hits : \A k \in hits : j <= k}}

\* Not in the cache of t: look in the list, under the mutex; sockets are made
\* if it is not there.
Search(t, u) ==
  /\ pc[t] = Idle
  /\ ~\E c \in cache[t] : Matches(c, t, u)
  /\ \/ \E c \in Listed(t, u) : pc' = [pc EXCEPT ![t] = At("register", c)]
        /\ UNCHANGED made
     \/ /\ Listed(t, u) = {}
        /\ made' = made + 1
        /\ pc' = [pc EXCEPT ![t] = At("add", Comm(made + 1, t, u))]
  /\ UNCHANGED <<list, count, cache>>

\* Faulty variant: the list is not looked at again.
AddUnchecked(t) ==
  /\ pc[t].at = "add"
  /\ LET c == pc[t].comm
     IN  /\ list' = list \o <<c, Opposite(c)>>
         /\ pc' = [pc EXCEPT ![t] = At("register", c)]
  /\ count' = count + 1
  /\ UNCHANGED <<cache, made>>

\* Faulty variant: the loser goes on with the pair it has just deleted.
AddLoser(t) ==
  /\ pc[t].at = "add"
  /\ LET c == pc[t].comm
     IN  /\ pc' = [pc EXCEPT ![t] = At("register", c)]
         /\ IF Listed(c.from, c.to) # {} THEN UNCHANGED <<list, count>>
            ELSE /\ list' = list \o <<c, Opposite(c)>>
                 /\ count' = count + 1
  /\ UNCHANGED <<cache, made>>

\* Under the mutex again: the pair is added, unless somebody was faster; then
\* the pair is deleted and theirs is taken.
Add(t) ==
  /\ pc[t].at = "add"
  /\ LET c == pc[t].comm
     IN  \/ \E d \in Listed(c.from, c.to) : pc' = [pc EXCEPT ![t] = At("register", d)]
            /\ UNCHANGED <<list, count>>
         \/ /\ Listed(c.from, c.to) = {}
            /\ list' = list \o <<c, Opposite(c)>>
            /\ count' = count + 1
            /\ pc' = [pc EXCEPT ![t] = At("register", c)]
  /\ UNCHANGED <<cache, made>>

\* The thread puts both directions in its cache.
Register(t) ==
  /\ pc[t].at = "register"
  /\ cache' = [cache EXCEPT ![t] = @ \cup Both(pc[t].comm)]
  /\ pc' = [pc EXCEPT ![t] = Idle]
  /\ UNCHANGED <<list, count, made>>

-----------------------------------------------------------------------------
(* Fetching what is new *)

\* The places in the list of what t receives on and has not cached.
Unknown(t) == {i \in DOMAIN list : list[i].to = t /\ list[i] \notin cache[t]}

\* Those of them that a scan from the end of the list gets to while the count
\* is not zero.
Reached(t) == {i \in Unknown(t) : Cardinality({j \in Unknown(t) : j > i}) < count}

\* Faulty variant: every communicator that is looked at counts.
FetchAndCount(t) ==
  /\ pc[t] = Idle
  /\ Reached(t) # {}
  /\ LET seen == {i \in DOMAIN list : Len(list) - i < count}
     IN  /\ cache' = [cache EXCEPT ![t] = @ \cup UNION {Both(list[i]) : i \in seen \cap Unknown(t)}]
         /\ count' = count - Cardinality(seen)
  /\ UNCHANGED <<list, pc, made>>

\* fetch_new_interthread_communicators(), all of it under the mutex.
Fetch(t) ==
  /\ pc[t] = Idle
  /\ Reached(t) # {}
  /\ cache' = [cache EXCEPT ![t] = @ \cup UNION {Both(list[i]) : i \in Reached(t)}]
  /\ count' = count - Cardinality(Reached(t))
  /\ UNCHANGED <<list, pc, made>>

Ask == \E t \in Threads : \E u \in Partners(t) : Search(t, u)
Finish == \E t \in Threads : Add(t) \/ Register(t)

Next == Ask \/ Finish \/ Fetch(Back)

Spec == Init /\ [][Next]_vars

-----------------------------------------------------------------------------
(* Safety *)

\* The back-end is at one end of every path.
Comms == {c \in [pair : Nat, from : Threads, to : Threads] :
            c.from = Back <=> c.to # Back}
Places == {Idle} \cup [at : {"add", "register"}, comm : Comms]

TypeOK ==
  /\ list \in Seq(Comms)
  /\ count \in Nat
  /\ cache \in [Threads -> SUBSET Comms]
  /\ pc \in [Threads -> Places]
  /\ made \in Nat

\* Two threads that ask for the same path at the same time end up with one: the
\* list never has two communicators between the same threads.
OnePath ==
  \A i, j \in DOMAIN list :
    Matches(list[i], list[j].from, list[j].to) => i = j

\* What a thread caches, or is about to, is what the others find in the list;
\* never the pair that lost the race and was deleted.
CachedIsListed ==
  \A t \in Threads :
    /\ cache[t] \subseteq Range(list)
    /\ pc[t].at = "register" => pc[t].comm \in Range(list)

\* A thread that can send on a path polls the other direction of it.
BothWays == \A t \in Threads : \A c \in cache[t] : Opposite(c) \in cache[t]

\* The count never ends the scan before a path the back-end does not know yet:
\* it is at least the number of those, at any time.
CountCovers == Cardinality(Unknown(Back)) <= count

-----------------------------------------------------------------------------
(* What it comes to *)

\* The path a communicator is one direction of.
PathOf(c) == [front |-> IF c.from = Back THEN c.to ELSE c.from, pair |-> c.pair]
PathsOf(cs) == {PathOf(c) : c \in cs}

Given(t) == IF pc[t].at = "register" THEN {PathOf(pc[t].comm)} ELSE {}

\* Looking twice makes asking for a path one step, whoever interferes; and the
\* scan that ends with the count fetches all there is.
Service == INSTANCE PathService WITH
  paths <- PathsOf(Range(list)),
  given <- [t \in Threads |-> Given(t)],
  knows <- [t \in Threads |-> PathsOf(cache[t])]
ImplementsService == Service!Spec

-----------------------------------------------------------------------------
(* Liveness *)

\* The back-end's loop comes round to fetching; a call that was begun ends.
FairSpec ==
  /\ Spec
  /\ WF_vars(Fetch(Back))
  /\ \A t \in Threads : WF_vars(Add(t)) /\ WF_vars(Register(t))

\* Every path to the back-end that a thread was given is polled by the back-end.
PathsArePolled ==
  \A f \in Fronts :
    (\E i \in DOMAIN list : Matches(list[i], f, Back))
      ~> (\E c \in cache[Back] : Matches(c, f, Back))
=============================================================================
