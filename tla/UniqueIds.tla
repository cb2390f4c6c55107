------------------------------ MODULE UniqueIds ------------------------------
(***************************************************************************)
(* The id generator as threads run it: the methods of the base class read  *)
(* and write m_prev_id in separate steps, and the derived class keeps      *)
(* others out with a spin lock.  IdService is what this comes to.          *)
(***************************************************************************)
EXTENDS Integers

CONSTANTS
  Threads,   \* the threads that obtain ids and report TWS's next valid id
  Width,     \* how many values an unsigned int has
  Valid,     \* the ids TWS may announce
  MaxCalls   \* bound: how many calls are made

ASSUME IdsAssumption ==
  /\ Width \in Nat \ {0}
  /\ Valid \subseteq 0..(Width - 1)
  /\ MaxCalls \in Nat

VARIABLES
  prev,   \* m_prev_id
  locked, \* m_lock
  pc,     \* where each thread is in its call
  times,  \* how often each id was handed out
  laps,   \* how often the ids wrapped round
  calls   \* how many calls were made so far

vars == <<prev, locked, pc, times, laps, calls>>

Ids == 0..(Width - 1)
Idle == [at |-> "idle"]

\* A call: obtaining an id, or reporting one.
Calls == {[op |-> "obtain"]} \cup [op : {"update"}, id : Valid]

Init ==
  /\ prev = Width - 1
  /\ locked = FALSE
  /\ pc = [t \in Threads |-> Idle]
  /\ times = [id \in Ids |-> 0]
  /\ laps = 0
  /\ calls = 0

\* get_next_order_id(), get_next_ticker_id(), set_next_order_id()
Call(t) ==
  /\ pc[t] = Idle
  /\ calls < MaxCalls
  /\ calls' = calls + 1
  /\ \E c \in Calls : pc' = [pc EXCEPT ![t] = [at |-> "lock", call |-> c]]
  /\ UNCHANGED <<prev, locked, times, laps>>

\* Faulty variant: the methods of the base class.
LockNothing(t) ==
  /\ pc[t].at = "lock"
  /\ pc' = [pc EXCEPT ![t].at = "read"]
  /\ UNCHANGED <<prev, locked, times, laps, calls>>

\* pthread_spin_lock()
Lock(t) ==
  /\ pc[t].at = "lock"
  /\ ~locked
  /\ locked' = TRUE
  /\ pc' = [pc EXCEPT ![t].at = "read"]
  /\ UNCHANGED <<prev, times, laps, calls>>

\* The current value, compared or incremented.
Read(t) ==
  /\ pc[t].at = "read"
  /\ pc' = [pc EXCEPT ![t] = [at |-> "write", call |-> pc[t].call, value |-> prev]]
  /\ UNCHANGED <<prev, locked, times, laps, calls>>

\* The new value, if there is one; obtaining returns it.
Write(t) ==
  /\ pc[t].at = "write"
  /\ pc' = [pc EXCEPT ![t] = [at |-> "unlock"]]
  /\ \/ /\ pc[t].call.op = "obtain"
        /\ LET id == (pc[t].value + 1) % Width
           IN  /\ prev' = id
               /\ times' = [times EXCEPT ![id] = @ + 1]
               /\ laps' = IF id = 0 THEN laps + 1 ELSE laps
     \/ /\ pc[t].call.op = "update"
        /\ prev' = IF pc[t].value < pc[t].call.id THEN pc[t].call.id ELSE prev
        /\ UNCHANGED <<times, laps>>
  /\ UNCHANGED <<locked, calls>>

\* pthread_spin_unlock()
Unlock(t) ==
  /\ pc[t].at = "unlock"
  /\ locked' = FALSE
  /\ pc' = [pc EXCEPT ![t] = Idle]
  /\ UNCHANGED <<prev, times, laps, calls>>

Next == \E t \in Threads : Call(t) \/ Lock(t) \/ Read(t) \/ Write(t) \/ Unlock(t)

Spec == Init /\ [][Next]_vars

-----------------------------------------------------------------------------
(* Safety *)

\* A call reads, then writes what it has read or the next value, and unlocks.
Places ==
  {Idle, [at |-> "unlock"]}
    \cup [at : {"lock", "read"}, call : Calls]
    \cup [at : {"write"}, call : Calls, value : Ids]

TypeOK ==
  /\ prev \in Ids
  /\ locked \in BOOLEAN
  /\ pc \in [Threads -> Places]
  /\ times \in [Ids -> Nat]
  /\ laps \in Nat
  /\ calls \in 0..MaxCalls

\* No id is handed out twice, to whatever threads and whatever TWS announces in
\* between, until the ids have wrapped round; nor twice in any later lap.
NoIdTwice == \A id \in Ids : times[id] <= laps

\* Every call takes effect as if it were a single step.
Service == INSTANCE IdService
ImplementsService == Service!Spec
=============================================================================
