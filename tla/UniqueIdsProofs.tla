--------------------------- MODULE UniqueIdsProofs ---------------------------
(***************************************************************************)
(* Proofs about UniqueIds, for any threads and any width of an id: no id   *)
(* is handed out twice in a lap, and every call is as good as one step.    *)
(* Both rest on the spin lock: one thread at a time is between its read    *)
(* and its write, so that what it has read is still the current value.     *)
(***************************************************************************)
EXTENDS UniqueIds, TLAPS

\* The thread holds the lock.
Holds(t) == pc[t].at \in {"read", "write", "unlock"}

LockOK ==
  /\ \A t \in Threads : Holds(t) => locked
  /\ \A t, u \in Threads : Holds(t) /\ Holds(u) => t = u

\* What a thread has read is not out of date when it writes.
Fresh == \A t \in Threads : pc[t].at = "write" => pc[t].value = prev

\* The ids above the last one have not been reached in this lap.
LapOK == \A id \in Ids : /\ times[id] <= laps
                         /\ id > prev => times[id] < laps

Invariant == TypeOK /\ LockOK /\ Fresh /\ LapOK

-----------------------------------------------------------------------------

\* One more, with the width of an unsigned int: the next, or 0 after the last.
LEMMA NextId ==
  ASSUME NEW v \in Ids
  PROVE  (v + 1) % Width = (IF v = Width - 1 THEN 0 ELSE v + 1)
         /\ (v + 1) % Width \in Ids
<1>1. Width \in Nat /\ Width > 0 /\ v \in Nat /\ v < Width
  BY IdsAssumption DEF IdsAssumption, Ids
<1>2. CASE v = Width - 1
  <2>1. v + 1 = Width
    BY <1>1, <1>2
  <2>2. Width % Width = 0
    BY <1>1
  <2> QED
    BY <1>1, <1>2, <2>1, <2>2 DEF Ids
<1>3. CASE v # Width - 1
  <2>1. v + 1 \in 0..(Width - 1)
    BY <1>1, <1>3
  <2>2. (v + 1) % Width = v + 1
    BY <1>1, <2>1
  <2> QED
    BY <1>3, <2>1, <2>2 DEF Ids
<1> QED
  BY <1>2, <1>3

\* One thread goes on to a place w, and the others stay where they are.
LEMMA Moves ==
  ASSUME TypeOK, NEW t \in Threads, NEW w \in Places, pc' = [pc EXCEPT ![t] = w]
  PROVE  /\ pc' \in [Threads -> Places] /\ pc'[t] = w
         /\ \A u \in Threads : u # t => pc'[u] = pc[u]
BY DEF TypeOK

LEMMA InitInvariant == Init => Invariant
<1> SUFFICES ASSUME Init PROVE Invariant
  OBVIOUS
<1>1. Width \in Nat /\ Width > 0 /\ MaxCalls \in Nat
  BY IdsAssumption DEF IdsAssumption
<1>2. TypeOK
  <2>1. prev \in Ids /\ laps \in Nat /\ calls \in 0..MaxCalls
    <3>1. prev = Width - 1 /\ laps = 0 /\ calls = 0
      BY DEF Init
    <3> QED
      BY <3>1, <1>1 DEF Ids
  <2>4. locked \in BOOLEAN
    BY DEF Init
  <2>2. pc \in [Threads -> Places]
    BY DEF Init, Places
  <2>3. times \in [Ids -> Nat]
    BY DEF Init
  <2> QED
    BY <2>1, <2>2, <2>3, <2>4 DEF TypeOK
<1>3. \A t \in Threads : pc[t].at = "idle"
  BY DEF Init, Idle
<1>4. LockOK /\ Fresh
  BY <1>3 DEF LockOK, Fresh, Holds
<1>5. LapOK
  BY <1>1 DEF Init, LapOK, Ids
<1> QED
  BY <1>2, <1>4, <1>5 DEF Invariant

LEMMA CallStep ==
  ASSUME Invariant, NEW t \in Threads, Call(t)
  PROVE  Invariant'
<1>1. TypeOK /\ LockOK /\ Fresh /\ LapOK
  BY DEF Invariant
<1>2. PICK c \in Calls : pc' = [pc EXCEPT ![t] = [at |-> "lock", call |-> c]]
  BY DEF Call
<1>3. [at |-> "lock", call |-> c] \in Places
  BY DEF Places
<1>4. /\ pc' \in [Threads -> Places] /\ pc'[t] = [at |-> "lock", call |-> c]
      /\ \A u \in Threads : u # t => pc'[u] = pc[u]
  BY <1>1, <1>2, <1>3, Moves
<1>5. pc'[t].at = "lock"
  BY <1>4
<1>6. UNCHANGED <<prev, locked, times, laps>> /\ calls < MaxCalls /\ calls' = calls + 1
  BY DEF Call
<1>7. TypeOK'
  BY <1>1, <1>4, <1>6, IdsAssumption DEF TypeOK, IdsAssumption
<1>8. LockOK' /\ Fresh'
  BY <1>1, <1>4, <1>5, <1>6 DEF LockOK, Fresh, Holds
<1>9. LapOK'
  BY <1>1, <1>6 DEF LapOK
<1> QED
  BY <1>7, <1>8, <1>9 DEF Invariant

LEMMA LockStep ==
  ASSUME Invariant, NEW t \in Threads, Lock(t)
  PROVE  Invariant'
<1>1. TypeOK /\ LockOK /\ Fresh /\ LapOK
  BY DEF Invariant
<1>2. pc[t] \in Places /\ pc[t].at = "lock"
  BY <1>1 DEF TypeOK, Lock
<1>3. PICK c \in Calls : pc[t] = [at |-> "lock", call |-> c]
  BY <1>2 DEF Places, Idle
<1>4. [at |-> "read", call |-> c] \in Places
  BY DEF Places
<1>5. pc' = [pc EXCEPT ![t] = [at |-> "read", call |-> c]]
  <2>1. pc' = [pc EXCEPT ![t] = [pc[t] EXCEPT !.at = "read"]]
    BY DEF Lock
  <2>2. [pc[t] EXCEPT !.at = "read"] = [at |-> "read", call |-> c]
    BY <1>3
  <2> QED
    BY <2>1, <2>2
<1>6. /\ pc' \in [Threads -> Places] /\ pc'[t] = [at |-> "read", call |-> c]
      /\ \A u \in Threads : u # t => pc'[u] = pc[u]
  BY <1>1, <1>4, <1>5, Moves
<1>7. pc'[t].at = "read"
  BY <1>6
<1>8. ~locked /\ locked' = TRUE /\ UNCHANGED <<prev, times, laps, calls>>
  BY DEF Lock
<1>9. TypeOK'
  BY <1>1, <1>6, <1>8 DEF TypeOK
<1>10. LockOK'
  <2>1. \A u \in Threads : ~Holds(u)
    BY <1>1, <1>8 DEF LockOK
  <2>2. \A u \in Threads : Holds(u)' => u = t
    BY <2>1, <1>6 DEF Holds
  <2> QED
    BY <2>2, <1>8 DEF LockOK
<1>11. Fresh' /\ LapOK'
  BY <1>1, <1>6, <1>7, <1>8 DEF Fresh, LapOK
<1> QED
  BY <1>9, <1>10, <1>11 DEF Invariant

LEMMA ReadStep ==
  ASSUME Invariant, NEW t \in Threads, Read(t)
  PROVE  Invariant'
<1>1. TypeOK /\ LockOK /\ Fresh /\ LapOK
  BY DEF Invariant
<1>2. pc[t] \in Places /\ pc[t].at = "read" /\ prev \in Ids
  BY <1>1 DEF TypeOK, Read
<1>3. PICK c \in Calls : pc[t].call = c
  BY <1>2 DEF Places, Idle
<1>4. PICK v \in Ids : v = prev
  BY <1>2
<1>5. [at |-> "write", call |-> c, value |-> v] \in Places
  BY DEF Places
<1>6. pc' = [pc EXCEPT ![t] = [at |-> "write", call |-> c, value |-> v]]
  BY <1>3, <1>4 DEF Read
<1>7. /\ pc' \in [Threads -> Places]
      /\ pc'[t] = [at |-> "write", call |-> c, value |-> v]
      /\ \A u \in Threads : u # t => pc'[u] = pc[u]
  BY <1>1, <1>5, <1>6, Moves
<1>8. pc'[t].at = "write" /\ pc'[t].value = prev
  BY <1>4, <1>7
<1>9. UNCHANGED <<prev, locked, times, laps, calls>>
  BY DEF Read
<1>10. TypeOK'
  BY <1>1, <1>7, <1>9 DEF TypeOK
<1>11. LockOK'
  BY <1>1, <1>2, <1>7, <1>8, <1>9 DEF LockOK, Holds
<1>12. Fresh' /\ LapOK'
  BY <1>1, <1>7, <1>8, <1>9 DEF Fresh, LapOK
<1> QED
  BY <1>10, <1>11, <1>12 DEF Invariant

\* The two ways of writing: the next id, or the one that TWS announced.
LEMMA WriteCases ==
  ASSUME Invariant, NEW t \in Threads, Write(t)
  PROVE  \/ /\ prev' = (prev + 1) % Width
            /\ times' = [times EXCEPT ![prev'] = @ + 1]
            /\ laps' = IF prev' = 0 THEN laps + 1 ELSE laps
         \/ /\ \E id \in Valid : prev' = IF prev < id THEN id ELSE prev
            /\ UNCHANGED <<times, laps>>
<1>1. TypeOK /\ Fresh
  BY DEF Invariant
<1>2. pc[t] \in Places /\ pc[t].at = "write"
  BY <1>1 DEF TypeOK, Write
<1>3. pc[t].value = prev
  BY <1>1, <1>2 DEF Fresh
<1>4. CASE pc[t].call.op = "obtain"
  <2>1. \/ /\ prev' = (pc[t].value + 1) % Width
           /\ times' = [times EXCEPT ![(pc[t].value + 1) % Width] = @ + 1]
           /\ laps' = IF (pc[t].value + 1) % Width = 0 THEN laps + 1 ELSE laps
    BY <1>4 DEF Write
  <2> QED
    BY <2>1, <1>3
<1>5. CASE pc[t].call.op = "update"
  <2>1. pc[t].call \in Calls
    BY <1>2 DEF Places, Idle
  <2>2. pc[t].call.id \in Valid
    BY <2>1, <1>5 DEF Calls
  <2>3. /\ prev' = IF pc[t].value < pc[t].call.id THEN pc[t].call.id ELSE prev
        /\ UNCHANGED <<times, laps>>
    BY <1>5 DEF Write
  <2> QED
    BY <2>2, <2>3, <1>3
<1> QED
  BY <1>4, <1>5 DEF Write

LEMMA WriteStep ==
  ASSUME Invariant, NEW t \in Threads, Write(t)
  PROVE  Invariant'
<1>1. TypeOK /\ LockOK /\ Fresh /\ LapOK
  BY DEF Invariant
<1>2. pc[t] \in Places /\ pc[t].at = "write"
  BY <1>1 DEF TypeOK, Write
<1>3. [at |-> "unlock"] \in Places
  BY DEF Places
<1>4. pc' = [pc EXCEPT ![t] = [at |-> "unlock"]] /\ UNCHANGED <<locked, calls>>
  BY DEF Write
<1>5. /\ pc' \in [Threads -> Places] /\ pc'[t] = [at |-> "unlock"]
      /\ \A u \in Threads : u # t => pc'[u] = pc[u]
  BY <1>1, <1>3, <1>4, Moves
<1>6. pc'[t].at = "unlock"
  BY <1>5
<1>7. LockOK'
  BY <1>1, <1>2, <1>4, <1>5, <1>6 DEF LockOK, Holds
<1>8. Fresh'
  <2>1. \A u \in Threads : u # t => ~Holds(u)
    BY <1>1, <1>2 DEF LockOK, Holds
  <2>2. \A u \in Threads : pc'[u].at # "write"
    BY <2>1, <1>5, <1>6 DEF Holds
  <2> QED
    BY <2>2 DEF Fresh
<1>9. /\ prev' \in Ids /\ times' \in [Ids -> Nat] /\ laps' \in Nat
      /\ LapOK'
  <2>1. /\ prev \in Ids /\ times \in [Ids -> Nat] /\ laps \in Nat
        /\ Width \in Nat /\ Width > 0
    BY <1>1, IdsAssumption DEF TypeOK, IdsAssumption
  <2>2. CASE /\ prev' = (prev + 1) % Width
             /\ times' = [times EXCEPT ![prev'] = @ + 1]
             /\ laps' = IF prev' = 0 THEN laps + 1 ELSE laps
    <3>1. prev' = (IF prev = Width - 1 THEN 0 ELSE prev + 1) /\ prev' \in Ids
      BY <2>1, <2>2, NextId
    <3>2. /\ times' \in [Ids -> Nat] /\ laps' \in Nat
          /\ times'[prev'] = times[prev'] + 1
          /\ \A id \in Ids : id # prev' => times'[id] = times[id]
      BY <2>1, <2>2, <3>1
    <3>3. \A id \in Ids : id \in Int /\ 0 <= id /\ id <= Width - 1
      BY <2>1 DEF Ids
    <3>4. \A id \in Ids : times[id] \in Nat /\ times[id] <= laps
                          /\ (id > prev => times[id] < laps)
      BY <2>1, <1>1 DEF LapOK
    <3>5. CASE prev = Width - 1
      <4>1. prev' = 0 /\ laps' = laps + 1
        BY <3>1, <3>5, <2>2
      <4> QED
        BY <4>1, <3>1, <3>2, <3>3, <3>4, <2>1 DEF LapOK
    <3>6. CASE prev # Width - 1
      <4>1. prev' = prev + 1 /\ laps' = laps
        BY <3>1, <3>3, <3>6, <2>1, <2>2
      <4>2. times[prev'] < laps
        BY <4>1, <3>1, <3>3, <3>4, <2>1
      <4> QED
        BY <4>1, <4>2, <3>1, <3>2, <3>3, <3>4, <2>1 DEF LapOK
    <3> QED
      BY <3>1, <3>2, <3>5, <3>6
  <2>3. CASE /\ \E id \in Valid : prev' = IF prev < id THEN id ELSE prev
             /\ UNCHANGED <<times, laps>>
    <3>1. PICK id \in Valid : prev' = IF prev < id THEN id ELSE prev
      BY <2>3
    <3>2. id \in Ids
      BY IdsAssumption DEF IdsAssumption, Ids
    <3>3. prev' \in Ids /\ prev' >= prev
      BY <3>1, <3>2, <2>1 DEF Ids
    <3> QED
      BY <3>3, <2>1, <2>3, <1>1 DEF LapOK, Ids
  <2> QED
    BY <2>2, <2>3, WriteCases
<1>10. TypeOK'
  BY <1>1, <1>4, <1>5, <1>9 DEF TypeOK
<1> QED
  BY <1>7, <1>8, <1>9, <1>10 DEF Invariant

LEMMA UnlockStep ==
  ASSUME Invariant, NEW t \in Threads, Unlock(t)
  PROVE  Invariant'
<1>1. TypeOK /\ LockOK /\ Fresh /\ LapOK
  BY DEF Invariant
<1>2. Idle \in Places /\ Idle.at = "idle"
  BY DEF Places, Idle
<1>3. /\ pc' \in [Threads -> Places] /\ pc'[t] = Idle
      /\ \A u \in Threads : u # t => pc'[u] = pc[u]
  BY <1>1, <1>2, Moves DEF Unlock
<1>4. locked' = FALSE /\ UNCHANGED <<prev, times, laps, calls>>
  BY DEF Unlock
<1>5. TypeOK'
  BY <1>1, <1>3, <1>4 DEF TypeOK
<1>6. LockOK'
  <2>1. Holds(t)
    BY DEF Unlock, Holds
  <2>2. \A u \in Threads : u # t => ~Holds(u)
    BY <2>1, <1>1 DEF LockOK
  <2>3. \A u \in Threads : ~Holds(u)'
    BY <2>2, <1>2, <1>3 DEF Holds
  <2> QED
    BY <2>3 DEF LockOK
<1>7. Fresh' /\ LapOK'
  BY <1>1, <1>2, <1>3, <1>4 DEF Fresh, LapOK
<1> QED
  BY <1>5, <1>6, <1>7 DEF Invariant

LEMMA NextInvariant == Invariant /\ [Next]_vars => Invariant'
<1>1. Invariant /\ Next => Invariant'
  BY CallStep, LockStep, ReadStep, WriteStep, UnlockStep DEF Next
<1>2. Invariant /\ UNCHANGED vars => Invariant'
  <2> SUFFICES ASSUME Invariant, UNCHANGED vars PROVE Invariant'
    OBVIOUS
  <2>1. UNCHANGED <<prev, locked, pc, times, laps, calls>>
    BY DEF vars
  <2>2. TypeOK' /\ LapOK'
    BY <2>1 DEF Invariant, TypeOK, LapOK
  <2>3. LockOK' /\ Fresh'
    BY <2>1 DEF Invariant, LockOK, Fresh, Holds
  <2> QED
    BY <2>2, <2>3 DEF Invariant
<1> QED
  BY <1>1, <1>2

LEMMA InvariantAlways == Spec => []Invariant
  BY InitInvariant, NextInvariant, PTL DEF Spec

-----------------------------------------------------------------------------

\* The counters and the places of the threads keep their types; an id never gets
\* wider than an unsigned int.
THEOREM IdsTypes == Spec => []TypeOK
<1>1. Invariant => TypeOK
  BY DEF Invariant
<1> QED
  BY InvariantAlways, <1>1, PTL

\* Two threads are never between the two calls of the spin lock at once.
THEOREM OneInside ==
  Spec => [](\A t, u \in Threads : Holds(t) /\ Holds(u) => t = u)
<1>1. Invariant => \A t, u \in Threads : Holds(t) /\ Holds(u) => t = u
  BY DEF Invariant, LockOK
<1> QED
  BY InvariantAlways, <1>1, PTL

\* obtain_unique_id() hands no id out twice before the ids wrap round, for any
\* number of threads and any announcements of TWS in between.
THEOREM IdsDistinct == Spec => []NoIdTwice
<1>1. Invariant => NoIdTwice
  BY DEF Invariant, LapOK, NoIdTwice
<1> QED
  BY InvariantAlways, <1>1, PTL

\* Every call of the generator takes effect as one step of IdService, at the step
\* that writes m_prev_id.
THEOREM IdsRefine == Spec => ImplementsService
<1>1. Init => Service!Init
  BY DEF Init, Service!Init, Ids, Service!Ids
<1>2. Invariant /\ [Next]_vars => [Service!Next]_(Service!vars)
  <2> SUFFICES ASSUME Invariant, [Next]_vars,
                      ~(UNCHANGED <<prev, times, laps>>)
               PROVE  Service!Next
    BY DEF Service!vars
  <2>1. PICK t \in Threads : Write(t)
    BY DEF Next, Call, Lock, Read, Unlock, vars
  <2>2. CASE /\ prev' = (prev + 1) % Width
             /\ times' = [times EXCEPT ![prev'] = @ + 1]
             /\ laps' = IF prev' = 0 THEN laps + 1 ELSE laps
    BY <2>2 DEF Service!Next, Service!Obtain
  <2>3. CASE /\ \E id \in Valid : prev' = IF prev < id THEN id ELSE prev
             /\ UNCHANGED <<times, laps>>
    BY <2>3 DEF Service!Next, Service!Update
  <2> QED
    BY <2>1, <2>2, <2>3, WriteCases
<1> QED
  BY InvariantAlways, <1>1, <1>2, PTL DEF Spec, Service!Spec, ImplementsService

=============================================================================
