----------------------------- MODULE ScannerProofs -----------------------------
(***************************************************************************)
(* Proofs about ScannerLimit, for any requests, limit and ids.  Invariant  *)
(* is inductive: it says how slots, the ownership list, the ids, the wire  *)
(* and the scan under way belong together.                                 *)
(***************************************************************************)
EXTENDS ScannerLimit, FiniteSetTheorems, SequenceTheorems, TLAPS

\* Slots and transmitted requests are the same, one to one.
SlotsOK ==
  /\ \A i, j \in DOMAIN active : active[i] = active[j] => i = j
  /\ \A i \in DOMAIN active : state[active[i]] = "READY_TO_RECEIVE_RESPONSE"
  /\ \A r \in Requests : state[r] = "READY_TO_RECEIVE_RESPONSE"
                           => \E i \in DOMAIN active : active[i] = r
  /\ Len(active) <= MaxActive

\* The ownership list holds every request there is, by ascending ticker.
OwnedOK ==
  /\ \A i \in DOMAIN owned : state[owned[i]] # "none"
  /\ \A r \in Requests : state[r] # "none" => \E i \in DOMAIN owned : owned[i] = r
  /\ \A i, j \in DOMAIN owned : i < j => ticker[owned[i]] < ticker[owned[j]]
  /\ \A i \in DOMAIN owned : ticker[owned[i]] <= prevId

Alive(r) == state[r] \in {"WAIT_FOR_TRANSMIT", "READY_TO_RECEIVE_RESPONSE"}

\* Id 0 is spent once, and an orphan comes of nothing else.
IdsOK ==
  /\ prevId = MaxId => owned = <<>> /\ orphans = 0
  /\ \A r \in Requests : Alive(r) /\ ticker[r] = 0 => prevId < MaxId - 1 /\ orphans = 0
  /\ orphans <= 1

\* What runs at TWS holds a slot; a closed connection runs nothing.
WireOK ==
  /\ link = "up" => \A t \in wire \ {0} : \E i \in DOMAIN active : ticker[active[i]] = t
  /\ phase = "down" => wire = {}
  /\ IsFiniteSet(wire)
  /\ Cardinality(wire \ {0}) <= MaxActive

\* The scan goes by ascending ticker; what it has passed waits for a slot.
ScanOK ==
  phase = "tickle" =>
    /\ \A i, j \in DOMAIN todo : i < j => ticker[todo[i]] < ticker[todo[j]]
    /\ \A r \in Requests : state[r] = "WAIT_FOR_TRANSMIT"
                             => Full \/ \E i \in DOMAIN todo : todo[i] = r

Invariant == TypeOK /\ SlotsOK /\ OwnedOK /\ IdsOK /\ WireOK /\ ScanOK

-----------------------------------------------------------------------------
(* Removing one element *)

\* What RemoveAt returns: one element less, the later ones moved up.
LEMMA RemoveAtElements ==
  ASSUME NEW S, NEW s \in Seq(S), NEW i \in 1..Len(s)
  PROVE  /\ RemoveAt(s, i) \in Seq(S)
         /\ Len(RemoveAt(s, i)) = Len(s) - 1
         /\ \A j \in 1..(Len(s) - 1) :
              RemoveAt(s, i)[j] = IF j < i THEN s[j] ELSE s[j + 1]
<1> DEFINE p == SubSeq(s, 1, i - 1)
           q == SubSeq(s, i + 1, Len(s))
<1>1. /\ p \in Seq(S) /\ Len(p) = i - 1
      /\ \A j \in 1..(i - 1) : p[j] = s[j]
  OBVIOUS
<1>2. /\ q \in Seq(S) /\ Len(q) = Len(s) - i
      /\ \A j \in 1..(Len(s) - i) : q[j] = s[i + j]
  OBVIOUS
<1>3. RemoveAt(s, i) = p \o q
  BY DEF RemoveAt
<1> HIDE DEF p, q
<1>4. /\ p \o q \in Seq(S)
      /\ Len(p \o q) = Len(s) - 1
      /\ \A j \in 1..(Len(s) - 1) :
           (p \o q)[j] = IF j <= i - 1 THEN p[j] ELSE q[j - (i - 1)]
  <2>1. /\ p \o q \in Seq(S)
        /\ Len(p \o q) = Len(p) + Len(q)
        /\ \A j \in 1..(Len(p) + Len(q)) :
             (p \o q)[j] = IF j <= Len(p) THEN p[j] ELSE q[j - Len(p)]
    BY <1>1, <1>2, ConcatProperties
  <2>2. Len(p) = i - 1 /\ Len(q) = Len(s) - i
    BY <1>1, <1>2
  <2>3. Len(p) + Len(q) = Len(s) - 1
    BY <2>2
  <2> QED
    BY <2>1, <2>2, <2>3
<1>5. \A j \in 1..(Len(s) - 1) : (p \o q)[j] = IF j < i THEN s[j] ELSE s[j + 1]
  <2> TAKE j \in 1..(Len(s) - 1)
  <2>1. CASE j < i
    BY <2>1, <1>1, <1>4
  <2>2. CASE ~(j < i)
    <3>1. j - (i - 1) \in 1..(Len(s) - i) /\ i + (j - (i - 1)) = j + 1
      BY <2>2
    <3>2. q[j - (i - 1)] = s[j + 1]
      BY <3>1, <1>2
    <3> QED
      BY <2>2, <3>2, <1>4
  <2> QED
    BY <2>1, <2>2
<1> QED
  BY <1>3, <1>4, <1>5

\* Removing an element keeps every other one, at its place or one before.
LEMMA RemoveAtKeeps ==
  ASSUME NEW S, NEW s \in Seq(S), NEW i \in 1..Len(s), NEW k \in 1..Len(s), k # i
  PROVE  \E j \in 1..Len(RemoveAt(s, i)) : RemoveAt(s, i)[j] = s[k]
<1> DEFINE w == RemoveAt(s, i)
<1>0. /\ Len(w) = Len(s) - 1
      /\ \A j \in 1..(Len(s) - 1) : w[j] = IF j < i THEN s[j] ELSE s[j + 1]
  BY RemoveAtElements
<1> HIDE DEF w
<1> SUFFICES \E j \in 1..Len(w) : w[j] = s[k]
  BY DEF w
<1>1. CASE k < i
  <2>1. k \in 1..(Len(s) - 1)
    BY <1>1
  <2> QED
    BY <2>1, <1>0, <1>1
<1>2. CASE k > i
  <2>1. k - 1 \in 1..(Len(s) - 1) /\ ~(k - 1 < i) /\ (k - 1) + 1 = k
    BY <1>2
  <2> QED
    BY <2>1, <1>0
<1> QED
  BY <1>1, <1>2

\* The index an element of the shortened sequence had, in the same order.
OldIndex(i, j) == IF j < i THEN j ELSE j + 1

LEMMA RemoveAtOrder ==
  ASSUME NEW S, NEW s \in Seq(S), NEW i \in 1..Len(s)
  PROVE  /\ \A j \in 1..Len(RemoveAt(s, i)) :
              /\ OldIndex(i, j) \in 1..Len(s) /\ OldIndex(i, j) # i
              /\ RemoveAt(s, i)[j] = s[OldIndex(i, j)]
         /\ \A j, k \in 1..Len(RemoveAt(s, i)) :
              /\ j < k => OldIndex(i, j) < OldIndex(i, k)
              /\ OldIndex(i, j) = OldIndex(i, k) => j = k
<1> DEFINE w == RemoveAt(s, i)
<1>0. /\ Len(w) = Len(s) - 1
      /\ \A j \in 1..(Len(s) - 1) : w[j] = IF j < i THEN s[j] ELSE s[j + 1]
  BY RemoveAtElements
<1> HIDE DEF w
<1> SUFFICES /\ \A j \in 1..Len(w) :
                  /\ OldIndex(i, j) \in 1..Len(s) /\ OldIndex(i, j) # i
                  /\ w[j] = s[OldIndex(i, j)]
             /\ \A j, k \in 1..Len(w) :
                  /\ j < k => OldIndex(i, j) < OldIndex(i, k)
                  /\ OldIndex(i, j) = OldIndex(i, k) => j = k
  BY DEF w
<1> QED
  BY <1>0 DEF OldIndex

\* The same of the sequence w that a step leaves.
LEMMA Removed ==
  ASSUME NEW S, NEW s \in Seq(S), NEW i \in DOMAIN s, NEW w, w = RemoveAt(s, i)
  PROVE  /\ w \in Seq(S) /\ Len(w) = Len(s) - 1
         /\ DOMAIN w = 1..Len(w) /\ DOMAIN s = 1..Len(s)
         /\ \A j \in DOMAIN w : /\ OldIndex(i, j) \in DOMAIN s /\ OldIndex(i, j) # i
                              /\ w[j] = s[OldIndex(i, j)]
         /\ \A j, k \in DOMAIN w : j < k => OldIndex(i, j) < OldIndex(i, k)
         /\ \A j, k \in DOMAIN w : OldIndex(i, j) = OldIndex(i, k) => j = k
         /\ \A k \in DOMAIN s : k # i => \E j \in DOMAIN w : w[j] = s[k]
<1>1. i \in 1..Len(s) /\ DOMAIN s = 1..Len(s)
  OBVIOUS
<1>2. w \in Seq(S) /\ Len(w) = Len(s) - 1
  BY <1>1, RemoveAtElements
<1>3. DOMAIN w = 1..Len(w)
  BY <1>2
<1>4. /\ \A j \in 1..Len(w) : /\ OldIndex(i, j) \in 1..Len(s) /\ OldIndex(i, j) # i
                              /\ w[j] = s[OldIndex(i, j)]
      /\ \A j, k \in 1..Len(w) : /\ j < k => OldIndex(i, j) < OldIndex(i, k)
                                 /\ OldIndex(i, j) = OldIndex(i, k) => j = k
  BY <1>1, RemoveAtOrder
<1>5. \A k \in 1..Len(s) : k # i => \E j \in 1..Len(w) : w[j] = s[k]
  BY <1>1, RemoveAtKeeps
<1> QED
  BY <1>1, <1>2, <1>3, <1>4, <1>5

-----------------------------------------------------------------------------
(* Consequences of the invariant *)

\* Two requests on the ownership list have two tickers; in particular a request
\* is on it once.
LEMMA OwnedDistinct ==
  ASSUME Invariant, NEW i \in DOMAIN owned, NEW j \in DOMAIN owned, i # j
  PROVE  ticker[owned[i]] # ticker[owned[j]] /\ owned[i] # owned[j]
<1>1. i \in Int /\ j \in Int
  BY DEF Invariant, TypeOK
<1>2. /\ ticker[owned[i]] \in Int /\ ticker[owned[j]] \in Int
  BY ScannerAssumption DEF Invariant, TypeOK, ScannerAssumption
<1>3. CASE i < j
  BY <1>2, <1>3 DEF Invariant, OwnedOK
<1>4. CASE j < i
  BY <1>2, <1>4 DEF Invariant, OwnedOK
<1> QED
  BY <1>1, <1>3, <1>4

\* The tickers of two requests differ.
LEMMA RequestsDistinct ==
  ASSUME Invariant, NEW q \in Requests, NEW r \in Requests, q # r,
         state[q] # "none", state[r] # "none"
  PROVE  ticker[q] # ticker[r]
<1>1. PICK i \in DOMAIN owned : owned[i] = q
  BY DEF Invariant, OwnedOK
<1>2. PICK j \in DOMAIN owned : owned[j] = r
  BY DEF Invariant, OwnedOK
<1> QED
  BY <1>1, <1>2, OwnedDistinct

\* The first slot with the ticker of a transmitted request is that of the
\* request.
LEMMA FirstSlot ==
  ASSUME Invariant, NEW r \in Requests, state[r] = "READY_TO_RECEIVE_RESPONSE",
         NEW i \in DOMAIN active, ticker[active[i]] = ticker[r]
  PROVE  active[i] = r
<1>1. active[i] \in Requests /\ state[active[i]] # "none"
  BY DEF Invariant, TypeOK, SlotsOK
<1> QED
  BY <1>1, RequestsDistinct

\* While a request is alive the counter is not at its largest value.
LEMMA IdsIssued ==
  ASSUME Invariant, NEW r \in Requests, state[r] # "none"
  PROVE  prevId < MaxId
<1>1. PICK i \in DOMAIN owned : owned[i] = r
  BY DEF Invariant, OwnedOK
<1>2. prevId # MaxId
  BY <1>1 DEF Invariant, IdsOK
<1> QED
  BY <1>2, ScannerAssumption DEF Invariant, TypeOK, ScannerAssumption

-----------------------------------------------------------------------------
(* The initial state *)

LEMMA InitInvariant == Init => Invariant
<1> SUFFICES ASSUME Init PROVE Invariant
  OBVIOUS
<1> USE ScannerAssumption DEF ScannerAssumption, Init
<1>1. TypeOK
  BY DEF TypeOK, States, Phases, FirstPrevId
<1>2. SlotsOK
  BY DEF SlotsOK
<1>3. OwnedOK
  BY DEF OwnedOK
<1>4. IdsOK
  BY DEF IdsOK, Alive, FirstPrevId
<1>5. WireOK
  <2>1. IsFiniteSet({}) /\ Cardinality({}) = 0
    BY FS_EmptySet
  <2>2. {} \ {0} = {}
    OBVIOUS
  <2> QED
    BY <2>1, <2>2 DEF WireOK
<1>6. ScanOK
  BY DEF ScanOK
<1> QED
  BY <1>1, <1>2, <1>3, <1>4, <1>5, <1>6 DEF Invariant

-----------------------------------------------------------------------------
(* The steps *)

\* What the cancel message of an ending request does to ids, orphans and wire.
LEMMA CancelEffect ==
  ASSUME Invariant, NEW r \in Requests, Alive(r), SendCancel(ticker[r])
  PROVE  /\ prevId' \in 0..MaxId /\ prevId' # MaxId /\ prevId <= prevId'
         /\ orphans' \in Nat /\ orphans' <= 1
         /\ ticker[r] # 0 => prevId' = prevId /\ orphans' = orphans
         /\ wire' \subseteq wire
         /\ link = "up" /\ ticker[r] # 0 => ticker[r] \notin wire'
<1>1. state[r] # "none"
  BY DEF Alive
<1>2. prevId < MaxId /\ prevId \in 0..MaxId /\ MaxId \in Nat
  BY <1>1, IdsIssued, ScannerAssumption DEF Invariant, TypeOK, ScannerAssumption
<1>3. ticker[r] = 0 => prevId < MaxId - 1 /\ orphans = 0
  BY DEF Invariant, IdsOK
<1>4. orphans \in Nat /\ orphans <= 1
  BY DEF Invariant, IdsOK, TypeOK
<1>5. CASE ticker[r] = 0
  <2>1. NextId = prevId + 1 /\ prevId + 1 # 0
    BY <1>2 DEF NextId
  <2> QED
    BY <1>2, <1>3, <1>4, <1>5, <2>1 DEF SendCancel, CancelId
<1>6. CASE ticker[r] # 0
  BY <1>2, <1>4, <1>6 DEF SendCancel, CancelId
<1> QED
  BY <1>5, <1>6

\* Fewer subscriptions at TWS are within the limit as well.
LEMMA WireShrinks ==
  ASSUME WireOK, wire' \subseteq wire, MaxActive \in Nat
  PROVE  IsFiniteSet(wire') /\ Cardinality(wire' \ {0}) <= MaxActive
<1>1. IsFiniteSet(wire) /\ IsFiniteSet(wire \ {0})
  BY FS_Difference DEF WireOK
<1>2. IsFiniteSet(wire')
  BY <1>1, FS_Subset
<1>3. /\ IsFiniteSet(wire' \ {0})
      /\ Cardinality(wire' \ {0}) <= Cardinality(wire \ {0})
  BY <1>1, FS_Subset
<1>4. Cardinality(wire' \ {0}) \in Nat /\ Cardinality(wire \ {0}) \in Nat
  BY <1>1, <1>3, FS_CardinalityType
<1> QED
  BY <1>2, <1>3, <1>4 DEF WireOK

\* The head and the rest of the requests still to be tried.
LEMMA TodoTail ==
  ASSUME TypeOK, todo # <<>>
  PROVE  /\ Head(todo) \in Requests /\ Head(todo) = todo[1] /\ 1 \in DOMAIN todo
         /\ Tail(todo) \in Seq(Requests)
         /\ \A i \in DOMAIN Tail(todo) : i + 1 \in DOMAIN todo /\ Tail(todo)[i] = todo[i + 1]
         /\ \A i \in DOMAIN todo : i # 1 => i - 1 \in DOMAIN Tail(todo)
                                          /\ Tail(todo)[i - 1] = todo[i]
BY DEF TypeOK

\* Taking the head off keeps the scan in order; the head itself no longer waits,
\* or all slots are taken.
LEMMA ScanAdvances ==
  ASSUME Invariant, phase' = phase, todo # <<>>, todo' = Tail(todo), ticker' = ticker,
         Len(active) <= Len(active'), Len(active') \in Nat,
         \A r \in Requests : state'[r] = "WAIT_FOR_TRANSMIT" => state[r] = "WAIT_FOR_TRANSMIT",
         state'[Head(todo)] = "WAIT_FOR_TRANSMIT" => Full'
  PROVE  ScanOK'
<1> SUFFICES ASSUME phase = "tickle"
             PROVE  /\ \A i, j \in DOMAIN todo' : i < j => ticker'[todo'[i]] < ticker'[todo'[j]]
                    /\ \A r \in Requests : state'[r] = "WAIT_FOR_TRANSMIT"
                         => Full' \/ \E i \in DOMAIN todo' : todo'[i] = r
  BY DEF ScanOK
<1>0. todo \in Seq(Requests) /\ TypeOK
  BY DEF Invariant, TypeOK
<1>1. ASSUME NEW i \in DOMAIN todo', NEW j \in DOMAIN todo', i < j
      PROVE  ticker'[todo'[i]] < ticker'[todo'[j]]
  <2>1. /\ i + 1 \in DOMAIN todo /\ todo'[i] = todo[i + 1]
        /\ j + 1 \in DOMAIN todo /\ todo'[j] = todo[j + 1]
    BY <1>0, TodoTail
  <2>2. i + 1 < j + 1
    BY <1>0, <1>1, <2>1
  <2> QED
    BY <2>1, <2>2 DEF Invariant, ScanOK
<1>2. ASSUME NEW r \in Requests, state'[r] = "WAIT_FOR_TRANSMIT"
      PROVE  Full' \/ \E i \in DOMAIN todo' : todo'[i] = r
  <2>1. CASE Full
    BY <2>1, <1>0, ScannerAssumption DEF Full, TypeOK, ScannerAssumption
  <2>2. CASE ~Full
    <3>1. PICK i \in DOMAIN todo : todo[i] = r
      BY <1>2, <2>2 DEF Invariant, ScanOK
    <3>2. CASE i = 1
      BY <1>0, <1>2, <3>1, <3>2, TodoTail
    <3>3. CASE i # 1
      BY <1>0, <3>1, <3>3, TodoTail
    <3> QED
      BY <3>2, <3>3
  <2> QED
    BY <2>1, <2>2
<1> QED
  BY <1>1, <1>2

\* What every way to try a request has in common.
Trying(r) ==
  /\ phase \in {"exec", "tickle"}
  /\ todo # <<>> /\ r = Head(todo)
  /\ state[r] = "WAIT_FOR_TRANSMIT"
  /\ todo' = Tail(todo)
  /\ UNCHANGED <<owned, phase, link, drops>>

LEMMA HoldBackStep ==
  ASSUME Invariant, NEW r \in Requests, Trying(r), HoldBack(r)
  PROVE  Invariant'
<1> USE DEF Trying, HoldBack
<1>1. TypeOK'
  BY TodoTail DEF Invariant, TypeOK
<1>2. SlotsOK' /\ OwnedOK' /\ IdsOK' /\ WireOK'
  BY DEF Invariant, SlotsOK, OwnedOK, IdsOK, WireOK, Alive
<1>3. ScanOK'
  <2>1. Full' /\ Len(active) \in Nat
    BY DEF Full, Invariant, TypeOK
  <2> QED
    BY <2>1, ScanAdvances
<1> QED
  BY <1>1, <1>2, <1>3 DEF Invariant

LEMMA RefuseStep ==
  ASSUME Invariant, NEW r \in Requests, Trying(r), Refuse(r)
  PROVE  Invariant'
<1> USE DEF Trying, Refuse
<1>0. Alive(r) /\ TypeOK
  BY DEF Alive, Invariant
<1>1. /\ prevId' \in 0..MaxId /\ prevId' # MaxId /\ prevId <= prevId'
      /\ orphans' \in Nat /\ orphans' <= 1
      /\ ticker[r] # 0 => prevId' = prevId /\ orphans' = orphans
      /\ wire' \subseteq wire
      /\ link = "up" /\ ticker[r] # 0 => ticker[r] \notin wire'
  BY <1>0, CancelEffect
<1>2. TypeOK'
  BY <1>0, <1>1, TodoTail DEF TypeOK, States
<1>3. SlotsOK'
  BY <1>0 DEF Invariant, SlotsOK, TypeOK
<1>4. OwnedOK'
  <2>1. \A i \in DOMAIN owned : ticker[owned[i]] \in Int /\ ticker[owned[i]] <= prevId
    BY <1>0, ScannerAssumption DEF TypeOK, Invariant, OwnedOK, ScannerAssumption
  <2>2. prevId \in Int /\ prevId' \in Int
    BY <1>0, <1>1, ScannerAssumption DEF TypeOK, ScannerAssumption
  <2>3. \A i \in DOMAIN owned : ticker[owned[i]] <= prevId'
    BY <2>1, <2>2, <1>1
  <2> QED
    BY <1>0, <2>3 DEF Invariant, OwnedOK, TypeOK
<1>5. IdsOK'
  <2>1. ASSUME NEW q \in Requests, Alive(q)', ticker'[q] = 0
        PROVE  prevId' < MaxId - 1 /\ orphans' = 0
    <3>1. q # r /\ state[q] = state'[q]
      BY <1>0, <2>1 DEF Alive, TypeOK
    <3>2. ticker[q] = 0 /\ Alive(q)
      BY <2>1, <3>1 DEF Alive
    <3>3. state[q] # "none" /\ state[r] # "none"
      BY <3>2 DEF Alive
    <3>4. ticker[r] # 0
      BY <3>1, <3>2, <3>3, RequestsDistinct
    <3> QED
      BY <1>1, <3>2, <3>4 DEF Invariant, IdsOK
  <2> QED
    BY <1>1, <2>1 DEF IdsOK
<1>6. WireOK'
  <2>1. IsFiniteSet(wire') /\ Cardinality(wire' \ {0}) <= MaxActive
    BY <1>1, WireShrinks, ScannerAssumption DEF Invariant, ScannerAssumption
  <2>2. phase' # "down"
    OBVIOUS
  <2> QED
    BY <1>1, <2>1, <2>2 DEF Invariant, WireOK
<1>7. ScanOK'
  <2>1. state'[r] = "DESTRUCTION"
    BY <1>0 DEF TypeOK
  <2>2. \A q \in Requests : state'[q] = "WAIT_FOR_TRANSMIT" => state[q] = "WAIT_FOR_TRANSMIT"
    BY <1>0 DEF TypeOK
  <2>3. Len(active) \in Nat
    BY <1>0 DEF TypeOK
  <2> QED
    BY <2>1, <2>2, <2>3, ScanAdvances
<1> QED
  BY <1>2, <1>3, <1>4, <1>5, <1>6, <1>7 DEF Invariant

LEMMA TransmitStep ==
  ASSUME Invariant, NEW r \in Requests, Trying(r), Transmit(r)
  PROVE  Invariant'
<1> USE DEF Trying, Transmit
<1>0. TypeOK /\ Len(active) \in Nat /\ Len(active) < MaxActive
  BY ScannerAssumption DEF Invariant, TypeOK, Full, ScannerAssumption
<1>1. /\ active' \in Seq(Requests) /\ Len(active') = Len(active) + 1
      /\ \A i \in DOMAIN active : i \in DOMAIN active' /\ active'[i] = active[i]
      /\ Len(active) + 1 \in DOMAIN active' /\ active'[Len(active) + 1] = r
      /\ \A i \in DOMAIN active' : i \in DOMAIN active \/ i = Len(active) + 1
  BY <1>0 DEF TypeOK
<1>2. TypeOK'
  <2>1. wire' \subseteq 0..MaxId
    BY <1>0 DEF TypeOK
  <2> QED
    BY <1>0, <1>1, <2>1, TodoTail DEF TypeOK, States
<1>3. SlotsOK'
  <2>1. \A i \in DOMAIN active : active[i] # r
    BY DEF Invariant, SlotsOK
  <2>2. \A i, j \in DOMAIN active' : active'[i] = active'[j] => i = j
    BY <1>1, <2>1 DEF Invariant, SlotsOK
  <2>3. \A i \in DOMAIN active' : state'[active'[i]] = "READY_TO_RECEIVE_RESPONSE"
    BY <1>0, <1>1 DEF Invariant, SlotsOK, TypeOK
  <2>4. ASSUME NEW q \in Requests, state'[q] = "READY_TO_RECEIVE_RESPONSE"
        PROVE  \E i \in DOMAIN active' : active'[i] = q
    BY <1>0, <1>1, <2>4 DEF Invariant, SlotsOK, TypeOK
  <2>5. Len(active') <= MaxActive
    BY <1>0, <1>1, ScannerAssumption DEF ScannerAssumption
  <2> QED
    BY <2>2, <2>3, <2>4, <2>5 DEF SlotsOK
<1>4. OwnedOK'
  BY <1>0 DEF Invariant, OwnedOK, TypeOK
<1>5. IdsOK'
  BY <1>0 DEF Invariant, IdsOK, TypeOK, Alive
<1>6. WireOK'
  <2>1. IsFiniteSet(wire')
    BY FS_AddElement DEF Invariant, WireOK
  <2>2. ASSUME NEW t \in wire' \ {0}
        PROVE  \E i \in DOMAIN active' : ticker'[active'[i]] = t
    BY <1>1, <2>2 DEF Invariant, WireOK
  <2>3. Cardinality(wire' \ {0}) <= MaxActive
    <3> DEFINE held == {ticker[active'[i]] : i \in 1..Len(active')}
    <3>1. wire' \ {0} \subseteq held
      BY <1>1, <2>2 DEF TypeOK
    <3>2. IsFiniteSet(1..Len(active')) /\ Cardinality(1..Len(active')) = Len(active')
      BY <1>0, <1>1, FS_Interval
    <3>3. IsFiniteSet(held) /\ Cardinality(held) <= Len(active')
      <4> DEFINE f == [i \in 1..Len(active') |-> ticker[active'[i]]]
      <4>1. f \in Surjection(1..Len(active'), held)
        BY DEF Surjection
      <4> HIDE DEF f, held
      <4>2. IsFiniteSet(held) /\ Cardinality(held) <= Cardinality(1..Len(active'))
        BY <4>1, <3>2, FS_Surjection
      <4> QED
        BY <4>2, <3>2
    <3>4. IsFiniteSet(wire' \ {0}) /\ Cardinality(wire' \ {0}) <= Cardinality(held)
      BY <3>1, <3>3, FS_Subset
    <3>5. Cardinality(wire' \ {0}) \in Nat /\ Cardinality(held) \in Nat
      BY <3>3, <3>4, FS_CardinalityType
    <3>6. Len(active') <= MaxActive /\ Len(active') \in Nat /\ MaxActive \in Nat
      BY <1>0, <1>1, ScannerAssumption DEF ScannerAssumption
    <3> HIDE DEF held
    <3> QED
      BY <3>3, <3>4, <3>5, <3>6
  <2> QED
    BY <2>1, <2>2, <2>3 DEF WireOK
<1>7. ScanOK'
  <2>1. state'[r] = "READY_TO_RECEIVE_RESPONSE"
    BY <1>0 DEF TypeOK
  <2>2. \A q \in Requests : state'[q] = "WAIT_FOR_TRANSMIT" => state[q] = "WAIT_FOR_TRANSMIT"
    BY <1>0 DEF TypeOK
  <2> QED
    BY <1>0, <1>1, <2>1, <2>2, ScanAdvances
<1> QED
  BY <1>2, <1>3, <1>4, <1>5, <1>6, <1>7 DEF Invariant

LEMMA SubscribeStep ==
  ASSUME Invariant, NEW r \in Requests, Subscribe(r)
  PROVE  Invariant'
<1> USE DEF Subscribe
<1>0. /\ TypeOK /\ MaxId \in Nat /\ MaxId > 2 /\ prevId \in 0..MaxId
      /\ Len(owned) \in Nat /\ Len(active) \in Nat
  BY ScannerAssumption DEF Invariant, TypeOK, ScannerAssumption
<1>1. /\ NextId \in 0..MaxId /\ NextId < MaxId - 1
      /\ NextId = 0 <=> prevId = MaxId
      /\ prevId # MaxId => prevId < NextId
  BY <1>0 DEF IdsLeft, NextId
<1>2. /\ owned' \in Seq(Requests) /\ Len(owned') = Len(owned) + 1
      /\ \A i \in DOMAIN owned : i \in DOMAIN owned' /\ owned'[i] = owned[i]
      /\ Len(owned) + 1 \in DOMAIN owned' /\ owned'[Len(owned) + 1] = r
      /\ \A i \in DOMAIN owned' : i \in DOMAIN owned \/ i = Len(owned) + 1
  BY <1>0 DEF TypeOK
<1>3. /\ state' \in [Requests -> States] /\ state'[r] = "WAIT_FOR_TRANSMIT"
      /\ \A q \in Requests : q # r => state'[q] = state[q] /\ ticker'[q] = ticker[q]
      /\ ticker' \in [Requests -> 0..MaxId] /\ ticker'[r] = NextId
  BY <1>0, <1>1 DEF TypeOK, States
<1>4. TypeOK'
  <2>1. todo' \in Seq(Requests)
    OBVIOUS
  <2> QED
    BY <1>0, <1>1, <1>2, <1>3, <2>1 DEF TypeOK, Phases
<1>5. SlotsOK'
  <2>1. \A i \in DOMAIN active : active[i] \in Requests /\ active[i] # r
    BY <1>0 DEF Invariant, SlotsOK, TypeOK
  <2>2. \A i \in DOMAIN active : state'[active[i]] = "READY_TO_RECEIVE_RESPONSE"
    BY <1>3, <2>1 DEF Invariant, SlotsOK
  <2> QED
    BY <1>3, <2>2 DEF Invariant, SlotsOK
<1>6. OwnedOK'
  <2>1. \A i \in DOMAIN owned : owned[i] \in Requests /\ owned[i] # r
    BY <1>0 DEF Invariant, OwnedOK, TypeOK
  <2>2. ASSUME NEW i \in DOMAIN owned
        PROVE  ticker'[owned'[i]] = ticker[owned[i]] /\ ticker[owned[i]] < NextId
    <3>1. ticker'[owned'[i]] = ticker[owned[i]]
      BY <1>2, <1>3, <2>1
    <3>2. prevId # MaxId
      BY <2>2 DEF Invariant, IdsOK
    <3>3. ticker[owned[i]] <= prevId /\ ticker[owned[i]] \in 0..MaxId
      BY <2>1, <1>0 DEF Invariant, OwnedOK, TypeOK
    <3> QED
      BY <1>0, <1>1, <3>1, <3>2, <3>3
  <2>3. \A i \in DOMAIN owned' : state'[owned'[i]] # "none"
    BY <1>2, <1>3, <2>1 DEF Invariant, OwnedOK
  <2>4. ASSUME NEW q \in Requests, state'[q] # "none"
        PROVE  \E i \in DOMAIN owned' : owned'[i] = q
    BY <1>2, <1>3, <2>4 DEF Invariant, OwnedOK
  <2>5. ASSUME NEW i \in DOMAIN owned', NEW j \in DOMAIN owned', i < j
        PROVE  ticker'[owned'[i]] < ticker'[owned'[j]]
    <3>1. i \in DOMAIN owned
      BY <1>0, <1>2, <2>5
    <3>2. CASE j \in DOMAIN owned
      BY <2>2, <2>5, <3>1, <3>2 DEF Invariant, OwnedOK
    <3>3. CASE j = Len(owned) + 1
      BY <1>2, <1>3, <2>2, <3>1, <3>3
    <3> QED
      BY <1>2, <3>2, <3>3
  <2>6. \A i \in DOMAIN owned' : ticker'[owned'[i]] <= prevId'
    <3> TAKE i \in DOMAIN owned'
    <3>1. CASE i \in DOMAIN owned
      <4>1. ticker[owned[i]] \in 0..MaxId
        BY <1>0, <2>1, <3>1 DEF TypeOK
      <4> QED
        BY <1>0, <1>1, <2>2, <3>1, <4>1
    <3>2. CASE i = Len(owned) + 1
      BY <1>0, <1>1, <1>2, <1>3, <3>2
    <3> QED
      BY <1>2, <3>1, <3>2
  <2> QED
    BY <2>3, <2>4, <2>5, <2>6 DEF OwnedOK
<1>7. IdsOK'
  <2>1. prevId' # MaxId /\ prevId' < MaxId - 1
    BY <1>0, <1>1
  <2>2. ASSUME NEW q \in Requests, Alive(q)', ticker'[q] = 0 PROVE orphans' = 0
    <3>1. CASE q = r
      BY <1>1, <1>3, <2>2, <3>1 DEF Invariant, IdsOK
    <3>2. CASE q # r
      BY <1>3, <2>2, <3>2 DEF Invariant, IdsOK, Alive
    <3> QED
      BY <3>1, <3>2
  <2> QED
    BY <2>1, <2>2 DEF Invariant, IdsOK
<1>8. WireOK'
  <2>1. \A i \in DOMAIN active : ticker'[active[i]] = ticker[active[i]]
    BY <1>0, <1>3 DEF Invariant, SlotsOK, TypeOK
  <2> QED
    BY <2>1 DEF Invariant, WireOK
<1>9. ScanOK'
  BY DEF ScanOK
<1> QED
  BY <1>4, <1>5, <1>6, <1>7, <1>8, <1>9 DEF Invariant

LEMMA ReportEndStep ==
  ASSUME Invariant, NEW r \in Requests, ReportEnd(r)
  PROVE  Invariant'
<1> USE DEF ReportEnd, GiveUpSlot
<1>0. TypeOK /\ Alive(r) /\ state[r] = "READY_TO_RECEIVE_RESPONSE" /\ Len(active) \in Nat
  BY DEF Invariant, TypeOK, Alive, Ready
<1>1. /\ prevId' \in 0..MaxId /\ prevId' # MaxId /\ prevId <= prevId'
      /\ orphans' \in Nat /\ orphans' <= 1
      /\ ticker[r] # 0 => prevId' = prevId /\ orphans' = orphans
      /\ wire' \subseteq wire
      /\ link = "up" /\ ticker[r] # 0 => ticker[r] \notin wire'
  BY <1>0, CancelEffect
<1>2. PICK i \in DOMAIN active : active' = RemoveAt(active, i) /\ active[i] = r
  BY <1>0, FirstSlot
<1>3. i \in 1..Len(active) /\ active \in Seq(Requests)
  BY <1>0 DEF TypeOK
<1>4. active' \in Seq(Requests) /\ Len(active') = Len(active) - 1
  BY <1>2, <1>3, Removed
<1>5. /\ \A j \in DOMAIN active' : /\ OldIndex(i, j) \in DOMAIN active
                                  /\ OldIndex(i, j) # i
                                  /\ active'[j] = active[OldIndex(i, j)]
      /\ \A j, k \in DOMAIN active' : OldIndex(i, j) = OldIndex(i, k) => j = k
  <2> HIDE DEF ReportEnd, GiveUpSlot
  <2> QED
    BY <1>2, <1>3, Removed
<1>6. \A k \in DOMAIN active : k # i => \E j \in DOMAIN active' : active'[j] = active[k]
  <2> HIDE DEF ReportEnd, GiveUpSlot
  <2> QED
    BY <1>2, <1>3, Removed
<1>7. /\ state' \in [Requests -> States] /\ state'[r] = "DESTRUCTION"
      /\ \A q \in Requests : q # r => state'[q] = state[q]
  BY <1>0 DEF TypeOK, States
<1>8. TypeOK'
  BY <1>0, <1>1, <1>4, <1>7 DEF TypeOK, Phases
<1>9. SlotsOK'
  <2>1. \A j, k \in DOMAIN active' : active'[j] = active'[k] => j = k
    BY <1>5 DEF Invariant, SlotsOK
  <2>2. \A j \in DOMAIN active' : active'[j] \in Requests /\ active'[j] # r
    BY <1>2, <1>3, <1>5 DEF Invariant, SlotsOK
  <2>3. \A j \in DOMAIN active' : state'[active'[j]] = "READY_TO_RECEIVE_RESPONSE"
    BY <1>5, <1>7, <2>2 DEF Invariant, SlotsOK
  <2>4. ASSUME NEW q \in Requests, state'[q] = "READY_TO_RECEIVE_RESPONSE"
        PROVE  \E j \in DOMAIN active' : active'[j] = q
    <3>1. q # r /\ state[q] = "READY_TO_RECEIVE_RESPONSE"
      BY <1>7, <2>4
    <3>2. PICK k \in DOMAIN active : active[k] = q
      BY <3>1 DEF Invariant, SlotsOK
    <3> QED
      BY <1>2, <1>6, <3>1, <3>2
  <2>5. Len(active') <= MaxActive
    BY <1>0, <1>4, ScannerAssumption DEF Invariant, SlotsOK, ScannerAssumption
  <2> QED
    BY <2>1, <2>3, <2>4, <2>5 DEF SlotsOK
<1>10. OwnedOK'
  <2>1. \A k \in DOMAIN owned : owned[k] \in Requests /\ ticker[owned[k]] \in Int
    BY <1>0, ScannerAssumption DEF TypeOK, ScannerAssumption
  <2>2. prevId \in Int /\ prevId' \in Int
    BY <1>0, <1>1, ScannerAssumption DEF TypeOK, ScannerAssumption
  <2>3. \A k \in DOMAIN owned : ticker[owned[k]] <= prevId'
    BY <1>1, <2>1, <2>2 DEF Invariant, OwnedOK
  <2> QED
    BY <1>0, <1>7, <2>1, <2>3 DEF Invariant, OwnedOK
<1>11. IdsOK'
  <2>1. ASSUME NEW q \in Requests, Alive(q)', ticker'[q] = 0
        PROVE  prevId' < MaxId - 1 /\ orphans' = 0
    <3>1. q # r /\ state[q] = state'[q]
      BY <1>7, <2>1 DEF Alive
    <3>2. ticker[q] = 0 /\ Alive(q)
      BY <2>1, <3>1 DEF Alive
    <3>3. state[q] # "none" /\ state[r] # "none"
      BY <1>0, <3>2 DEF Alive
    <3>4. ticker[r] # 0
      BY <3>1, <3>2, <3>3, RequestsDistinct
    <3> QED
      BY <1>1, <3>2, <3>4 DEF Invariant, IdsOK
  <2> QED
    BY <1>1, <2>1 DEF IdsOK
<1>12. WireOK'
  <2>1. IsFiniteSet(wire') /\ Cardinality(wire' \ {0}) <= MaxActive
    BY <1>1, WireShrinks, ScannerAssumption DEF Invariant, ScannerAssumption
  <2>2. ASSUME link = "up", NEW t \in wire' \ {0}
        PROVE  \E j \in DOMAIN active' : ticker'[active'[j]] = t
    <3>1. PICK k \in DOMAIN active : ticker[active[k]] = t
      BY <1>1, <2>2 DEF Invariant, WireOK
    <3>2. k # i
      BY <1>1, <1>2, <2>2, <3>1
    <3> QED
      BY <1>6, <3>1, <3>2
  <2> QED
    BY <2>1, <2>2 DEF WireOK
<1>13. ScanOK'
  BY DEF ScanOK
<1> QED
  BY <1>8, <1>9, <1>10, <1>11, <1>12, <1>13 DEF Invariant

LEMMA DeleteStep ==
  ASSUME Invariant, NEW i \in DOMAIN owned, Delete(i)
  PROVE  Invariant'
<1> USE DEF Delete
<1> DEFINE r == owned[i]
<1>0. TypeOK /\ r \in Requests /\ i \in 1..Len(owned) /\ owned \in Seq(Requests)
  BY DEF Invariant, TypeOK
<1>1. owned' = RemoveAt(owned, i) /\ i \in DOMAIN owned
  OBVIOUS
<1>2. /\ owned' \in Seq(Requests) /\ Len(owned') = Len(owned) - 1
      /\ DOMAIN owned' = 1..Len(owned') /\ DOMAIN owned = 1..Len(owned)
      /\ \A j \in DOMAIN owned' : /\ OldIndex(i, j) \in DOMAIN owned
                                 /\ OldIndex(i, j) # i
                                 /\ owned'[j] = owned[OldIndex(i, j)]
      /\ \A j, k \in DOMAIN owned' : j < k => OldIndex(i, j) < OldIndex(i, k)
  <2> HIDE DEF Delete
  <2> QED
    BY <1>0, <1>1, Removed
<1>3. \A k \in DOMAIN owned : k # i => \E j \in DOMAIN owned' : owned'[j] = owned[k]
  <2> HIDE DEF Delete
  <2> QED
    BY <1>0, <1>1, Removed
<1>4. /\ state' \in [Requests -> States] /\ state'[r] = "none"
      /\ \A q \in Requests : q # r => state'[q] = state[q] /\ ticker'[q] = ticker[q]
      /\ ticker' \in [Requests -> 0..MaxId]
  BY <1>0, ScannerAssumption DEF TypeOK, States, ScannerAssumption
<1>5. \A j \in DOMAIN owned' : owned'[j] \in Requests /\ owned'[j] # r
  <2> HIDE DEF Delete
  <2> TAKE j \in DOMAIN owned'
  <2>1. /\ OldIndex(i, j) \in DOMAIN owned /\ OldIndex(i, j) # i
        /\ owned'[j] = owned[OldIndex(i, j)]
    BY <1>2
  <2>2. owned[OldIndex(i, j)] # owned[i]
    BY <1>1, <2>1, OwnedDistinct
  <2>3. owned'[j] \in Requests
    BY <1>0, <2>1
  <2> QED
    BY <2>1, <2>2, <2>3
<1>6. \A j \in DOMAIN active : active[j] \in Requests /\ active[j] # r
  BY <1>0 DEF Invariant, SlotsOK, TypeOK
<1>7. TypeOK'
  BY <1>0, <1>2, <1>4 DEF TypeOK
<1>8. SlotsOK'
  BY <1>4, <1>6 DEF Invariant, SlotsOK
<1>9. OwnedOK'
  <2>1. \A j \in DOMAIN owned' : state'[owned'[j]] # "none"
    BY <1>2, <1>4, <1>5 DEF Invariant, OwnedOK
  <2>2. ASSUME NEW q \in Requests, state'[q] # "none"
        PROVE  \E j \in DOMAIN owned' : owned'[j] = q
    <3>1. q # r /\ state[q] # "none"
      BY <1>4, <2>2
    <3>2. PICK k \in DOMAIN owned : owned[k] = q
      BY <3>1 DEF Invariant, OwnedOK
    <3> QED
      BY <1>3, <3>1, <3>2
  <2>3. \A j \in DOMAIN owned' : ticker'[owned'[j]] = ticker[owned[OldIndex(i, j)]]
    BY <1>2, <1>4, <1>5
  <2>4. \A j, k \in DOMAIN owned' : j < k => ticker'[owned'[j]] < ticker'[owned'[k]]
    BY <1>2, <2>3 DEF Invariant, OwnedOK
  <2>5. \A j \in DOMAIN owned' : ticker'[owned'[j]] <= prevId'
    BY <1>2, <2>3 DEF Invariant, OwnedOK
  <2> QED
    BY <2>1, <2>2, <2>4, <2>5 DEF OwnedOK
<1>10. IdsOK'
  <2>1. prevId # MaxId
    BY <1>0 DEF Invariant, IdsOK
  <2>2. ASSUME NEW q \in Requests, Alive(q)', ticker'[q] = 0
        PROVE  prevId' < MaxId - 1 /\ orphans' = 0
    <3>1. q # r
      BY <1>4, <2>2 DEF Alive
    <3> QED
      BY <1>4, <2>2, <3>1 DEF Invariant, IdsOK, Alive
  <2> QED
    BY <2>1, <2>2 DEF Invariant, IdsOK
<1>11. WireOK'
  <2>1. \A j \in DOMAIN active : ticker'[active[j]] = ticker[active[j]]
    BY <1>4, <1>6
  <2> QED
    BY <2>1 DEF Invariant, WireOK
<1>12. ScanOK'
  BY DEF ScanOK
<1> QED
  BY <1>7, <1>8, <1>9, <1>10, <1>11, <1>12 DEF Invariant

LEMMA AnnounceStep ==
  ASSUME Invariant, NEW n \in Announced, Announce(n)
  PROVE  Invariant'
<1> USE DEF Announce
<1>0. /\ n \in Nat /\ n < MaxId - 2 /\ MaxId \in Nat /\ prevId \in 0..MaxId
      /\ prevId' \in 0..MaxId /\ prevId <= prevId'
      /\ prevId' = MaxId => prevId = MaxId
      /\ prevId < MaxId - 1 => prevId' < MaxId - 1
  BY ScannerAssumption DEF Invariant, TypeOK, ScannerAssumption
<1>1. TypeOK'
  BY <1>0 DEF Invariant, TypeOK, Phases
<1>2. OwnedOK'
  <2>1. \A i \in DOMAIN owned : ticker[owned[i]] \in 0..MaxId /\ ticker[owned[i]] <= prevId
    BY DEF Invariant, OwnedOK, TypeOK
  <2>2. \A i \in DOMAIN owned : ticker[owned[i]] <= prevId'
    BY <1>0, <2>1
  <2> QED
    BY <2>2 DEF Invariant, OwnedOK
<1>3. IdsOK'
  BY <1>0 DEF Invariant, IdsOK, Alive
<1>4. SlotsOK' /\ WireOK' /\ ScanOK'
  BY DEF Invariant, SlotsOK, WireOK, ScanOK
<1> QED
  BY <1>1, <1>2, <1>3, <1>4 DEF Invariant

\* The steps that leave requests, slots and ids alone.
Moving ==
  \/ SkipNext \/ StartTickle \/ TickleDone \/ ExecDone \/ TopDone
  \/ OtherReport \/ Lose \/ Disconnect \/ Connect \/ UNCHANGED vars

LEMMA MovingStep ==
  ASSUME Invariant, Moving
  PROVE  Invariant'
<1>1. UNCHANGED <<state, ticker, owned, active, prevId, orphans>>
  BY DEF Moving, SkipNext, StartTickle, TickleDone, ExecDone, TopDone,
         OtherReport, Lose, Disconnect, Connect, vars
<1>2. SlotsOK' /\ OwnedOK' /\ IdsOK'
  BY <1>1 DEF Invariant, SlotsOK, OwnedOK, IdsOK, Alive
<1>3. CASE SkipNext
  <2>1. TypeOK'
    BY <1>3, TodoTail DEF SkipNext, Invariant, TypeOK
  <2>2. WireOK'
    BY <1>3 DEF SkipNext, Invariant, WireOK
  <2>3. ScanOK'
    BY <1>3, ScanAdvances DEF SkipNext, Invariant, TypeOK
  <2> QED
    BY <1>2, <2>1, <2>2, <2>3 DEF Invariant
<1>4. CASE StartTickle
  <2>1. TypeOK'
    BY <1>4 DEF StartTickle, Invariant, TypeOK, Phases
  <2>2. WireOK'
    BY <1>4 DEF StartTickle, Invariant, WireOK
  <2>3. ScanOK'
    BY <1>4 DEF StartTickle, Invariant, ScanOK, OwnedOK
  <2> QED
    BY <1>2, <2>1, <2>2, <2>3 DEF Invariant
<1>5. CASE TickleDone \/ ExecDone \/ TopDone \/ OtherReport
  <2>1. TypeOK'
    BY <1>5 DEF TickleDone, ExecDone, TopDone, OtherReport, Invariant, TypeOK, Phases
  <2>2. WireOK'
    BY <1>5 DEF TickleDone, ExecDone, TopDone, OtherReport, Invariant, WireOK
  <2>3. ScanOK'
    BY <1>5 DEF TickleDone, ExecDone, TopDone, OtherReport, ScanOK
  <2> QED
    BY <1>2, <2>1, <2>2, <2>3 DEF Invariant
<1>6. CASE Lose
  <2>1. TypeOK'
    BY <1>6, ScannerAssumption DEF Lose, Invariant, TypeOK, ScannerAssumption
  <2>2. WireOK' /\ ScanOK'
    BY <1>6 DEF Lose, Invariant, WireOK, ScanOK, Full
  <2> QED
    BY <1>2, <2>1, <2>2 DEF Invariant
<1>7. CASE Disconnect
  <2>1. TypeOK' /\ ScanOK'
    BY <1>7 DEF Disconnect, Invariant, TypeOK, ScanOK, Phases
  <2>2. WireOK'
    <3>1. wire' \subseteq wire /\ wire' = {}
      BY <1>7 DEF Disconnect
    <3>2. IsFiniteSet(wire') /\ Cardinality(wire' \ {0}) <= MaxActive
      BY <3>1, WireShrinks, ScannerAssumption DEF Invariant, ScannerAssumption
    <3> QED
      BY <3>1, <3>2 DEF WireOK
  <2> QED
    BY <1>2, <2>1, <2>2 DEF Invariant
<1>8. CASE Connect
  <2>1. TypeOK' /\ ScanOK'
    BY <1>8 DEF Connect, Invariant, TypeOK, ScanOK, Phases
  <2>2. WireOK'
    BY <1>8 DEF Connect, Invariant, WireOK
  <2> QED
    BY <1>2, <2>1, <2>2 DEF Invariant
<1>9. CASE UNCHANGED vars
  BY <1>2, <1>9 DEF vars, Invariant, TypeOK, WireOK, ScanOK, Full
<1> QED
  BY <1>3, <1>4, <1>5, <1>6, <1>7, <1>8, <1>9 DEF Moving

LEMMA InvariantStep == Invariant /\ [Next]_vars => Invariant'
<1> SUFFICES ASSUME Invariant, [Next]_vars PROVE Invariant'
  OBVIOUS
<1>1. CASE TryNext
  <2>1. Head(todo) \in Requests /\ Trying(Head(todo))
    BY <1>1, TodoTail DEF TryNext, Trying, Invariant
  <2> QED
    BY <1>1, <2>1, HoldBackStep, TransmitStep, RefuseStep DEF TryNext
<1>2. ASSUME NEW r \in Requests, Subscribe(r) PROVE Invariant'
  BY <1>2, SubscribeStep
<1>3. ASSUME NEW r \in Requests, ReportEnd(r) PROVE Invariant'
  BY <1>3, ReportEndStep
<1>4. ASSUME NEW i \in DOMAIN owned, Delete(i) PROVE Invariant'
  BY <1>4, DeleteStep
<1>5. ASSUME NEW n \in Announced, Announce(n) PROVE Invariant'
  BY <1>5, AnnounceStep
<1>6. CASE Moving
  BY <1>6, MovingStep
<1> QED
  BY <1>1, <1>2, <1>3, <1>4, <1>5, <1>6 DEF Next, Loop, Callback, Moving

-----------------------------------------------------------------------------
(* The theorems *)

LEMMA InvariantAlways == Spec => []Invariant
<1>1. Invariant /\ [Next]_vars => Invariant'
  BY InvariantStep
<1> QED
  BY InitInvariant, <1>1, PTL DEF Spec

\* The variables keep their types.
THEOREM ScannerTypes == Spec => []TypeOK
<1>1. Invariant => TypeOK
  BY DEF Invariant
<1> QED
  BY InvariantAlways, <1>1, PTL

\* Slots and transmitted requests correspond one to one, so that the limiter
\* never holds a pointer to a request that was deleted.
THEOREM SlotsSafe == Spec => []SlotsAreTransmitted
<1>1. Invariant => SlotsAreTransmitted
  <2> SUFFICES ASSUME Invariant PROVE SlotsAreTransmitted
    OBVIOUS
  <2>1. IsInjective(active)
    BY DEF Invariant, SlotsOK, IsInjective
  <2>2. Range(active) = Ready
    BY DEF Invariant, SlotsOK, TypeOK, Range, Ready
  <2> QED
    BY <2>1, <2>2 DEF SlotsAreTransmitted
<1> QED
  BY InvariantAlways, <1>1, PTL

\* TWS never runs more subscriptions than the limit, the one with ticker 0 not
\* counted, and what it runs on a live connection holds a slot.
THEOREM LimitKept == Spec => [](WithinTwsLimitButZero /\ RunningHoldsSlot)
<1>1. Invariant => WithinTwsLimitButZero /\ RunningHoldsSlot
  BY DEF Invariant, WireOK, WithinTwsLimitButZero, RunningHoldsSlot
<1> QED
  BY InvariantAlways, <1>1, PTL

\* No two requests share a ticker, and one cancel message at most is orphaned.
THEOREM IdsUnique == Spec => [](TickersUnique /\ OneOrphan)
<1>1. Invariant => TickersUnique
  BY RequestsDistinct DEF TickersUnique
<1>2. Invariant => OneOrphan
  BY DEF Invariant, IdsOK, OneOrphan
<1> QED
  BY InvariantAlways, <1>1, <1>2, PTL

\* When a scan of the postponed requests is through, none of them waits while a
\* slot is free.
THEOREM SlotsUsed == Spec => []NoIdleSlot
<1>1. Invariant => NoIdleSlot
  BY DEF Invariant, ScanOK, NoIdleSlot, Parked
<1> QED
  BY InvariantAlways, <1>1, PTL

\* Postponed requests are transmitted in the order they were made in.
THEOREM ServedInOrder == Spec => OldestFirst
<1> DEFINE Older == \A q, r \in Requests :
                      phase = "tickle" /\ {q, r} \subseteq Parked /\ r \in Ready'
                        => ticker[r] <= ticker[q]
<1>1. Invariant /\ [Next]_vars => [Older]_vars
  <2> SUFFICES ASSUME Invariant, [Next]_vars,
                      NEW q \in Requests, NEW r \in Requests,
                      phase = "tickle", q \in Parked, r \in Parked, r \in Ready'
               PROVE  ticker[r] <= ticker[q]
    BY DEF vars
  <2>1. TypeOK /\ state[r] = "WAIT_FOR_TRANSMIT" /\ state'[r] = "READY_TO_RECEIVE_RESPONSE"
    BY DEF Invariant, Parked, Ready
  <2>2. TryNext
    BY <2>1 DEF Next, Loop, Callback, TryNext, SkipNext, Delete, StartTickle, TickleDone,
         ExecDone, TopDone, Disconnect, Connect, Subscribe, ReportEnd, Announce,
         OtherReport, Lose, vars
  <2>3. r = Head(todo) /\ ~Full
    BY <2>1, <2>2 DEF TryNext, HoldBack, Transmit, Refuse, TypeOK
  <2>4. todo # <<>> /\ r = todo[1] /\ 1 \in DOMAIN todo
    BY <2>1, <2>2, <2>3, TodoTail DEF TryNext
  <2>5. PICK k \in DOMAIN todo : todo[k] = q
    BY <2>3 DEF Invariant, ScanOK, Parked
  <2>6. k \in Nat /\ k >= 1 /\ ticker[r] \in Int
    BY <2>1, ScannerAssumption DEF TypeOK, ScannerAssumption
  <2>7. k > 1 => ticker[r] < ticker[q]
    BY <2>4, <2>5, <2>6 DEF Invariant, ScanOK
  <2>8. ticker[q] \in Int
    BY <2>1, ScannerAssumption DEF TypeOK, ScannerAssumption
  <2> QED
    BY <2>4, <2>5, <2>6, <2>7, <2>8
<1> QED
  BY InvariantAlways, <1>1, PTL DEF Spec, OldestFirst

-----------------------------------------------------------------------------
(* The refinement *)

\* A request that is made is tried before anything else happens to it.
ExecOK ==
  phase = "exec" => /\ \A i \in DOMAIN todo : i = 1 /\ state[todo[i]] = "WAIT_FOR_TRANSMIT"

Allocated == {r \in Requests : state[r] # "none"}

LEMMA ExecStep ==
  ASSUME Invariant, ExecOK, [Next]_vars
  PROVE  ExecOK'
<1> USE DEF Invariant
<1>1. CASE TryNext \/ SkipNext
  <2>1. /\ phase' = phase /\ todo' = Tail(todo) /\ todo # <<>>
    BY <1>1 DEF TryNext, SkipNext
  <2>2. \A i \in DOMAIN todo' : i \in Nat /\ i >= 1 /\ i + 1 \in DOMAIN todo
    BY <2>1, TodoTail DEF TypeOK
  <2>3. phase = "exec" => \A i \in DOMAIN todo' : FALSE
    BY <2>2 DEF ExecOK
  <2> QED
    BY <2>1, <2>3 DEF ExecOK
<1>2. ASSUME NEW r \in Requests, Subscribe(r) PROVE ExecOK'
  BY <1>2 DEF Subscribe, ExecOK, TypeOK
<1>3. CASE UNCHANGED vars \/ Lose
  BY <1>3 DEF vars, Lose, ExecOK
<1>4. CASE \/ \E i \in DOMAIN owned : Delete(i)
           \/ \E r \in Requests : ReportEnd(r)
           \/ \E n \in Announced : Announce(n)
           \/ StartTickle \/ TickleDone \/ ExecDone \/ TopDone \/ OtherReport
           \/ Disconnect \/ Connect
  <2>1. phase' # "exec"
    BY <1>4 DEF Delete, ReportEnd, Announce, StartTickle, TickleDone, ExecDone, TopDone,
         OtherReport, Disconnect, Connect
  <2> QED
    BY <2>1 DEF ExecOK
<1> QED
  BY <1>1, <1>2, <1>3, <1>4 DEF Next, Loop, Callback

\* Tickers stand for requests: one that leaves a set takes its ticker along, and
\* leaves the others' where they are.
LEMMA OneLess ==
  ASSUME Invariant, NEW S \in SUBSET Allocated, NEW r \in Allocated
  PROVE  Tickers(S \ {r}) = Tickers(S) \ {ticker[r]}
BY RequestsDistinct DEF Tickers, Allocated

LEMMA TickerOfOne ==
  ASSUME Invariant, NEW r \in Allocated
  PROVE  /\ ticker[r] \in Nat /\ ticker[r] <= prevId /\ prevId < MaxId
         /\ NextId = prevId + 1 /\ NextId \in Nat
<1>1. PICK i \in DOMAIN owned : owned[i] = r
  BY DEF Invariant, OwnedOK, Allocated
<1>2. ticker[r] <= prevId /\ prevId < MaxId
  BY <1>1, IdsIssued DEF Invariant, OwnedOK, Allocated
<1> QED
  BY <1>2, ScannerAssumption DEF Invariant, TypeOK, ScannerAssumption, NextId, Allocated

\* A slot is free in the service just when the limiter has one.
LEMMA SlotsCounted ==
  ASSUME Invariant
  PROVE  Service!SlotFree <=> ~Full
<1> DEFINE n == Len(active)
           T == Running \cup Leftover
           f == [i \in 1..n |-> ticker[active[i]]]
<1>1. /\ n \in Nat /\ DOMAIN active = 1..n /\ MaxActive \in Nat
      /\ \A i \in 1..n : active[i] \in Requests
                         /\ state[active[i]] = "READY_TO_RECEIVE_RESPONSE"
  BY ScannerAssumption DEF Invariant, TypeOK, SlotsOK, ScannerAssumption
<1>2. T = Tickers(Ready)
  <2> DEFINE on == {r \in Ready : ticker[r] \in wire}
             off == {r \in Ready : ticker[r] \notin wire}
  <2>1. on \cup off = Ready
    OBVIOUS
  <2> HIDE DEF on, off
  <2>2. Tickers(on) \cup Tickers(off) = Tickers(on \cup off)
    BY DEF Tickers
  <2> QED
    BY <2>1, <2>2 DEF Running, Leftover, on, off
<1>3. \A i \in 1..n : ticker[active[i]] \in T
  BY <1>1, <1>2 DEF Tickers, Ready
<1>4. \A t \in T : \E i \in 1..n : ticker[active[i]] = t
  BY <1>1, <1>2 DEF Tickers, Ready, Invariant, SlotsOK
<1>5. \A i, j \in 1..n : ticker[active[i]] = ticker[active[j]] => i = j
  BY <1>1, RequestsDistinct DEF Invariant, SlotsOK
<1> HIDE DEF T
<1>6. f \in Bijection(1..n, T)
  BY <1>3, <1>4, <1>5 DEF Bijection, Injection, Surjection, IsInjective
<1>7. IsFiniteSet(1..n) /\ Cardinality(1..n) = n
  BY <1>1, FS_Interval
<1>8. Cardinality(T) = n
  BY <1>6, <1>7, FS_Bijection DEF ExistsBijection
<1> QED
  <2>1. Service!SlotFree <=> Cardinality(Running \cup Leftover) < MaxActive
    BY DEF Service!SlotFree, Service!Cardinality, Cardinality
  <2>2. Cardinality(Running \cup Leftover) = Len(active)
    BY <1>8 DEF T
  <2> QED
    BY <1>1, <2>1, <2>2 DEF Full

\* The request at hand has its turn: it is the new one, or the oldest.
LEMMA TurnOf ==
  ASSUME Invariant, ExecOK, NEW r \in Requests, Trying(r)
  PROVE  /\ r \in Parked /\ r \in Allocated
         /\ phase = "exec" => Fresh = {ticker[r]}
         /\ phase # "exec" => Fresh = {}
         /\ Fresh' = {}
         /\ ~Full => Service!HasTurn(ticker[r])
<1>1. r \in Parked /\ r \in Allocated /\ todo[1] = r /\ 1 \in DOMAIN todo /\ phase' = phase
  BY TodoTail DEF Trying, Parked, Allocated, Invariant
<1>2. ASSUME phase = "exec" PROVE Fresh = {ticker[r]} /\ Fresh' = {}
  <2>1. {todo[i] : i \in DOMAIN todo} = {r}
    BY <1>1, <1>2 DEF ExecOK
  <2>2. \A i \in DOMAIN todo' : i \in Nat /\ i >= 1 /\ i + 1 \in DOMAIN todo
    BY TodoTail DEF Trying, Invariant, TypeOK
  <2>3. {todo'[i] : i \in DOMAIN todo'} = {}
    BY <1>2, <2>2 DEF ExecOK
  <2> QED
    BY <1>1, <1>2, <2>1, <2>3 DEF Fresh, Tickers
<1>3. ASSUME phase # "exec" PROVE Fresh = {} /\ Fresh' = {}
  BY <1>1, <1>3 DEF Fresh, Tickers
<1>4. ticker[r] \in Waiting
  BY <1>1 DEF Waiting, Tickers
<1>5. ASSUME ~Full, phase = "tickle", NEW t \in Waiting PROVE ticker[r] <= t
  <2>1. PICK q \in Parked : t = ticker[q]
    BY DEF Waiting, Tickers
  <2>2. PICK i \in DOMAIN todo : todo[i] = q
    BY <1>5, <2>1 DEF Invariant, ScanOK, Parked
  <2>3. i \in Nat /\ i >= 1 /\ ticker[q] \in Int /\ ticker[r] \in Int
    BY <2>1, ScannerAssumption DEF Invariant, TypeOK, ScannerAssumption, Parked
  <2>4. i > 1 => ticker[r] < ticker[q]
    BY <1>1, <1>5, <2>2, <2>3 DEF Invariant, ScanOK
  <2> QED
    BY <1>1, <2>1, <2>2, <2>3, <2>4
<1> QED
  BY <1>1, <1>2, <1>3, <1>4, <1>5 DEF Service!HasTurn, Trying

LEMMA HoldBackRefines ==
  ASSUME Invariant, ExecOK, NEW r \in Requests, Trying(r), HoldBack(r)
  PROVE  Service!Postpone \/ UNCHANGED Service!vars
<1>1. UNCHANGED <<Waiting, Running, Leftover, NextId>>
  BY DEF HoldBack, Waiting, Running, Leftover, NextId, Parked, Ready, Tickers
<1>2. ~Service!SlotFree
  BY SlotsCounted DEF HoldBack
<1>3. CASE phase = "exec"
  BY <1>1, <1>2, <1>3, TurnOf DEF Service!Postpone
<1>4. CASE phase # "exec"
  BY <1>1, <1>4, TurnOf DEF Service!vars
<1> QED
  BY <1>3, <1>4

LEMMA TransmitRefines ==
  ASSUME Invariant, ExecOK, NEW r \in Requests, Trying(r), Transmit(r)
  PROVE  ticker[r] \in Waiting /\ Service!Start(ticker[r])
<1> DEFINE t == ticker[r]
           S == {q \in Ready : ticker[q] \in wire}
<1>1. /\ r \in Parked /\ r \in Allocated /\ Fresh' = {}
      /\ Service!HasTurn(t) /\ Service!SlotFree
  BY TurnOf, SlotsCounted DEF Transmit
<1>2. /\ ticker' = ticker /\ wire' = wire \cup {t} /\ NextId' = NextId
      /\ Parked' = Parked \ {r} /\ Ready' = Ready \cup {r} /\ r \notin Ready
  BY <1>1 DEF Transmit, Parked, Ready, NextId, Invariant, TypeOK
<1>3. Waiting' = Waiting \ {t}
  <2>1. Tickers(Parked \ {r}) = Waiting \ {t}
    BY <1>1, OneLess DEF Waiting, Parked, Allocated
  <2> QED
    BY <1>2, <2>1 DEF Waiting, Tickers
<1>4. \A q \in Ready : ticker[q] # t
  BY <1>1, <1>2, RequestsDistinct DEF Ready, Allocated
<1>5. {q \in Ready' : ticker'[q] \in wire'} = S \cup {r}
  BY <1>2, <1>4
<1>6. {q \in Ready' : ticker'[q] \notin wire'} = {q \in Ready : ticker[q] \notin wire}
  BY <1>2, <1>4
<1>7. Running' = Running \cup {t}
  BY <1>2, <1>5 DEF Running, Tickers
<1>8. Leftover' = Leftover
  BY <1>2, <1>6 DEF Leftover, Tickers
<1> QED
  BY <1>1, <1>2, <1>3, <1>7, <1>8 DEF Service!Start, Service!HasTurn

\* A cancel message stops no subscription but that of the request which ends.
LEMMA CancelsItsOwn ==
  ASSUME Invariant, NEW r \in Allocated, Alive(r), SendCancel(ticker[r])
  PROVE  /\ \A q \in Allocated \ {r} : ticker[q] \in wire' <=> ticker[q] \in wire
         /\ NextId' \in Nat /\ NextId' >= NextId
<1>1. \A q \in Allocated \ {r} : CancelId(ticker[r]) # ticker[q]
  <2> TAKE q \in Allocated \ {r}
  <2>1. ticker[q] # ticker[r] /\ ticker[q] <= prevId /\ ticker[q] \in Nat
    BY RequestsDistinct, TickerOfOne DEF Allocated
  <2>2. NextId = prevId + 1 /\ prevId \in Int
    BY TickerOfOne, ScannerAssumption DEF Invariant, TypeOK, ScannerAssumption
  <2> QED
    BY <2>1, <2>2 DEF CancelId
<1>2. \A q \in Allocated \ {r} : ticker[q] \in wire' <=> ticker[q] \in wire
  BY <1>1 DEF SendCancel
<1>3. prevId' \in 0..MaxId /\ prevId' # MaxId /\ prevId <= prevId'
  BY CancelEffect DEF Allocated
<1>4. NextId = prevId + 1 /\ NextId' = prevId' + 1
  BY <1>3, TickerOfOne DEF NextId
<1>5. prevId \in Int /\ prevId' \in Nat /\ prevId <= prevId'
  BY <1>3, ScannerAssumption DEF Invariant, TypeOK, ScannerAssumption
<1> DEFINE before == prevId
           after == prevId'
<1> HIDE DEF before, after
<1>6. after + 1 \in Nat /\ after + 1 >= before + 1
  <2>1. before \in Int /\ after \in Nat /\ before <= after
    BY <1>5 DEF before, after
  <2> QED
    BY <2>1
<1>7. NextId' \in Nat /\ NextId' >= NextId
  BY <1>4, <1>6 DEF before, after
<1> QED
  BY <1>2, <1>7

\* A request that ends takes along what it was, and nothing of the others.
LEMMA EndsAlone ==
  ASSUME Invariant, NEW r \in Allocated, Alive(r), SendCancel(ticker[r]),
         state' = [state EXCEPT ![r] = "DESTRUCTION"], ticker' = ticker
  PROVE  /\ Parked' = Parked \ {r}
         /\ {q \in Ready' : ticker'[q] \in wire'}
              = {q \in Ready : ticker[q] \in wire} \ {r}
         /\ {q \in Ready' : ticker'[q] \notin wire'}
              = {q \in Ready : ticker[q] \notin wire} \ {r}
<1>1. \A q \in Allocated \ {r} : ticker[q] \in wire' <=> ticker[q] \in wire
  BY CancelsItsOwn
<1>2. Parked' = Parked \ {r} /\ Ready' = Ready \ {r} /\ Ready \subseteq Allocated
  BY DEF Parked, Ready, Allocated, Invariant, TypeOK
<1> QED
  BY <1>1, <1>2

LEMMA RefuseRefines ==
  ASSUME Invariant, ExecOK, NEW r \in Requests, Trying(r), Refuse(r)
  PROVE  ticker[r] \in Waiting /\ Service!Refuse(ticker[r])
<1> DEFINE on == {q \in Ready : ticker[q] \in wire}
           off == {q \in Ready : ticker[q] \notin wire}
<1>1. /\ r \in Parked /\ r \in Allocated /\ Fresh' = {}
      /\ Service!HasTurn(ticker[r]) /\ Service!SlotFree
  BY TurnOf, SlotsCounted DEF Refuse
<1>2. /\ Alive(r) /\ SendCancel(ticker[r]) /\ ticker' = ticker
      /\ state' = [state EXCEPT ![r] = "DESTRUCTION"] /\ r \notin Ready
  BY DEF Refuse, Trying, Alive, Ready
<1>3. /\ Parked' = Parked \ {r}
      /\ {q \in Ready' : ticker'[q] \in wire'} = on \ {r}
      /\ {q \in Ready' : ticker'[q] \notin wire'} = off \ {r}
  BY <1>1, <1>2, EndsAlone
<1>4. Waiting' = Waiting \ {ticker[r]}
  <2>1. Tickers(Parked \ {r}) = Waiting \ {ticker[r]}
    BY <1>1, OneLess DEF Waiting, Parked, Allocated
  <2> QED
    BY <1>2, <1>3, <2>1 DEF Waiting, Tickers
<1>5. on \ {r} = on /\ off \ {r} = off
  BY <1>2
<1>6. Running' = Running /\ Leftover' = Leftover
  BY <1>2, <1>3, <1>5 DEF Running, Leftover, Tickers
<1>7. NextId' \in Nat /\ NextId' >= NextId
  BY <1>1, <1>2, CancelsItsOwn
<1> QED
  BY <1>1, <1>4, <1>6, <1>7 DEF Service!Refuse, Service!HasTurn, Service!Spend

LEMMA ReportEndRefines ==
  ASSUME Invariant, NEW r \in Requests, ReportEnd(r)
  PROVE  ticker[r] \in Running /\ Service!End(ticker[r])
<1> DEFINE on == {q \in Ready : ticker[q] \in wire}
           off == {q \in Ready : ticker[q] \notin wire}
<1>1. /\ r \in on /\ r \notin off /\ r \notin Parked /\ r \in Allocated
      /\ Alive(r) /\ SendCancel(ticker[r]) /\ ticker' = ticker
      /\ state' = [state EXCEPT ![r] = "DESTRUCTION"]
  BY DEF ReportEnd, GiveUpSlot, Ready, Parked, Allocated, Alive
<1>2. /\ Parked' = Parked \ {r}
      /\ {q \in Ready' : ticker'[q] \in wire'} = on \ {r}
      /\ {q \in Ready' : ticker'[q] \notin wire'} = off \ {r}
  BY <1>1, EndsAlone
<1>3. Parked \ {r} = Parked /\ off \ {r} = off
  BY <1>1
<1>4. Waiting' = Waiting /\ Leftover' = Leftover
  BY <1>1, <1>2, <1>3 DEF Waiting, Leftover, Tickers
<1>5. Running' = Running \ {ticker[r]}
  <2>1. Tickers(on \ {r}) = Tickers(on) \ {ticker[r]}
    BY <1>1, OneLess DEF Ready, Allocated
  <2> QED
    BY <1>1, <1>2, <2>1 DEF Running, Tickers
<1>6. ticker[r] \in Running
  BY <1>1 DEF Running, Tickers
<1>7. NextId' \in Nat /\ NextId' >= NextId
  BY <1>1, CancelsItsOwn
<1>8. Fresh = {} /\ Fresh' = {}
  BY DEF ReportEnd, Fresh, Tickers
<1> QED
  BY <1>4, <1>5, <1>6, <1>7, <1>8 DEF Service!End, Service!Spend

LEMMA SubscribeRefines ==
  ASSUME Invariant, NEW r \in Requests, Subscribe(r)
  PROVE  Service!Ask
<1> DEFINE on == {q \in Ready : ticker[q] \in wire}
           off == {q \in Ready : ticker[q] \notin wire}
<1>1. /\ r \notin Parked /\ r \notin Ready /\ wire' = wire
      /\ Parked' = Parked \cup {r} /\ Ready' = Ready
      /\ ticker'[r] = NextId /\ \A q \in Requests \ {r} : ticker'[q] = ticker[q]
  BY DEF Subscribe, Parked, Ready, Invariant, TypeOK
<1>2. Waiting' = Waiting \cup {NextId}
  <2>1. \A q \in Parked : ticker'[q] = ticker[q]
    BY <1>1 DEF Parked
  <2>2. {ticker'[q] : q \in Parked'} = {ticker[q] : q \in Parked} \cup {NextId}
    BY <1>1, <2>1
  <2> QED
    BY <2>2 DEF Waiting, Tickers
<1>3. \A q \in Ready : ticker'[q] = ticker[q]
  BY <1>1 DEF Ready
<1>4. /\ {q \in Ready' : ticker'[q] \in wire'} = on
      /\ {q \in Ready' : ticker'[q] \notin wire'} = off
  BY <1>1, <1>3
<1>5. Running' = Running
  <2>1. {ticker'[q] : q \in on} = {ticker[q] : q \in on}
    BY <1>3
  <2> QED
    BY <1>4, <2>1 DEF Running, Tickers
<1>6. Leftover' = Leftover
  <2>1. {ticker'[q] : q \in off} = {ticker[q] : q \in off}
    BY <1>3
  <2> QED
    BY <1>4, <2>1 DEF Leftover, Tickers
<1>7. Fresh = {} /\ Fresh' = {NextId}
  <2>1. {todo'[i] : i \in DOMAIN todo'} = {r}
    BY DEF Subscribe
  <2> QED
    BY <1>1, <2>1 DEF Subscribe, Fresh, Tickers
<1>8. NextId' = NextId + 1
  BY ScannerAssumption DEF Subscribe, IdsLeft, NextId, Invariant, TypeOK, ScannerAssumption
<1> QED
  BY <1>2, <1>5, <1>6, <1>7, <1>8 DEF Service!Ask

\* Memory that is given back is nothing the service knows of.
LEMMA DeleteRefines ==
  ASSUME Invariant, NEW i \in DOMAIN owned, Delete(i)
  PROVE  UNCHANGED Service!vars
<1> DEFINE on == {q \in Ready : ticker[q] \in wire}
           off == {q \in Ready : ticker[q] \notin wire}
<1>1. PICK r \in Requests : r = owned[i]
  BY DEF Invariant, TypeOK
<1>2. /\ Parked' = Parked /\ Ready' = Ready /\ wire' = wire
      /\ \A q \in Requests \ {r} : ticker'[q] = ticker[q]
      /\ r \notin Parked /\ r \notin Ready
  BY <1>1 DEF Delete, Parked, Ready, Invariant, TypeOK
<1>3. (\A q \in Ready : ticker'[q] = ticker[q]) /\ \A q \in Parked : ticker'[q] = ticker[q]
  BY <1>2 DEF Ready, Parked
<1>4. /\ {q \in Ready' : ticker'[q] \in wire'} = on
      /\ {q \in Ready' : ticker'[q] \notin wire'} = off
  BY <1>2, <1>3
<1>5. Waiting' = Waiting
  <2>1. {ticker'[q] : q \in Parked} = {ticker[q] : q \in Parked}
    BY <1>3
  <2> QED
    BY <1>2, <2>1 DEF Waiting, Tickers
<1>6. Running' = Running
  <2>1. {ticker'[q] : q \in on} = {ticker[q] : q \in on}
    BY <1>3
  <2> QED
    BY <1>4, <2>1 DEF Running, Tickers
<1>7. Leftover' = Leftover
  <2>1. {ticker'[q] : q \in off} = {ticker[q] : q \in off}
    BY <1>3
  <2> QED
    BY <1>4, <2>1 DEF Leftover, Tickers
<1>8. Fresh = {} /\ Fresh' = {} /\ NextId' = NextId
  BY DEF Delete, Fresh, Tickers, NextId
<1> QED
  BY <1>5, <1>6, <1>7, <1>8 DEF Service!vars

LEMMA AnnounceRefines ==
  ASSUME Invariant, NEW n \in Announced, Announce(n)
  PROVE  Service!Announce
<1>1. UNCHANGED <<Waiting, Running, Leftover>>
  BY DEF Announce, Waiting, Running, Leftover, Parked, Ready, Tickers
<1>2. Fresh = {} /\ Fresh' = {}
  BY DEF Announce, Fresh, Tickers
<1>3. n \in Nat /\ n < MaxId /\ prevId \in 0..MaxId /\ MaxId \in Nat
  BY ScannerAssumption DEF Invariant, TypeOK, ScannerAssumption
<1>4. NextId' \in Nat /\ NextId' >= NextId
  BY <1>3 DEF Announce, NextId
<1> QED
  BY <1>1, <1>2, <1>4 DEF Service!Announce, Service!Spend

LEMMA DisconnectRefines ==
  ASSUME Invariant, Disconnect
  PROVE  Service!Disconnect
<1>1. UNCHANGED <<state, ticker, prevId>> /\ wire' = {}
  BY DEF Disconnect
<1>2. Fresh = {} /\ Fresh' = {}
  BY DEF Disconnect, Fresh, Tickers
<1>3. Waiting' = Waiting /\ NextId' = NextId
  BY <1>1 DEF Waiting, Parked, Tickers, NextId
<1>4. Running' = {}
  BY <1>1 DEF Running, Tickers
<1>5. Leftover' = Leftover \cup Running
  BY <1>1 DEF Leftover, Running, Ready, Tickers
<1> QED
  BY <1>2, <1>3, <1>4, <1>5 DEF Service!Disconnect

\* The loop as such, and the breaking of the connection, change nothing.
LEMMA LoopStutters ==
  ASSUME Invariant, ExecOK,
         \/ SkipNext \/ StartTickle \/ TickleDone \/ ExecDone \/ TopDone
         \/ OtherReport \/ Lose \/ Connect \/ UNCHANGED vars
  PROVE  UNCHANGED Service!vars
<1>1. UNCHANGED <<state, ticker, prevId, wire>>
  BY DEF SkipNext, StartTickle, TickleDone, ExecDone, TopDone, OtherReport, Lose,
         Connect, vars
<1>2. UNCHANGED <<Waiting, Running, Leftover, NextId>>
  BY <1>1 DEF Waiting, Running, Leftover, Parked, Ready, Tickers, NextId
<1>3. Fresh' = Fresh
  <2>1. CASE SkipNext
    <3>1. 1 \in DOMAIN todo /\ Head(todo) = todo[1]
      BY <2>1, TodoTail DEF SkipNext, Invariant
    <3>2. phase # "exec" /\ phase' = phase
      BY <2>1, <3>1 DEF SkipNext, ExecOK
    <3> QED
      BY <3>2 DEF Fresh, Tickers
  <2>2. CASE ExecDone
    BY <2>2 DEF ExecDone, Fresh, Tickers
  <2>3. CASE StartTickle \/ TickleDone \/ TopDone \/ OtherReport \/ Connect
    BY <2>3 DEF StartTickle, TickleDone, TopDone, OtherReport, Connect, Fresh, Tickers
  <2>4. CASE Lose \/ UNCHANGED vars
    BY <2>4 DEF Lose, vars, Fresh, Tickers
  <2> QED
    BY <2>1, <2>2, <2>3, <2>4
<1> QED
  BY <1>2, <1>3 DEF Service!vars

LEMMA ServiceInit == Init => Service!Init
<1> SUFFICES ASSUME Init PROVE Service!Init
  OBVIOUS
<1>1. Parked = {} /\ Ready = {}
  BY DEF Init, Parked, Ready
<1>2. Waiting = {} /\ Fresh = {} /\ Running = {} /\ Leftover = {}
  BY <1>1 DEF Init, Waiting, Fresh, Running, Leftover, Tickers
<1>3. NextId = 0
  BY DEF Init, FirstPrevId, NextId
<1> QED
  BY <1>2, <1>3 DEF Service!Init

LEMMA ServiceStep ==
  ASSUME Invariant, ExecOK, [Next]_vars
  PROVE  [Service!Next]_(Service!vars)
<1>1. CASE TryNext
  <2>1. Head(todo) \in Requests /\ Trying(Head(todo))
    BY <1>1, TodoTail DEF TryNext, Trying, Invariant
  <2> QED
    BY <1>1, <2>1, HoldBackRefines, TransmitRefines, RefuseRefines
    DEF TryNext, Service!Next
<1>2. ASSUME NEW r \in Requests, Subscribe(r) PROVE Service!Next
  BY <1>2, SubscribeRefines DEF Service!Next
<1>3. ASSUME NEW r \in Requests, ReportEnd(r) PROVE Service!Next
  BY <1>3, ReportEndRefines DEF Service!Next
<1>4. ASSUME NEW i \in DOMAIN owned, Delete(i) PROVE UNCHANGED Service!vars
  BY <1>4, DeleteRefines
<1>5. ASSUME NEW n \in Announced, Announce(n) PROVE Service!Next
  BY <1>5, AnnounceRefines DEF Service!Next
<1>6. CASE Disconnect
  BY <1>6, DisconnectRefines DEF Service!Next
<1>7. CASE \/ SkipNext \/ StartTickle \/ TickleDone \/ ExecDone \/ TopDone
           \/ OtherReport \/ Lose \/ Connect \/ UNCHANGED vars
  BY <1>7, LoopStutters
<1> QED
  BY <1>1, <1>2, <1>3, <1>4, <1>5, <1>6, <1>7 DEF Next, Loop, Callback

\* The limiter, the loop and the ids together do what the service promises:
\* subscriptions start in turn and only with a free slot, end alone, and keep
\* their slots when the connection they ran on is gone.
THEOREM LimiterImplementsService == Spec => ImplementsService
<1>1. Init => ExecOK
  BY DEF Init, ExecOK
<1>2. Invariant /\ ExecOK /\ [Next]_vars => ExecOK'
  BY ExecStep
<1>3. Invariant /\ ExecOK /\ [Next]_vars => [Service!Next]_(Service!vars)
  BY ServiceStep
<1> QED
  BY <1>1, <1>2, <1>3, ServiceInit, InvariantAlways, PTL
  DEF Spec, ImplementsService, Service!Spec

\* An id that was handed out and neither waits nor runs is never used again,
\* whatever TWS announces and how often the connection is lost.
THEOREM OverStaysOver == Spec => OverIsOver
<1> DEFINE Stays == \A id \in 0..MaxId :
                      id < NextId /\ id \notin Waiting \cup Running
                        => id \notin (Waiting \cup Running)'
<1>1. Invariant /\ ExecOK /\ [Next]_vars => [Stays]_vars
  <2> SUFFICES ASSUME Invariant, ExecOK, [Next]_vars, NEW id \in 0..MaxId,
                      id < NextId, id \notin Waiting, id \notin Running
               PROVE  id \notin Waiting' /\ id \notin Running'
    OBVIOUS
  <2>1. id # NextId
    BY ScannerAssumption DEF Invariant, TypeOK, ScannerAssumption, NextId
  <2>2. [Service!Next]_(Service!vars)
    BY ServiceStep
  <2> QED
    BY <2>1, <2>2 DEF Service!Next, Service!vars, Service!Ask, Service!Postpone,
         Service!Announce, Service!Disconnect, Service!Start, Service!Refuse,
         Service!HasTurn, Service!End
<1>2. Init => ExecOK
  BY DEF Init, ExecOK
<1>3. Invariant /\ ExecOK /\ [Next]_vars => ExecOK'
  BY ExecStep
<1> QED
  BY <1>1, <1>2, <1>3, InvariantAlways, PTL DEF Spec, OverIsOver
=============================================================================
