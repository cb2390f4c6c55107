------------------------ MODULE RequestDispatchProofs ------------------------
(***************************************************************************)
(* Proofs about RequestDispatch, for any kinds of requests, ids, slots and *)
(* numbers of messages: what a cancel message leaves, that no subscription *)
(* goes by mistake, which requests are left half-way, and how many take up *)
(* a slot.                                                                 *)
(***************************************************************************)
EXTENDS RequestDispatch, FiniteSetTheorems, SequenceTheorems, TLAPS

States == {"COMMENCE_TRANSMIT", "READY_TO_RECEIVE_RESPONSE", "WAIT_FOR_TRANSMIT"}

\* The answer to a scanner-parameters request makes subscriptions.
Asked == Issued \cup {"req_scanner_subscription"}

\* The messages there can be: one is left half-way only if its kind is one that
\* f_commence_transmit() does nothing for, and waits only if it is a subscription.
Messages ==
  {m \in [kind : Asked, id : Ids \cup {0}, state : States] :
     /\ m.state = "COMMENCE_TRANSMIT" => m.kind \notin Transmits
     /\ m.state = "WAIT_FOR_TRANSMIT" => m.kind = "req_scanner_subscription"}

TypeOK == msgs \in Seq(Messages) /\ link \in {"up", "lost"} /\ drops \in Nat

-----------------------------------------------------------------------------
(* What Without() returns *)

LEMMA FirstNumbers ==
  ASSUME NEW n \in Nat
  PROVE  IsFiniteSet(1..n) /\ Cardinality(1..n) = n
BY FS_Interval

\* The messages that are left are those at the other places, in the order they
\* were in: none is lost, none comes twice and none comes in.
LEMMA WithoutPlaces ==
  ASSUME NEW S, NEW s \in Seq(S), NEW places
  PROVE  /\ Without(s, places) \in Seq(S)
         /\ \E old \in [DOMAIN Without(s, places) -> DOMAIN s \ places] :
              /\ \A j \in DOMAIN Without(s, places) : Without(s, places)[j] = s[old[j]]
              /\ \A h, j \in DOMAIN Without(s, places) : h < j => old[h] < old[j]
              /\ \A i \in DOMAIN s \ places : \E j \in DOMAIN Without(s, places) : old[j] = i
<1> DEFINE kept    == DOMAIN s \ places
           n       == Cardinality(kept)
           UpTo(i) == {h \in kept : h <= i}
           rank    == [i \in kept |-> Cardinality(UpTo(i))]
           Nth(j)  == CHOOSE i \in kept : Cardinality(UpTo(i)) = j
<1>1. kept \subseteq 1..Len(s) /\ Len(s) \in Nat /\ IsFiniteSet(kept) /\ n \in Nat
  <2>1. IsFiniteSet(1..Len(s)) /\ DOMAIN s = 1..Len(s) /\ Len(s) \in Nat
    BY FS_Interval
  <2>2. kept \in SUBSET (1..Len(s))
    BY <2>1
  <2>3. IsFiniteSet(kept)
    BY <2>1, <2>2, FS_Subset
  <2> QED
    BY <2>1, <2>2, <2>3, FS_CardinalityType
<1>2. \A i \in kept : /\ UpTo(i) \subseteq kept /\ i \in UpTo(i) /\ IsFiniteSet(UpTo(i))
                      /\ Cardinality(UpTo(i)) \in 1..n
  <2> TAKE i \in kept
  <2>1. UpTo(i) \subseteq kept /\ i \in UpTo(i)
    BY <1>1
  <2>2. IsFiniteSet(UpTo(i)) /\ Cardinality(UpTo(i)) <= n
    BY <1>1, <2>1, FS_Subset
  <2>3. Cardinality(UpTo(i)) \in Nat /\ Cardinality(UpTo(i)) # 0
    BY <2>1, <2>2, FS_CardinalityType, FS_EmptySet
  <2> QED
    BY <1>1, <2>1, <2>2, <2>3
<1>3. \A h, i \in kept : h < i => Cardinality(UpTo(h)) # Cardinality(UpTo(i))
  <2> SUFFICES ASSUME NEW h \in kept, NEW i \in kept, h < i
               PROVE  Cardinality(UpTo(h)) # Cardinality(UpTo(i))
    OBVIOUS
  <2>1. UpTo(h) \in SUBSET UpTo(i) /\ i \notin UpTo(h) /\ i \in UpTo(i)
    BY <1>1
  <2> QED
    BY <1>2, <2>1, FS_Subset
<1>4. \A h, i \in kept : Cardinality(UpTo(h)) = Cardinality(UpTo(i)) => h = i
  <2> SUFFICES ASSUME NEW h \in kept, NEW i \in kept, h # i
               PROVE  Cardinality(UpTo(h)) # Cardinality(UpTo(i))
    OBVIOUS
  <2>1. h < i \/ i < h
    BY <1>1
  <2> QED
    BY <1>3, <2>1
<1>5. rank \in Injection(kept, 1..n)
  <2>1. rank \in [kept -> 1..n]
    BY <1>2
  <2>2. \A h, i \in kept : rank[h] = rank[i] => h = i
    BY <1>4
  <2> QED
    BY <2>1, <2>2 DEF Injection, IsInjective
<1>6. IsFiniteSet(1..n) /\ Cardinality(1..n) = n
  BY <1>1, FirstNumbers
<1>7. \A j \in 1..n : \E i \in kept : Cardinality(UpTo(i)) = j
  <2>1. rank \in Surjection(kept, 1..n)
    BY <1>5, <1>6, FS_Injection
  <2> QED
    BY <2>1 DEF Surjection
<1>8. \A j \in 1..n : Nth(j) \in kept /\ Cardinality(UpTo(Nth(j))) = j
  BY <1>7
<1>9. \A i \in kept : Nth(Cardinality(UpTo(i))) = i
  BY <1>2, <1>4, <1>8
<1> DEFINE W == [j \in 1..n |-> s[Nth(j)]]
<1>10. Without(s, places) = W
  BY DEF Without
<1>11. \A i \in kept : s[i] \in S
  BY <1>1, ElementOfSeq
<1>12. W \in [1..n -> S]
  BY <1>8, <1>11
<1>13. W \in Seq(S)
  BY <1>1, <1>12, SeqDef
<1>14. PICK old \in [1..n -> kept] :
         \A j \in 1..n : old[j] = Nth(j) /\ W[j] = s[old[j]] /\ Cardinality(UpTo(old[j])) = j
  <2> DEFINE f == [j \in 1..n |-> Nth(j)]
  <2>1. f \in [1..n -> kept]
    BY <1>8
  <2>2. \A j \in 1..n : f[j] = Nth(j) /\ W[j] = s[f[j]] /\ Cardinality(UpTo(f[j])) = j
    BY <1>8
  <2> QED
    BY <2>1, <2>2
<1>15. /\ \A h, j \in 1..n : h < j => old[h] < old[j]
       /\ \A i \in kept : \E j \in 1..n : old[j] = i
  <2>1. \A h, j \in 1..n : h < j => old[h] < old[j]
    <3> SUFFICES ASSUME NEW h \in 1..n, NEW j \in 1..n, h < j, ~(old[h] < old[j])
                 PROVE  FALSE
      OBVIOUS
    <3>1. old[h] \in kept /\ old[j] \in kept
      BY <1>14
    <3>2. old[j] <= old[h]
      BY <1>1, <3>1
    <3>3. UpTo(old[j]) \in SUBSET UpTo(old[h])
      BY <1>1, <3>1, <3>2
    <3>4. Cardinality(UpTo(old[j])) <= Cardinality(UpTo(old[h]))
      BY <1>2, <3>1, <3>3, FS_Subset
    <3>5. Cardinality(UpTo(old[j])) = j /\ Cardinality(UpTo(old[h])) = h
      BY <1>14
    <3>6. j <= h
      BY <3>4, <3>5
    <3> QED
      BY <3>6, <1>1
  <2>2. ASSUME NEW i \in kept PROVE \E j \in 1..n : old[j] = i
    <3>1. Cardinality(UpTo(i)) \in 1..n
      BY <1>2
    <3>2. Nth(Cardinality(UpTo(i))) = i
      BY <1>9
    <3> QED
      BY <3>1, <3>2, <1>14
  <2> QED
    BY <2>1, <2>2
<1>16. DOMAIN W = 1..n
  BY <1>12
<1> HIDE DEF W, kept, n
<1>17. /\ old \in [DOMAIN W -> kept]
       /\ \A j \in DOMAIN W : W[j] = s[old[j]]
       /\ \A h, j \in DOMAIN W : h < j => old[h] < old[j]
       /\ \A i \in kept : \E j \in DOMAIN W : old[j] = i
  BY <1>14, <1>15, <1>16
<1> QED
  BY <1>10, <1>13, <1>17 DEF kept

\* What it has for members.
LEMMA WithoutKeeps ==
  ASSUME NEW S, NEW s \in Seq(S), NEW places
  PROVE  /\ Without(s, places) \in Seq(S)
         /\ \A j \in DOMAIN Without(s, places) :
              \E i \in DOMAIN s \ places : Without(s, places)[j] = s[i]
         /\ \A i \in DOMAIN s \ places :
              \E j \in DOMAIN Without(s, places) : Without(s, places)[j] = s[i]
<1> DEFINE w == Without(s, places)
<1>1. /\ w \in Seq(S)
      /\ \E old \in [DOMAIN w -> DOMAIN s \ places] :
           /\ \A j \in DOMAIN w : w[j] = s[old[j]]
           /\ \A i \in DOMAIN s \ places : \E j \in DOMAIN w : old[j] = i
  BY WithoutPlaces
<1> HIDE DEF w
<1>2. PICK old \in [DOMAIN w -> DOMAIN s \ places] :
        /\ \A j \in DOMAIN w : w[j] = s[old[j]]
        /\ \A i \in DOMAIN s \ places : \E j \in DOMAIN w : old[j] = i
  BY <1>1
<1>3. \A j \in DOMAIN w : \E i \in DOMAIN s \ places : w[j] = s[i]
  BY <1>2
<1>4. \A i \in DOMAIN s \ places : \E j \in DOMAIN w : w[j] = s[i]
  BY <1>2
<1> QED
  BY <1>1, <1>3, <1>4 DEF w

-----------------------------------------------------------------------------
(* The messages an action adds *)

\* A message that was transmitted, or was not, is the only one and as it should be.
LEMMA OneMessage ==
  ASSUME NEW S, NEW m \in S
  PROVE  /\ <<m>> \in Seq(S) /\ DOMAIN <<m>> = {1} /\ <<m>>[1] = m
         /\ <<>> \in Seq(S) /\ DOMAIN <<>> = {}
<1>1. <<m>> \in Seq(S) /\ <<m>>[1] = m /\ DOMAIN <<m>> = {1}
  OBVIOUS
<1>2. <<>> \in Seq(S) /\ Len(<<>>) = 0
  BY EmptySeq
<1>3. DOMAIN <<>> = 1..0
  BY <1>2, LenProperties
<1> QED
  BY <1>1, <1>2, <1>3

LEMMA TransmittedOne ==
  ASSUME NEW k \in Asked, NEW id \in Ids \cup {0}
  PROVE  /\ Transmitted(k, id) \in Seq(Messages)
         /\ \A i \in DOMAIN Transmitted(k, id) : Transmitted(k, id)[i].kind = k
<1> DEFINE m == [kind |-> k, id |-> id,
                  state |-> IF k \in Transmits THEN "READY_TO_RECEIVE_RESPONSE"
                            ELSE "COMMENCE_TRANSMIT"]
<1>1. m \in Messages /\ m.kind = k
  BY DEF Messages, States
<1>2. Transmitted(k, id) \in {<<>>, <<m>>}
  BY DEF Transmitted
<1> HIDE DEF m
<1>3. CASE Transmitted(k, id) = <<>>
  BY <1>1, <1>3, OneMessage
<1>4. CASE Transmitted(k, id) = <<m>>
  BY <1>1, <1>4, OneMessage
<1> QED
  BY <1>2, <1>3, <1>4

\* The subscriptions that follow from scanner parameters.
LEMMA SubscribedType ==
  ASSUME NEW n \in Nat, NEW free \in [1..n -> Ids]
  PROVE  Subscribed(n, free) \in Seq(Messages)
<1> DEFINE One(i) ==
      [kind |-> "req_scanner_subscription", id |-> free[i],
       state |-> IF Cardinality(Running) + i > MaxActive THEN "WAIT_FOR_TRANSMIT"
                 ELSE "READY_TO_RECEIVE_RESPONSE"]
<1>1. \A i \in 1..n : One(i) \in Messages
  BY DEF Messages, States, Asked
<1>2. [i \in 1..n |-> One(i)] \in [1..n -> Messages]
  BY <1>1
<1>3. [i \in 1..n |-> One(i)] \in Seq(Messages)
  BY <1>2, SeqDef
<1>4. <<>> \in Seq(Messages)
  BY EmptySeq
<1> QED
  BY <1>3, <1>4 DEF Subscribed

\* What is before a place of a sequence, and what is behind it.
LEMMA AroundPlace ==
  ASSUME NEW S, NEW s \in Seq(S), NEW i \in 1..Len(s)
  PROVE  /\ SubSeq(s, 1, i - 1) \in Seq(S) /\ Len(SubSeq(s, 1, i - 1)) = i - 1
         /\ \A j \in 1..(i - 1) : SubSeq(s, 1, i - 1)[j] = s[j]
         /\ SubSeq(s, i + 1, Len(s)) \in Seq(S)
         /\ Len(SubSeq(s, i + 1, Len(s))) = Len(s) - i
         /\ \A j \in 1..(Len(s) - i) : SubSeq(s, i + 1, Len(s))[j] = s[i + j]
<1>1. /\ SubSeq(s, 1, i - 1) \in Seq(S) /\ Len(SubSeq(s, 1, i - 1)) = i - 1
      /\ \A j \in 1..(i - 1) : SubSeq(s, 1, i - 1)[j] = s[j]
  OBVIOUS
<1>2. /\ SubSeq(s, i + 1, Len(s)) \in Seq(S)
      /\ Len(SubSeq(s, i + 1, Len(s))) = Len(s) - i
      /\ \A j \in 1..(Len(s) - i) : SubSeq(s, i + 1, Len(s))[j] = s[i + j]
  OBVIOUS
<1> QED
  BY <1>1, <1>2

\* A message is put into the place of the one that is tried, or none; the others
\* stay as they are, those behind it moving up.
LEMMA RetryPlaces ==
  ASSUME TypeOK, NEW i \in DOMAIN msgs, Retry(i)
  PROVE  \E n \in {0, 1} :
           /\ msgs' \in Seq(Messages) /\ Len(msgs') = Len(msgs) - 1 + n
           /\ \A j \in 1..(i - 1) : msgs'[j] = msgs[j]
           /\ \A j \in (i + 1)..Len(msgs) : msgs'[j - 1 + n] = msgs[j]
<1>1. msgs \in Seq(Messages) /\ Len(msgs) \in Nat /\ i \in 1..Len(msgs)
  BY DEF TypeOK
<1>2. msgs[i] \in Messages
  BY <1>1, ElementOfSeq
<1> DEFINE p == SubSeq(msgs, 1, i - 1)
           t == Transmitted(msgs[i].kind, msgs[i].id)
           q == SubSeq(msgs, i + 1, Len(msgs))
<1>3. /\ p \in Seq(Messages) /\ Len(p) = i - 1 /\ \A j \in 1..(i - 1) : p[j] = msgs[j]
      /\ q \in Seq(Messages) /\ Len(q) = Len(msgs) - i
      /\ \A j \in 1..(Len(msgs) - i) : q[j] = msgs[i + j]
  BY <1>1, AroundPlace
<1>4. t \in Seq(Messages) /\ Len(t) \in {0, 1}
  <2>1. msgs[i].kind \in Asked /\ msgs[i].id \in Ids \cup {0}
    BY <1>2 DEF Messages
  <2> QED
    BY <2>1, TransmittedOne DEF Transmitted
<1>5. msgs' = p \o t \o q
  BY DEF Retry
<1> HIDE DEF p, t, q
<1>6. PICK n \in {0, 1} : n = Len(t)
  BY <1>4
<1>7. /\ p \o t \in Seq(Messages) /\ Len(p \o t) = i - 1 + n
      /\ \A j \in 1..(i - 1 + n) : (p \o t)[j] = IF j <= i - 1 THEN p[j] ELSE t[j - (i - 1)]
  <2>1. /\ p \o t \in Seq(Messages) /\ Len(p \o t) = Len(p) + Len(t)
        /\ \A j \in 1..(Len(p) + Len(t)) : (p \o t)[j] = IF j <= Len(p) THEN p[j] ELSE t[j - Len(p)]
    BY <1>3, <1>4, ConcatProperties
  <2> QED
    BY <2>1, <1>3, <1>6
<1>8. /\ msgs' \in Seq(Messages) /\ Len(msgs') = i - 1 + n + (Len(msgs) - i)
      /\ \A j \in 1..(i - 1 + n + (Len(msgs) - i)) :
           msgs'[j] = IF j <= i - 1 + n THEN (p \o t)[j] ELSE q[j - (i - 1 + n)]
  <2>1. /\ msgs' \in Seq(Messages) /\ Len(msgs') = Len(p \o t) + Len(q)
        /\ \A j \in 1..(Len(p \o t) + Len(q)) :
             msgs'[j] = IF j <= Len(p \o t) THEN (p \o t)[j] ELSE q[j - Len(p \o t)]
    BY <1>3, <1>5, <1>7, ConcatProperties
  <2> QED
    BY <2>1, <1>3, <1>7
<1>9. ASSUME NEW j \in 1..(i - 1) PROVE msgs'[j] = msgs[j]
  <2>1. /\ j <= i - 1 + n /\ j <= i - 1 /\ j \in 1..(i - 1 + n)
        /\ j \in 1..(i - 1 + n + (Len(msgs) - i))
    BY <1>1, <1>6
  <2> QED
    BY <1>3, <1>7, <1>8, <2>1
<1>10. ASSUME NEW j \in (i + 1)..Len(msgs) PROVE msgs'[j - 1 + n] = msgs[j]
  <2> DEFINE h == j - 1 + n
  <2>1. /\ h \in 1..(i - 1 + n + (Len(msgs) - i)) /\ ~(h <= i - 1 + n)
        /\ h - (i - 1 + n) = j - i /\ j - i \in 1..(Len(msgs) - i) /\ i + (j - i) = j
    BY <1>1, <1>6
  <2> HIDE DEF h
  <2>2. msgs'[h] = q[j - i]
    BY <1>8, <2>1
  <2>3. q[j - i] = msgs[j]
    <3>1. q[j - i] = msgs[i + (j - i)]
      BY <1>3, <2>1
    <3> QED
      BY <2>1, <3>1
  <2> QED
    BY <2>2, <2>3 DEF h
<1>11. msgs' \in Seq(Messages) /\ Len(msgs') = Len(msgs) - 1 + n
  BY <1>1, <1>6, <1>8
<1> WITNESS n \in {0, 1}
<1> QED
  BY <1>9, <1>10, <1>11

-----------------------------------------------------------------------------

LEMMA IssueKeeps ==
  ASSUME TypeOK, NEW k \in Issued, NEW id \in IdsFor(k),
         IssueRequest(k, id) \/ IssueCancel(k, id)
  PROVE  TypeOK'
<1>1. k \in Asked /\ id \in Ids \cup {0}
  BY DEF Asked, IdsFor
<1>2. Transmitted(k, id) \in Seq(Messages)
  BY <1>1, TransmittedOne
<1>3. msgs \in Seq(Messages) /\ msgs \o Transmitted(k, id) \in Seq(Messages)
  BY <1>2, ConcatProperties DEF TypeOK
<1>4. CASE IssueRequest(k, id)
  <2> DEFINE m == [kind |-> k, id |-> id, state |-> "WAIT_FOR_TRANSMIT"]
  <2>1. k = "req_scanner_subscription" => m \in Messages
    BY <1>1 DEF Messages, States
  <2>2. k = "req_scanner_subscription" => <<m>> \in Seq(Messages)
    BY <2>1, OneMessage
  <2>3. k = "req_scanner_subscription" => msgs \o <<m>> \in Seq(Messages)
    BY <1>3, <2>2, ConcatProperties
  <2>4. msgs' \in Seq(Messages)
    BY <1>3, <1>4, <2>3 DEF IssueRequest
  <2> QED
    BY <1>4, <2>4 DEF IssueRequest, TypeOK
<1>5. CASE IssueCancel(k, id)
  <2>1. \A places : Without(msgs, places) \in Seq(Messages)
    BY <1>3, WithoutKeeps
  <2>2. msgs' \in Seq(Messages)
    BY <1>3, <1>5, <2>1 DEF IssueCancel
  <2> QED
    BY <1>5, <2>2 DEF IssueCancel, TypeOK
<1> QED
  BY <1>4, <1>5

LEMMA RetryKeeps ==
  ASSUME TypeOK, NEW i \in DOMAIN msgs, Retry(i)
  PROVE  TypeOK'
<1>1. msgs \in Seq(Messages) /\ Len(msgs) \in Nat /\ i \in 1..Len(msgs)
  BY DEF TypeOK
<1>2. msgs[i] \in Messages
  BY <1>1, ElementOfSeq
<1>3. msgs[i].kind \in Asked /\ msgs[i].id \in Ids \cup {0}
  BY <1>2 DEF Messages
<1>4. Transmitted(msgs[i].kind, msgs[i].id) \in Seq(Messages)
  BY <1>3, TransmittedOne
<1>5. /\ SubSeq(msgs, 1, i - 1) \in Seq(Messages)
      /\ SubSeq(msgs, i + 1, Len(msgs)) \in Seq(Messages)
  BY <1>1, SubSeqProperties
<1>6. msgs' \in Seq(Messages)
  BY <1>4, <1>5, ConcatProperties DEF Retry
<1> QED
  BY <1>6 DEF Retry, TypeOK

LEMMA ReceiveKeeps ==
  ASSUME TypeOK, NEW r, NEW id, NEW what, Receive(r, id, what)
  PROVE  TypeOK'
<1> DEFINE ended == {i \in DOMAIN msgs : IsEnded(msgs[i], r, id, what)}
           n     == IF r = "scanner_parameters" THEN Cardinality(ended) ELSE 0
           used  == {msgs[i].id : i \in DOMAIN msgs}
<1>1. msgs \in Seq(Messages) /\ Without(msgs, ended) \in Seq(Messages)
  BY WithoutKeeps DEF TypeOK
<1>2. n \in Nat
  <2>1. ended \in SUBSET (1..Len(msgs)) /\ IsFiniteSet(1..Len(msgs))
    BY <1>1, FirstNumbers
  <2> QED
    BY <2>1, FS_Subset, FS_CardinalityType
<1>3. PICK free \in [1..n -> Ids \ used] : msgs' = Without(msgs, ended) \o Subscribed(n, free)
  BY DEF Receive
<1> HIDE DEF n, used
<1>4. free \in [1..n -> Ids]
  BY <1>3
<1>5. Subscribed(n, free) \in Seq(Messages)
  BY <1>2, <1>4, SubscribedType
<1>6. msgs' \in Seq(Messages)
  BY <1>1, <1>3, <1>5, ConcatProperties
<1> QED
  BY <1>6 DEF Receive, TypeOK

LEMMA NextType == TypeOK /\ [Next]_vars => TypeOK'
<1> SUFFICES ASSUME TypeOK, [Next]_vars PROVE TypeOK'
  OBVIOUS
<1>1. CASE Issue
  BY <1>1, IssueKeeps DEF Issue
<1>2. CASE ReceiveAny
  BY <1>2, ReceiveKeeps DEF ReceiveAny
<1>3. CASE RetryAny
  BY <1>3, RetryKeeps DEF RetryAny
<1>4. CASE Lose \/ Connect \/ UNCHANGED vars
  BY <1>4 DEF Lose, Connect, vars, TypeOK
<1> QED
  BY <1>1, <1>2, <1>3, <1>4 DEF Next

\* Types, and which messages are left half-way or wait.
THEOREM DispatchTypes == Spec => []TypeOK
<1>1. Init => TypeOK
  BY EmptySeq DEF Init, TypeOK
<1> QED
  BY <1>1, NextType, PTL DEF Spec

-----------------------------------------------------------------------------

\* If the program makes only requests of the kinds f_commence_transmit() knows,
\* as it does, none of them is ever left half-way, whatever else is issued.
THEOREM NothingStuck ==
  ASSUME Made \subseteq Transmits
  PROVE  Spec => []NoneStuck
<1>1. TypeOK => NoneStuck
  <2> SUFFICES ASSUME TypeOK, NEW i \in DOMAIN msgs, msgs[i].kind \in Made
               PROVE  msgs[i].state # "COMMENCE_TRANSMIT"
    BY DEF NoneStuck
  <2>1. msgs[i] \in Messages
    BY ElementOfSeq DEF TypeOK
  <2> QED
    BY <2>1 DEF Messages
<1> QED
  BY <1>1, DispatchTypes, PTL

\* No cancel message is about a cancel message of its own kind.
LEMMA CancelsNotCancelled == \A k \in Cancels : k \notin CancelledBy(k)
BY DEF Cancels, EarlyCancels, LateCancels, CancelledBy, EarlyVictims, LateVictims

LEMMA CancelStep ==
  ASSUME TypeOK, NEW k \in Issued \cap Cancels, NEW id \in IdsFor(k), IssueCancel(k, id),
         NEW i \in DOMAIN msgs'
  PROVE  ~IsAbout(k, id, msgs'[i])
<1> DEFINE about == {h \in DOMAIN msgs : IsAbout(k, id, msgs[h])}
<1>1. k \in Asked /\ id \in Ids \cup {0} /\ msgs \in Seq(Messages)
  BY DEF Asked, IdsFor, TypeOK
<1>2. CASE about = {}
  <2> DEFINE new == Transmitted(k, id)
  <2>1. new \in Seq(Messages) /\ \A j \in DOMAIN new : new[j].kind = k
    BY <1>1, TransmittedOne
  <2>2. msgs' = msgs \o new
    BY <1>2 DEF IssueCancel
  <2> HIDE DEF new
  <2>3. /\ Len(msgs) \in Nat /\ Len(new) \in Nat /\ DOMAIN new = 1..Len(new)
        /\ DOMAIN msgs = 1..Len(msgs) /\ i \in 1..(Len(msgs) + Len(new))
        /\ msgs'[i] = IF i <= Len(msgs) THEN msgs[i] ELSE new[i - Len(msgs)]
    BY <1>1, <2>1, <2>2, ConcatProperties
  <2>4. CASE i <= Len(msgs)
    BY <1>2, <2>3, <2>4
  <2>5. CASE i > Len(msgs)
    <3>1. msgs'[i].kind = k
      BY <2>1, <2>3, <2>5
    <3> QED
      BY <3>1, CancelsNotCancelled DEF IsAbout
  <2> QED
    BY <2>3, <2>4, <2>5
<1>3. CASE about # {}
  <2>1. msgs' = Without(msgs, about)
    BY <1>3 DEF IssueCancel
  <2> HIDE DEF about
  <2>2. \A j \in DOMAIN Without(msgs, about) :
          \E h \in DOMAIN msgs \ about : Without(msgs, about)[j] = msgs[h]
    BY <1>1, WithoutKeeps
  <2>3. PICK h \in DOMAIN msgs \ about : msgs'[i] = msgs[h]
    BY <2>1, <2>2
  <2> QED
    BY <2>3 DEF about
<1> QED
  BY <1>2, <1>3

\* A cancel message leaves nothing behind that it is about, itself included, in
\* whatever state it was (tx_cancel_*(), cancel_all_matching_requests()).
THEOREM CancelsAllItIsAbout == Spec => CancelLeavesNone
<1> DEFINE A == \A k \in Issued \cap Cancels : \A id \in IdsFor(k) :
                  IssueCancel(k, id) => \A i \in DOMAIN msgs' : ~IsAbout(k, id, msgs'[i])
<1>1. TypeOK => A
  BY CancelStep
<1>2. TypeOK => [A]_vars
  BY <1>1
<1>3. Spec => [][A]_vars
  BY <1>2, DispatchTypes, PTL
<1> QED
  BY <1>3 DEF CancelLeavesNone

-----------------------------------------------------------------------------
(* Nothing goes by mistake *)

\* The places of s at which m is.
PlacesOf(s, m) == {i \in DOMAIN s : s[i] = m}

LEMMA PlacesFinite ==
  ASSUME NEW S, NEW s \in Seq(S), NEW m
  PROVE  /\ IsFiniteSet(PlacesOf(s, m)) /\ HowMany(s, m) = Cardinality(PlacesOf(s, m))
         /\ HowMany(s, m) \in Nat /\ PlacesOf(s, m) \subseteq 1..Len(s) /\ Len(s) \in Nat
<1>1. DOMAIN s = 1..Len(s) /\ Len(s) \in Nat /\ IsFiniteSet(1..Len(s))
  BY FirstNumbers
<1>2. PlacesOf(s, m) \in SUBSET (1..Len(s))
  BY <1>1 DEF PlacesOf
<1>3. HowMany(s, m) = Cardinality(PlacesOf(s, m))
  BY DEF HowMany, PlacesOf
<1> QED
  BY <1>1, <1>2, <1>3, FS_Subset, FS_CardinalityType

\* If every m of s has a place of its own in t, there are as many in t at least.
LEMMA NotFewer ==
  ASSUME NEW S, NEW s \in Seq(S), NEW t \in Seq(S), NEW m,
         NEW now \in [PlacesOf(s, m) -> PlacesOf(t, m)],
         \A h, i \in PlacesOf(s, m) : now[h] = now[i] => h = i
  PROVE  HowMany(s, m) <= HowMany(t, m)
<1>1. now \in Injection(PlacesOf(s, m), PlacesOf(t, m))
  BY DEF Injection, IsInjective
<1>2. Cardinality(PlacesOf(s, m)) <= Cardinality(PlacesOf(t, m))
  BY <1>1, PlacesFinite, FS_Injection
<1> QED
  BY <1>2, PlacesFinite

LEMMA JoinNotFewer ==
  ASSUME NEW S, NEW s \in Seq(S), NEW t \in Seq(S), NEW m
  PROVE  HowMany(s, m) <= HowMany(s \o t, m)
<1> DEFINE now == [i \in PlacesOf(s, m) |-> i]
<1>1. /\ s \o t \in Seq(S) /\ Len(s \o t) = Len(s) + Len(t)
      /\ \A i \in 1..(Len(s) + Len(t)) : (s \o t)[i] = IF i <= Len(s) THEN s[i] ELSE t[i - Len(s)]
      /\ Len(s) \in Nat /\ Len(t) \in Nat /\ DOMAIN (s \o t) = 1..Len(s \o t)
  BY ConcatProperties
<1>2. ASSUME NEW i \in PlacesOf(s, m) PROVE i \in PlacesOf(s \o t, m)
  <2>1. i \in 1..Len(s) /\ s[i] = m
    BY PlacesFinite DEF PlacesOf
  <2>2. i \in 1..(Len(s) + Len(t)) /\ i <= Len(s)
    BY <1>1, <2>1
  <2> QED
    BY <1>1, <2>1, <2>2 DEF PlacesOf
<1>3. now \in [PlacesOf(s, m) -> PlacesOf(s \o t, m)]
  BY <1>2
<1> QED
  BY <1>1, <1>3, NotFewer

LEMMA WithoutNotFewer ==
  ASSUME NEW S, NEW s \in Seq(S), NEW places, NEW m, \A i \in PlacesOf(s, m) : i \notin places
  PROVE  HowMany(s, m) <= HowMany(Without(s, places), m)
<1> DEFINE w == Without(s, places)
<1>1. /\ w \in Seq(S)
      /\ \E old \in [DOMAIN w -> DOMAIN s \ places] :
           /\ \A j \in DOMAIN w : w[j] = s[old[j]]
           /\ \A i \in DOMAIN s \ places : \E j \in DOMAIN w : old[j] = i
  BY WithoutPlaces
<1> HIDE DEF w
<1>2. PICK old \in [DOMAIN w -> DOMAIN s \ places] :
        /\ \A j \in DOMAIN w : w[j] = s[old[j]]
        /\ \A i \in DOMAIN s \ places : \E j \in DOMAIN w : old[j] = i
  BY <1>1
<1> DEFINE now == [i \in PlacesOf(s, m) |-> CHOOSE j \in DOMAIN w : old[j] = i]
<1>3. ASSUME NEW i \in PlacesOf(s, m)
      PROVE  now[i] \in PlacesOf(w, m) /\ old[now[i]] = i
  <2>1. i \in DOMAIN s \ places /\ s[i] = m
    BY DEF PlacesOf
  <2>2. \E j \in DOMAIN w : old[j] = i
    BY <1>2, <2>1
  <2>3. now[i] \in DOMAIN w /\ old[now[i]] = i
    BY <2>2
  <2> HIDE DEF now
  <2> QED
    BY <1>2, <2>1, <2>3 DEF PlacesOf
<1>4. now \in [PlacesOf(s, m) -> PlacesOf(w, m)]
  BY <1>3
<1>5. \A h, i \in PlacesOf(s, m) : now[h] = now[i] => h = i
  BY <1>3
<1> HIDE DEF now
<1> QED
  BY <1>1, <1>4, <1>5, NotFewer DEF w

\* The subscriptions that are there already stay when one is issued.
LEMMA IssueLeaves ==
  ASSUME TypeOK, NEW k \in Issued, NEW id \in IdsFor(k), NEW m,
         IssueRequest(k, id) \/ (IssueCancel(k, id) /\ ~Cancelled(m))
  PROVE  HowMany(msgs, m) <= HowMany(msgs', m)
<1>1. k \in Asked /\ id \in Ids \cup {0} /\ msgs \in Seq(Messages)
  BY DEF Asked, IdsFor, TypeOK
<1>2. Transmitted(k, id) \in Seq(Messages)
  BY <1>1, TransmittedOne
<1>3. HowMany(msgs, m) <= HowMany(msgs \o Transmitted(k, id), m)
  BY <1>1, <1>2, JoinNotFewer
<1>4. CASE IssueRequest(k, id)
  <2> DEFINE n == [kind |-> k, id |-> id, state |-> "WAIT_FOR_TRANSMIT"]
  <2>1. \/ msgs' = msgs \o <<n>> /\ k = "req_scanner_subscription"
        \/ msgs' = msgs \o Transmitted(k, id)
    BY <1>4 DEF IssueRequest
  <2>2. k = "req_scanner_subscription" => n \in Messages
    BY <1>1 DEF Messages, States
  <2> HIDE DEF n
  <2>3. k = "req_scanner_subscription" => <<n>> \in Seq(Messages)
    BY <2>2, OneMessage
  <2>4. k = "req_scanner_subscription" => HowMany(msgs, m) <= HowMany(msgs \o <<n>>, m)
    BY <1>1, <2>3, JoinNotFewer
  <2> QED
    BY <1>3, <2>1, <2>4
<1>5. CASE IssueCancel(k, id) /\ ~Cancelled(m)
  <2> DEFINE about == {i \in DOMAIN msgs : IsAbout(k, id, msgs[i])}
  <2>1. ~IsAbout(k, id, m)
    BY <1>5 DEF Cancelled
  <2>2. \A i \in PlacesOf(msgs, m) : i \notin about
    BY <2>1 DEF PlacesOf
  <2>3. msgs' = msgs \o Transmitted(k, id) \/ msgs' = Without(msgs, about)
    BY <1>5 DEF IssueCancel
  <2> HIDE DEF about
  <2>4. HowMany(msgs, m) <= HowMany(Without(msgs, about), m)
    BY <1>1, <2>2, WithoutNotFewer
  <2> QED
    BY <1>3, <2>3, <2>4
<1> QED
  BY <1>4, <1>5

\* A report takes out what it ends, however many that are, and adds behind.
LEMMA ReceiveLeaves ==
  ASSUME TypeOK, NEW r, NEW id, NEW what, NEW m, Receive(r, id, what),
         ~IsEnded(m, r, id, what)
  PROVE  HowMany(msgs, m) <= HowMany(msgs', m)
<1> DEFINE ended == {h \in DOMAIN msgs : IsEnded(msgs[h], r, id, what)}
           n     == IF r = "scanner_parameters" THEN Cardinality(ended) ELSE 0
           rest  == Without(msgs, ended)
<1>1. msgs \in Seq(Messages) /\ rest \in Seq(Messages)
  BY WithoutKeeps DEF TypeOK
<1>2. PICK free \in [1..n -> Ids] : msgs' = rest \o Subscribed(n, free)
  BY DEF Receive
<1>3. n \in Nat
  <2>1. ended \in SUBSET (1..Len(msgs)) /\ IsFiniteSet(1..Len(msgs))
    BY <1>1, FirstNumbers
  <2> QED
    BY <2>1, FS_Subset, FS_CardinalityType
<1>4. Subscribed(n, free) \in Seq(Messages)
  BY <1>2, <1>3, SubscribedType
<1>5. HowMany(msgs, m) <= HowMany(rest, m)
  <2>1. \A i \in PlacesOf(msgs, m) : i \notin ended
    BY DEF PlacesOf
  <2> HIDE DEF ended
  <2> QED
    BY <1>1, <2>1, WithoutNotFewer
<1> HIDE DEF rest, n
<1>6. HowMany(rest, m) <= HowMany(msgs', m)
  BY <1>1, <1>2, <1>4, JoinNotFewer
<1>7. msgs' \in Seq(Messages)
  BY <1>1, <1>2, <1>4, ConcatProperties
<1>8. HowMany(msgs, m) \in Nat /\ HowMany(rest, m) \in Nat /\ HowMany(msgs', m) \in Nat
  BY <1>1, <1>7, PlacesFinite
<1> QED
  BY <1>5, <1>6, <1>8

\* A try moves no other message.
LEMMA RetryLeaves ==
  ASSUME TypeOK, NEW i \in DOMAIN msgs, NEW m, Retry(i), msgs[i] # m
  PROVE  HowMany(msgs, m) <= HowMany(msgs', m)
<1>1. msgs \in Seq(Messages) /\ Len(msgs) \in Nat /\ i \in 1..Len(msgs)
  BY DEF TypeOK
<1>2. PICK n \in {0, 1} :
        /\ msgs' \in Seq(Messages) /\ Len(msgs') = Len(msgs) - 1 + n
        /\ \A j \in 1..(i - 1) : msgs'[j] = msgs[j]
        /\ \A j \in (i + 1)..Len(msgs) : msgs'[j - 1 + n] = msgs[j]
  BY RetryPlaces
<1> DEFINE now == [j \in PlacesOf(msgs, m) |-> IF j < i THEN j ELSE j - 1 + n]
<1>3. \A j \in PlacesOf(msgs, m) : j \in 1..Len(msgs) /\ j \in Int /\ j # i /\ msgs[j] = m
  BY <1>1, PlacesFinite DEF PlacesOf
<1>4. DOMAIN msgs' = 1..Len(msgs')
  BY <1>2
<1>5. ASSUME NEW j \in PlacesOf(msgs, m)
      PROVE  (IF j < i THEN j ELSE j - 1 + n) \in PlacesOf(msgs', m)
  <2>1. CASE j < i
    <3>1. j \in 1..(i - 1) /\ j \in 1..Len(msgs')
      BY <1>1, <1>2, <1>3, <2>1
    <3> QED
      BY <1>2, <1>3, <1>4, <2>1, <3>1 DEF PlacesOf
  <2>2. CASE ~(j < i)
    <3>1. j \in (i + 1)..Len(msgs) /\ j - 1 + n \in 1..Len(msgs')
      BY <1>1, <1>2, <1>3, <2>2
    <3>2. msgs'[j - 1 + n] = m
      BY <1>2, <1>3, <3>1
    <3> QED
      BY <1>4, <2>2, <3>1, <3>2 DEF PlacesOf
  <2> QED
    BY <2>1, <2>2
<1>6. now \in [PlacesOf(msgs, m) -> PlacesOf(msgs', m)]
  BY <1>5
<1>7. \A h, j \in PlacesOf(msgs, m) : now[h] = now[j] => h = j
  <2> SUFFICES ASSUME NEW h \in PlacesOf(msgs, m), NEW j \in PlacesOf(msgs, m), now[h] = now[j]
               PROVE  h = j
    OBVIOUS
  <2>1. (IF h < i THEN h ELSE h - 1 + n) = (IF j < i THEN j ELSE j - 1 + n)
    OBVIOUS
  <2> QED
    BY <1>1, <1>2, <1>3, <2>1
<1> HIDE DEF now
<1> QED
  BY <1>1, <1>2, <1>6, <1>7, NotFewer

\* A subscription goes only by what is meant for it.
LEMMA GoesIfMeant ==
  ASSUME TypeOK, [Next]_vars, NEW m, m.kind = "req_scanner_subscription",
         HowMany(msgs', m) < HowMany(msgs, m)
  PROVE  Cancelled(m) \/ IF IsReady(m) THEN Answer(m) ELSE Tried(m)
<1>1. msgs \in Seq(Messages) /\ msgs' \in Seq(Messages)
  BY NextType DEF TypeOK
<1>2. ~(HowMany(msgs, m) <= HowMany(msgs', m))
  <2>1. HowMany(msgs, m) \in Nat /\ HowMany(msgs', m) \in Nat
    BY <1>1, PlacesFinite
  <2> QED
    BY <2>1
<1>3. CASE Issue
  BY <1>2, <1>3, IssueLeaves DEF Issue
<1>4. CASE ReceiveAny
  <2> DEFINE By(r) == IF ResponseIdOf[r] = "none" THEN {0} ELSE Ids
  <2> PICK r \in Reported :
        \E what \in Details(r) : \E id \in By(r) : Receive(r, id, what)
    BY <1>4 DEF ReceiveAny
  <2>1. PICK what \in Details(r), id \in By(r) : Receive(r, id, what)
    OBVIOUS
  <2>2. IsEnded(m, r, id, what)
    BY <1>2, <2>1, ReceiveLeaves
  <2>3. IsReady(m) /\ r \in ListensTo(m.kind) /\ m.id = id
    BY <2>2 DEF IsEnded, EndsScan
  <2> QED
    BY <2>1, <2>3 DEF Answer
<1>5. CASE RetryAny
  <2>1. PICK i \in DOMAIN msgs : Retry(i)
    BY <1>5 DEF RetryAny
  <2>2. msgs[i] = m
    BY <1>2, <2>1, RetryLeaves
  <2>3. ~IsReady(m)
    BY <2>1, <2>2 DEF Retry, IsReady
  <2> QED
    BY <2>1, <2>2, <2>3 DEF Tried
<1>6. CASE Lose \/ Connect \/ UNCHANGED vars
  <2>1. msgs' = msgs
    BY <1>6 DEF Lose, Connect, vars
  <2>2. HowMany(msgs, m) \in Nat /\ HowMany(msgs', m) = HowMany(msgs, m)
    BY <1>1, <2>1, PlacesFinite
  <2> QED
    BY <1>2, <2>2
<1> QED
  BY <1>3, <1>4, <1>5, <1>6 DEF Next

\* On no step does a subscription go that nothing is meant for, however many
\* requests end, are aborted or are alike (scan_queue_and_process(),
\* cancel_all_matching_requests(), pulse_pending_issues()).
THEOREM NoneGoesByMistake == Spec => OthersKeepRunning
<1> DEFINE A == \A i \in DOMAIN msgs :
                  msgs[i].kind = "req_scanner_subscription"
                  /\ HowMany(msgs', msgs[i]) < HowMany(msgs, msgs[i])
                    => \/ Cancelled(msgs[i])
                       \/ IF IsReady(msgs[i]) THEN Answer(msgs[i]) ELSE Tried(msgs[i])
<1>1. TypeOK /\ [Next]_vars => [A]_vars
  BY GoesIfMeant
<1>2. Spec => [][A]_vars
  BY <1>1, DispatchTypes, PTL DEF Spec
<1> QED
  BY <1>2 DEF OthersKeepRunning

-----------------------------------------------------------------------------
(* Slots *)

\* The subscriptions among the messages of s that take up a slot.
RunningIn(s) == {i \in DOMAIN s : s[i].kind = "req_scanner_subscription" /\ IsReady(s[i])}

\* The subscriptions that run never take up more slots than the limiter has.
SlotBound == Cardinality(Running) <= MaxActive

LEMMA RunningFinite ==
  ASSUME NEW S, NEW s \in Seq(S)
  PROVE  /\ RunningIn(s) \subseteq 1..Len(s) /\ DOMAIN s = 1..Len(s) /\ Len(s) \in Nat
         /\ IsFiniteSet(RunningIn(s)) /\ Cardinality(RunningIn(s)) \in Nat
<1>1. DOMAIN s = 1..Len(s) /\ Len(s) \in Nat /\ IsFiniteSet(1..Len(s))
  BY FirstNumbers
<1>2. RunningIn(s) \in SUBSET (1..Len(s))
  BY <1>1 DEF RunningIn
<1> QED
  BY <1>1, <1>2, FS_Subset, FS_CardinalityType

\* If all that run now but those of X ran before, at places of their own, there
\* are at most as many more as X has.
LEMMA RunningGrows ==
  ASSUME NEW S, NEW s \in Seq(S), NEW t \in Seq(S), NEW X, IsFiniteSet(X),
         NEW was \in [RunningIn(t) \ X -> RunningIn(s)],
         \A h, j \in RunningIn(t) \ X : was[h] = was[j] => h = j
  PROVE  Cardinality(RunningIn(t)) <= Cardinality(RunningIn(s)) + Cardinality(X)
<1> DEFINE A == RunningIn(t) \ X
<1>1. was \in Injection(A, RunningIn(s))
  BY DEF Injection, IsInjective
<1>2. IsFiniteSet(RunningIn(s)) /\ Cardinality(RunningIn(s)) \in Nat
      /\ IsFiniteSet(RunningIn(t)) /\ Cardinality(RunningIn(t)) \in Nat
  BY RunningFinite
<1>3. IsFiniteSet(A) /\ Cardinality(A) <= Cardinality(RunningIn(s))
  BY <1>1, <1>2, FS_Injection
<1>4. /\ Cardinality(A) \in Nat /\ Cardinality(X) \in Nat /\ IsFiniteSet(A \cup X)
      /\ Cardinality(A \cup X) = Cardinality(A) + Cardinality(X) - Cardinality(A \cap X)
  BY <1>3, FS_Union, FS_CardinalityType
<1>5. Cardinality(A \cap X) = 0
  <2>1. A \cap X = {}
    OBVIOUS
  <2> QED
    BY <2>1, FS_EmptySet
<1>6. RunningIn(t) \in SUBSET (A \cup X)
  OBVIOUS
<1>7. Cardinality(RunningIn(t)) <= Cardinality(A \cup X)
  BY <1>4, <1>6, FS_Subset
<1> HIDE DEF A
<1> QED
  BY <1>2, <1>3, <1>4, <1>5, <1>7

LEMMA JoinSlots ==
  ASSUME NEW S, NEW s \in Seq(S), NEW t \in Seq(S), NEW n \in Nat, RunningIn(t) \subseteq 1..n
  PROVE  Cardinality(RunningIn(s \o t)) <= Cardinality(RunningIn(s)) + n
<1> DEFINE X   == (Len(s) + 1)..(Len(s) + n)
           was == [i \in RunningIn(s \o t) \ X |-> i]
<1>1. /\ s \o t \in Seq(S) /\ Len(s \o t) = Len(s) + Len(t)
      /\ \A i \in 1..(Len(s) + Len(t)) : (s \o t)[i] = IF i <= Len(s) THEN s[i] ELSE t[i - Len(s)]
      /\ Len(s) \in Nat /\ Len(t) \in Nat /\ DOMAIN s = 1..Len(s) /\ DOMAIN t = 1..Len(t)
  BY ConcatProperties, LenProperties
<1>2. IsFiniteSet(X) /\ Cardinality(X) = n
  <2>1. /\ Len(s) + 1 \in Int /\ Len(s) + n \in Int
        /\ Len(s) + 1 > Len(s) + n <=> n = 0
        /\ (Len(s) + n) - (Len(s) + 1) + 1 = n
    BY <1>1
  <2> QED
    BY <2>1, FS_Interval
<1>3. ASSUME NEW i \in RunningIn(s \o t) \ X PROVE i \in RunningIn(s)
  <2>1. i \in 1..(Len(s) + Len(t)) /\ (s \o t)[i].kind = "req_scanner_subscription"
        /\ IsReady((s \o t)[i])
    BY <1>1, RunningFinite DEF RunningIn
  <2>2. CASE i <= Len(s)
    <3>1. i \in DOMAIN s /\ (s \o t)[i] = s[i]
      BY <1>1, <2>1, <2>2
    <3> QED
      BY <2>1, <3>1 DEF RunningIn
  <2>3. CASE i > Len(s)
    <3>1. i - Len(s) \in DOMAIN t /\ (s \o t)[i] = t[i - Len(s)]
      BY <1>1, <2>1, <2>3
    <3>2. i - Len(s) \in RunningIn(t)
      BY <2>1, <3>1 DEF RunningIn
    <3>3. i \in X
      BY <1>1, <2>1, <2>3, <3>2
    <3> QED
      BY <3>3
  <2> QED
    BY <1>1, <2>1, <2>2, <2>3
<1>4. was \in [RunningIn(s \o t) \ X -> RunningIn(s)]
  BY <1>3
<1>5. \A h, j \in RunningIn(s \o t) \ X : was[h] = was[j] => h = j
  OBVIOUS
<1> HIDE DEF X, was
<1>6. Cardinality(RunningIn(s \o t)) <= Cardinality(RunningIn(s)) + Cardinality(X)
  BY <1>1, <1>2, <1>4, <1>5, RunningGrows
<1> QED
  BY <1>2, <1>6

LEMMA WithoutSlots ==
  ASSUME NEW S, NEW s \in Seq(S), NEW places
  PROVE  Cardinality(RunningIn(Without(s, places))) <= Cardinality(RunningIn(s))
<1> DEFINE w == Without(s, places)
<1>1. /\ w \in Seq(S)
      /\ \E old \in [DOMAIN w -> DOMAIN s \ places] :
           /\ \A j \in DOMAIN w : w[j] = s[old[j]]
           /\ \A h, j \in DOMAIN w : h < j => old[h] < old[j]
  BY WithoutPlaces
<1> HIDE DEF w
<1>2. PICK old \in [DOMAIN w -> DOMAIN s \ places] :
        /\ \A j \in DOMAIN w : w[j] = s[old[j]]
        /\ \A h, j \in DOMAIN w : h < j => old[h] < old[j]
  BY <1>1
<1> DEFINE was == [j \in RunningIn(w) \ {} |-> old[j]]
<1>3. was \in [RunningIn(w) \ {} -> RunningIn(s)]
  BY <1>2 DEF RunningIn
<1>4. \A h, j \in RunningIn(w) \ {} : was[h] = was[j] => h = j
  <2> SUFFICES ASSUME NEW h \in RunningIn(w), NEW j \in RunningIn(w), h # j
               PROVE  old[h] # old[j]
    OBVIOUS
  <2>1. h \in 1..Len(w) /\ j \in 1..Len(w) /\ DOMAIN w = 1..Len(w) /\ Len(w) \in Nat
    BY <1>1, RunningFinite
  <2>2. h < j \/ j < h
    BY <2>1
  <2>3. old[h] \in 1..Len(s) /\ old[j] \in 1..Len(s)
    BY <1>2, <2>1
  <2>4. old[h] < old[j] \/ old[j] < old[h]
    BY <1>2, <2>1, <2>2
  <2> QED
    BY <2>3, <2>4
<1> HIDE DEF was
<1>5. IsFiniteSet({}) /\ Cardinality({}) = 0
  BY FS_EmptySet
<1>6. Cardinality(RunningIn(w)) <= Cardinality(RunningIn(s)) + Cardinality({})
  BY <1>1, <1>3, <1>4, <1>5, RunningGrows
<1>7. Cardinality(RunningIn(s)) \in Nat
  BY RunningFinite
<1> QED
  BY <1>5, <1>6, <1>7 DEF w

\* A message that was transmitted is the only one; other kinds take up no slot.
LEMMA TransmittedSlots ==
  ASSUME NEW k \in Asked, NEW id \in Ids \cup {0}
  PROVE  /\ RunningIn(Transmitted(k, id)) \subseteq 1..1
         /\ k # "req_scanner_subscription" => RunningIn(Transmitted(k, id)) \subseteq 1..0
<1>1. /\ Transmitted(k, id) \in Seq(Messages)
      /\ \A i \in DOMAIN Transmitted(k, id) : Transmitted(k, id)[i].kind = k
  BY TransmittedOne
<1>2. DOMAIN Transmitted(k, id) \subseteq {1}
  BY DEF Transmitted
<1> QED
  BY <1>1, <1>2 DEF RunningIn

LEMMA IssueSlots ==
  ASSUME TypeOK, SlotBound, NEW k \in Issued, NEW id \in IdsFor(k),
         IssueRequest(k, id) \/ IssueCancel(k, id)
  PROVE  SlotBound'
<1>1. k \in Asked /\ id \in Ids \cup {0} /\ msgs \in Seq(Messages) /\ MaxActive \in Nat
  BY DispatchAssumption DEF Asked, IdsFor, TypeOK, DispatchAssumption
<1>2. Running = RunningIn(msgs) /\ Running' = RunningIn(msgs') /\ Cardinality(Running) \in Nat
  BY <1>1, RunningFinite DEF Running, RunningIn
<1> DEFINE new == Transmitted(k, id)
<1>3. new \in Seq(Messages)
  BY <1>1, TransmittedOne
<1>4. Cardinality(RunningIn(msgs \o new)) <= Cardinality(RunningIn(msgs)) + 1
  BY <1>1, <1>3, TransmittedSlots, JoinSlots
<1>5. k # "req_scanner_subscription" =>
        Cardinality(RunningIn(msgs \o new)) <= Cardinality(RunningIn(msgs)) + 0
  BY <1>1, <1>3, TransmittedSlots, JoinSlots
<1>6. /\ msgs \o new \in Seq(Messages)
      /\ Cardinality(RunningIn(msgs \o new)) \in Nat
  BY <1>1, <1>3, ConcatProperties, RunningFinite
<1> HIDE DEF new
<1>7. CASE IssueRequest(k, id)
  <2>1. CASE k = "req_scanner_subscription" /\ Cardinality(Running) >= MaxActive
    <3> DEFINE m == [kind |-> k, id |-> id, state |-> "WAIT_FOR_TRANSMIT"]
    <3>1. msgs' = msgs \o <<m>>
      BY <1>7, <2>1 DEF IssueRequest
    <3>2. m \in Messages
      BY <1>1, <2>1 DEF Messages, States
    <3>3. ~IsReady(m)
      BY DEF IsReady
    <3> HIDE DEF m
    <3>4. <<m>> \in Seq(Messages) /\ DOMAIN <<m>> = {1} /\ <<m>>[1] = m
      BY <3>2, OneMessage
    <3>5. RunningIn(<<m>>) \subseteq 1..0
      BY <3>3, <3>4 DEF RunningIn
    <3>6. Cardinality(RunningIn(msgs \o <<m>>)) <= Cardinality(RunningIn(msgs)) + 0
      BY <1>1, <3>4, <3>5, JoinSlots
    <3>7. Cardinality(RunningIn(msgs \o <<m>>)) \in Nat
      BY <1>1, <3>4, ConcatProperties, RunningFinite
    <3> QED
      BY <1>1, <1>2, <3>1, <3>6, <3>7 DEF SlotBound
  <2>2. CASE ~(k = "req_scanner_subscription" /\ Cardinality(Running) >= MaxActive)
    <3>1. msgs' = msgs \o new
      BY <1>7, <2>2 DEF IssueRequest, new
    <3>2. CASE k # "req_scanner_subscription"
      BY <1>1, <1>2, <1>5, <1>6, <3>1, <3>2 DEF SlotBound
    <3>3. CASE k = "req_scanner_subscription"
      <4>1. Cardinality(Running) < MaxActive
        BY <1>1, <1>2, <2>2, <3>3
      <4> QED
        BY <1>1, <1>2, <1>4, <1>6, <3>1, <4>1 DEF SlotBound
    <3> QED
      BY <3>2, <3>3
  <2> QED
    BY <2>1, <2>2
<1>8. CASE IssueCancel(k, id)
  <2> DEFINE about == {i \in DOMAIN msgs : IsAbout(k, id, msgs[i])}
  <2>1. k # "req_scanner_subscription"
    BY <1>8 DEF IssueCancel, Cancels, EarlyCancels, LateCancels
  <2>2. CASE about = {}
    <3>1. msgs' = msgs \o new
      BY <1>8, <2>2 DEF IssueCancel, new
    <3> QED
      BY <1>1, <1>2, <1>5, <1>6, <2>1, <3>1 DEF SlotBound
  <2>3. CASE about # {}
    <3>1. msgs' = Without(msgs, about)
      BY <1>8, <2>3 DEF IssueCancel
    <3> HIDE DEF about
    <3>2. /\ Cardinality(RunningIn(Without(msgs, about))) <= Cardinality(RunningIn(msgs))
          /\ Without(msgs, about) \in Seq(Messages)
      BY <1>1, WithoutSlots, WithoutKeeps
    <3>3. Cardinality(RunningIn(Without(msgs, about))) \in Nat
      BY <3>2, RunningFinite
    <3> QED
      BY <1>1, <1>2, <3>1, <3>2, <3>3 DEF SlotBound
  <2> QED
    BY <2>2, <2>3
<1> QED
  BY <1>7, <1>8

\* The subscription at i takes a free slot, or goes; those behind it move up.
LEMMA RetrySlots ==
  ASSUME TypeOK, SlotBound, NEW i \in DOMAIN msgs, Retry(i)
  PROVE  SlotBound'
<1>1. /\ msgs \in Seq(Messages) /\ MaxActive \in Nat
      /\ Len(msgs) \in Nat /\ DOMAIN msgs = 1..Len(msgs) /\ i \in 1..Len(msgs)
  BY DispatchAssumption DEF TypeOK, DispatchAssumption
<1>2. /\ Running = RunningIn(msgs) /\ Cardinality(Running) \in Nat
      /\ Cardinality(Running) < MaxActive
  BY <1>1, RunningFinite DEF Running, RunningIn, Retry
<1>3. PICK n \in {0, 1} :
        /\ msgs' \in Seq(Messages) /\ Len(msgs') = Len(msgs) - 1 + n
        /\ \A j \in 1..(i - 1) : msgs'[j] = msgs[j]
        /\ \A j \in (i + 1)..Len(msgs) : msgs'[j - 1 + n] = msgs[j]
  BY RetryPlaces
<1> DEFINE X   == i..(i + n - 1)
           was == [j \in RunningIn(msgs') \ X |-> IF j < i THEN j ELSE j + 1 - n]
<1>4. IsFiniteSet(X) /\ Cardinality(X) \in Nat /\ Cardinality(X) <= 1
  <2>1. /\ i \in Int /\ i + n - 1 \in Int
        /\ i > i + n - 1 <=> n = 0
        /\ (i + n - 1) - i + 1 = n
    BY <1>1, <1>3
  <2>2. IsFiniteSet(X) /\ Cardinality(X) = n
    BY <2>1, <1>3, FS_Interval
  <2> HIDE DEF X
  <2> QED
    BY <2>2, <1>3
<1>5. ASSUME NEW j \in RunningIn(msgs') \ X
      PROVE  (IF j < i THEN j ELSE j + 1 - n) \in RunningIn(msgs)
  <2>1. /\ j \in 1..Len(msgs') /\ j \in Int
        /\ msgs'[j].kind = "req_scanner_subscription" /\ IsReady(msgs'[j])
    BY <1>3, RunningFinite DEF RunningIn
  <2>2. CASE j < i
    <3>1. j \in 1..(i - 1) /\ j \in 1..Len(msgs)
      BY <1>1, <2>1, <2>2
    <3> QED
      BY <1>1, <1>3, <2>1, <2>2, <3>1 DEF RunningIn
  <2>3. CASE ~(j < i)
    <3>1. j > i - 1 + n
      BY <1>1, <1>3, <2>1, <2>3
    <3>2. /\ j + 1 - n \in (i + 1)..Len(msgs) /\ j + 1 - n \in 1..Len(msgs)
          /\ (j + 1 - n) - 1 + n = j
      BY <1>1, <1>3, <2>1, <3>1
    <3>3. msgs'[j] = msgs[j + 1 - n]
      <4> DEFINE h == j + 1 - n
      <4>1. h \in (i + 1)..Len(msgs) /\ h - 1 + n = j
        BY <3>2
      <4> HIDE DEF h
      <4>2. msgs'[h - 1 + n] = msgs[h]
        BY <1>3, <4>1
      <4> QED
        BY <4>1, <4>2 DEF h
    <3> QED
      BY <1>1, <2>1, <2>3, <3>2, <3>3 DEF RunningIn
  <2> QED
    BY <2>2, <2>3
<1>6. was \in [RunningIn(msgs') \ X -> RunningIn(msgs)]
  BY <1>5
<1>7. \A h, j \in RunningIn(msgs') \ X : was[h] = was[j] => h = j
  <2> SUFFICES ASSUME NEW h \in RunningIn(msgs') \ X, NEW j \in RunningIn(msgs') \ X,
                      was[h] = was[j]
               PROVE  h = j
    OBVIOUS
  <2>1. h \in Int /\ j \in Int
    BY <1>3, RunningFinite
  <2>2. (IF h < i THEN h ELSE h + 1 - n) = (IF j < i THEN j ELSE j + 1 - n)
    OBVIOUS
  <2>3. (h < i \/ h > i - 1 + n) /\ (j < i \/ j > i - 1 + n)
    BY <1>1, <1>3, <2>1
  <2> QED
    BY <1>1, <1>3, <2>1, <2>2, <2>3
<1> HIDE DEF was, X
<1>8. Cardinality(RunningIn(msgs')) <= Cardinality(RunningIn(msgs)) + Cardinality(X)
  BY <1>1, <1>3, <1>4, <1>6, <1>7, RunningGrows
<1>9. Running' = RunningIn(msgs') /\ Cardinality(RunningIn(msgs')) \in Nat
  BY <1>3, RunningFinite DEF Running, RunningIn
<1> QED
  BY <1>1, <1>2, <1>4, <1>8, <1>9 DEF SlotBound

\* The new subscriptions are transmitted as long as there are slots.
LEMMA ReceiveSlots ==
  ASSUME TypeOK, SlotBound, NEW r, NEW id, NEW what, Receive(r, id, what)
  PROVE  SlotBound'
<1> DEFINE ended == {i \in DOMAIN msgs : IsEnded(msgs[i], r, id, what)}
           n     == IF r = "scanner_parameters" THEN Cardinality(ended) ELSE 0
           rest  == Without(msgs, ended)
<1>1. msgs \in Seq(Messages) /\ rest \in Seq(Messages) /\ MaxActive \in Nat
  BY WithoutKeeps, DispatchAssumption DEF TypeOK, DispatchAssumption
<1>2. PICK free \in [1..n -> Ids] : msgs' = rest \o Subscribed(n, free)
  BY DEF Receive
<1>3. n \in Nat
  <2>1. ended \in SUBSET (1..Len(msgs)) /\ IsFiniteSet(1..Len(msgs))
    BY <1>1, FirstNumbers
  <2> QED
    BY <2>1, FS_Subset, FS_CardinalityType
<1>4. Cardinality(RunningIn(rest)) <= Cardinality(RunningIn(msgs))
  BY <1>1, WithoutSlots
<1> HIDE DEF rest, n
<1>5. /\ Running = RunningIn(msgs) /\ Cardinality(Running) \in Nat
      /\ Cardinality(RunningIn(rest)) \in Nat
  BY <1>1, RunningFinite DEF Running, RunningIn
<1> DEFINE more == Subscribed(n, free)
           left == MaxActive - Cardinality(Running)
<1>6. more \in Seq(Messages)
  BY <1>2, <1>3, SubscribedType
<1>7. left \in Nat
  BY <1>1, <1>5 DEF SlotBound
<1>8. RunningIn(more) \subseteq 1..left
  <2> SUFFICES ASSUME NEW i \in RunningIn(more) PROVE i \in 1..left
    OBVIOUS
  <2>1. i \in DOMAIN more /\ i \in 1..Len(more) /\ more[i].state = "READY_TO_RECEIVE_RESPONSE"
    BY <1>6, RunningFinite DEF RunningIn, IsReady
  <2>2. more # <<>>
    BY <2>1
  <2>3. DOMAIN more = 1..n /\ more[i].state = IF Cardinality(Running) + i > MaxActive
                                              THEN "WAIT_FOR_TRANSMIT"
                                              ELSE "READY_TO_RECEIVE_RESPONSE"
    BY <2>1, <2>2 DEF Subscribed
  <2>4. ~(Cardinality(Running) + i > MaxActive)
    BY <2>1, <2>3
  <2> QED
    BY <1>1, <1>5, <2>1, <2>4
<1> HIDE DEF more, left
<1>9. Cardinality(RunningIn(rest \o more)) <= Cardinality(RunningIn(rest)) + left
  BY <1>1, <1>6, <1>7, <1>8, JoinSlots
<1>10. /\ Running' = RunningIn(msgs') /\ msgs' = rest \o more
       /\ Cardinality(RunningIn(rest \o more)) \in Nat
  <2>1. rest \o more \in Seq(Messages)
    BY <1>1, <1>6, ConcatProperties
  <2> QED
    BY <1>2, <2>1, RunningFinite DEF Running, RunningIn, more
<1> QED
  BY <1>1, <1>4, <1>5, <1>7, <1>9, <1>10 DEF SlotBound, left

\* No more subscriptions run than there are slots, whatever is cancelled, ended,
\* lost with the connection or tried again
\* (ib_tws_scanner_subscription_limitation::process()).
THEOREM SlotsKept == Spec => []SlotBound
<1>1. Init => SlotBound
  <2> SUFFICES ASSUME Init PROVE SlotBound
    OBVIOUS
  <2>1. Running = {} /\ MaxActive \in Nat
    BY DispatchAssumption DEF Init, Running, DispatchAssumption
  <2> QED
    BY <2>1, FS_EmptySet DEF SlotBound
<1>2. TypeOK /\ SlotBound /\ [Next]_vars => SlotBound'
  <2> SUFFICES ASSUME TypeOK, SlotBound, [Next]_vars PROVE SlotBound'
    OBVIOUS
  <2>1. CASE Issue
    BY <2>1, IssueSlots DEF Issue
  <2>2. CASE ReceiveAny
    BY <2>2, ReceiveSlots DEF ReceiveAny
  <2>3. CASE RetryAny
    BY <2>3, RetrySlots DEF RetryAny
  <2>4. CASE Lose \/ Connect \/ UNCHANGED vars
    BY <2>4 DEF Lose, Connect, vars, SlotBound, Running
  <2> QED
    BY <2>1, <2>2, <2>3, <2>4 DEF Next
<1> QED
  BY <1>1, <1>2, DispatchTypes, PTL DEF Spec
=============================================================================
