-------------------------- MODULE MarketScansProofs --------------------------
(***************************************************************************)
(* Proofs about MarketScans, for any farms, scans and bounds. Invariant is *)
(* inductive: it says how the flag, the requests that wait, the answers    *)
(* TWS owes and the connection belong together.                            *)
(***************************************************************************)
EXTENDS MarketScans, FiniteSetTheorems, SequenceTheorems, WellFoundedInduction, TLAPS

\* The request that is lost with the connection; it waits for nothing.
Lost == IF link = "lost" THEN 1 ELSE 0

\* On a connection TWS is asked once, when the flag is cleared, and answers once.
AskedOK ==
  /\ asked <= 1 /\ owed <= asked
  /\ prime /\ link # "down" => asked = 0
  /\ link = "up" /\ ~prime => asked = 1

\* Without a connection there is nothing TWS said or is asked for.
DownOK ==
  /\ link = "down" => up = NoFarms /\ asked = 0
  /\ link = "lost" => drops > 0

\* The flag is up as long as one list is empty, or all it says is old.
PrimeOK == prime => up = NoFarms \/ \E s \in Sorts : listed[s] = <<>>

\* What waits, and what was subscribed to, before and after the answer.
CountsOK ==
  /\ waiting + Lost <= owed + drops
  /\ \A c \in Scans : /\ subs[c] + Lost <= 1 + drops
                      /\ owed = 1 \/ asked = 0 => subs[c] = 0

Invariant ==
  TypeOK /\ UpIsListed /\ AskedOK /\ DownOK /\ PrimeOK /\ CountsOK

-----------------------------------------------------------------------------

\* A set of natural numbers has a smallest.
LEMMA SmallestNumber ==
  ASSUME NEW N, N \subseteq Nat, N # {}
  PROVE  \E i \in N : \A j \in N : i <= j
<1> DEFINE less == {ss \in Nat \X Nat : ss[1] < ss[2]}
<1>1. IsWellFoundedOn(less, Nat)
  BY NatLessThanWellFounded DEF OpToRel
<1> HIDE DEF less
<1>2. PICK i \in N : \A j \in N : ~(<<j, i>> \in less)
  BY <1>1, WFMin
<1>3. \A j \in N : ~(j < i)
  BY <1>2 DEF less
<1> QED
  BY <1>2, <1>3

\* Appending adds one member.
LEMMA Appended ==
  ASSUME NEW S, NEW q \in Seq(S), NEW x \in S
  PROVE  Append(q, x) \in Seq(S) /\ Range(Append(q, x)) = Range(q) \cup {x}
<1> DEFINE a == Append(q, x)
<1>1. /\ a \in Seq(S) /\ DOMAIN a = 1..(Len(q) + 1) /\ DOMAIN q = 1..Len(q) /\ Len(q) \in Nat
      /\ \A i \in 1..Len(q) : a[i] = q[i]
      /\ a[Len(q) + 1] = x
  OBVIOUS
<1> HIDE DEF a
<1>2. \A i \in DOMAIN a : a[i] \in Range(q) \cup {x}
  BY <1>1 DEF Range
<1>3. \A i \in DOMAIN q : i \in DOMAIN a /\ a[i] = q[i]
  BY <1>1
<1>4. Len(q) + 1 \in DOMAIN a /\ a[Len(q) + 1] = x
  BY <1>1
<1>5. Range(a) \subseteq Range(q) \cup {x}
  BY <1>2 DEF Range
<1>6. Range(q) \cup {x} \subseteq Range(a)
  BY <1>3, <1>4 DEF Range
<1> QED
  BY <1>1, <1>5, <1>6 DEF a

\* Removing one element keeps every other one.
LEMMA OthersStay ==
  ASSUME NEW S, NEW s \in Seq(S), NEW i \in DOMAIN s
  PROVE  /\ RemoveAt(s, i) \in Seq(S)
         /\ \A j \in DOMAIN s : j # i =>
              \E h \in DOMAIN RemoveAt(s, i) : RemoveAt(s, i)[h] = s[j]
<1> DEFINE p == SubSeq(s, 1, i - 1)
           q == SubSeq(s, i + 1, Len(s))
<1>1. /\ p \in Seq(S) /\ Len(p) = i - 1 /\ \A j \in 1..(i - 1) : p[j] = s[j]
      /\ q \in Seq(S) /\ Len(q) = Len(s) - i /\ \A j \in 1..(Len(s) - i) : q[j] = s[i + j]
      /\ Len(s) \in Nat /\ DOMAIN s = 1..Len(s)
  OBVIOUS
<1>2. RemoveAt(s, i) = p \o q
  BY DEF RemoveAt
<1>0. i \in 1..Len(s) /\ DOMAIN s = 1..Len(s) /\ Len(s) \in Nat
  BY <1>1
<1> HIDE DEF p, q
<1>3. /\ p \o q \in Seq(S) /\ Len(p \o q) = Len(s) - 1
      /\ \A h \in 1..(Len(s) - 1) : (p \o q)[h] = IF h <= i - 1 THEN p[h] ELSE q[h - (i - 1)]
  <2>1. /\ p \o q \in Seq(S) /\ Len(p \o q) = Len(p) + Len(q)
        /\ \A h \in 1..(Len(p) + Len(q)) :
             (p \o q)[h] = IF h <= Len(p) THEN p[h] ELSE q[h - Len(p)]
    BY <1>1, ConcatProperties
  <2>2. Len(p) = i - 1 /\ Len(q) = Len(s) - i
    BY <1>1
  <2>3. Len(p) + Len(q) = Len(s) - 1
    BY <1>0, <2>2
  <2> QED
    BY <2>1, <2>2, <2>3
<1>4. ASSUME NEW j \in DOMAIN s, j < i
      PROVE  j \in DOMAIN (p \o q) /\ (p \o q)[j] = s[j]
  <2>1. j \in 1..(Len(s) - 1) /\ j \in 1..(i - 1) /\ j <= i - 1
    BY <1>0, <1>4
  <2> QED
    BY <1>1, <1>3, <2>1
<1>5. ASSUME NEW j \in DOMAIN s, j > i
      PROVE  j - 1 \in DOMAIN (p \o q) /\ (p \o q)[j - 1] = s[j]
  <2>1. j - i \in 1..(Len(s) - i) /\ i + (j - i) = j /\ (j - 1) - (i - 1) = j - i
    BY <1>0, <1>5
  <2>2. j - 1 \in 1..(Len(s) - 1) /\ ~(j - 1 <= i - 1)
    BY <1>0, <1>5
  <2>3. (p \o q)[j - 1] = q[j - i]
    BY <1>3, <2>1, <2>2
  <2>4. q[j - i] = s[i + (j - i)]
    BY <1>1, <2>1
  <2>5. DOMAIN (p \o q) = 1..(Len(s) - 1)
    BY <1>3
  <2> QED
    BY <2>1, <2>2, <2>3, <2>4, <2>5
<1>6. \A j \in DOMAIN s : j # i => j < i \/ j > i
  BY <1>1
<1> QED
  BY <1>2, <1>3, <1>4, <1>5, <1>6

\* Of the list without the first entry of a name, no other name is missing.
LEMMA WithoutFirstKeeps ==
  ASSUME NEW S, NEW q \in Seq(S), NEW f
  PROVE  /\ WithoutFirst(q, f) \in Seq(S)
         /\ Range(q) \ {f} \subseteq Range(WithoutFirst(q, f))
<1>1. CASE \E i \in DOMAIN q : q[i] = f
  <2> DEFINE First(i) == q[i] = f /\ \A j \in 1..(i - 1) : q[j] # f
  <2>1. \E i \in DOMAIN q : First(i)
    <3> DEFINE At == {i \in DOMAIN q : q[i] = f}
    <3>1. At # {} /\ At \subseteq Nat /\ DOMAIN q = 1..Len(q) /\ Len(q) \in Nat
      BY <1>1
    <3>2. PICK i \in At : \A j \in At : i <= j
      BY <3>1, SmallestNumber
    <3>3. \A j \in 1..(i - 1) : q[j] # f
      BY <3>1, <3>2
    <3> QED
      BY <3>2, <3>3
  <2> DEFINE k == CHOOSE i \in DOMAIN q : First(i)
  <2>2. k \in DOMAIN q /\ q[k] = f
    BY <2>1
  <2>3. WithoutFirst(q, f) = RemoveAt(q, k)
    BY <1>1 DEF WithoutFirst
  <2> HIDE DEF k
  <2>4. PICK w : w = RemoveAt(q, k)
    OBVIOUS
  <2>5. /\ w \in Seq(S)
        /\ \A j \in DOMAIN q : j # k => \E i \in DOMAIN w : w[i] = q[j]
    BY <2>2, <2>4, OthersStay
  <2>6. ASSUME NEW x \in Range(q), x # f PROVE x \in Range(w)
    <3>1. PICK j \in DOMAIN q : q[j] = x
      BY <2>6 DEF Range
    <3>2. PICK i \in DOMAIN w : w[i] = x
      BY <3>1, <2>2, <2>5, <2>6
    <3> QED
      BY <3>2 DEF Range
  <2> QED
    BY <2>3, <2>4, <2>5, <2>6
<1>2. CASE ~\E i \in DOMAIN q : q[i] = f
  BY <1>2 DEF WithoutFirst
<1> QED
  BY <1>1, <1>2

-----------------------------------------------------------------------------

\* What the counters and the flag must satisfy, apart from the farms.
Sound == AskedOK /\ DownOK /\ PrimeOK /\ CountsOK

LEMMA InitInvariant == Init => Invariant
<1> SUFFICES ASSUME Init PROVE Invariant
  OBVIOUS
<1> USE ScansAssumption DEF ScansAssumption, Init
<1>1. TypeOK
  <2>1. /\ up \in [Sorts -> SUBSET Farms]
        /\ listed \in [Sorts -> Seq(Farms)]
        /\ subs \in [Scans -> Nat]
    BY DEF NoFarms
  <2> QED
    BY <2>1 DEF TypeOK, Links
<1>2. UpIsListed
  BY DEF UpIsListed, NoFarms
<1>3. AskedOK /\ DownOK /\ PrimeOK
  BY DEF AskedOK, DownOK, PrimeOK
<1>4. CountsOK
  BY DEF CountsOK, Lost
<1> QED
  BY <1>1, <1>2, <1>3, <1>4 DEF Invariant

\* A report about a farm: whatever the lists have become, TWS is asked when it
\* may be asked, and no more than once.
LEMMA PrimeStep ==
  ASSUME TypeOK, Sound, Connected, PrimeThePump, UNCHANGED <<conn, subs, bad>>
  PROVE  /\ prime' \in BOOLEAN /\ waiting' \in Nat /\ asked' \in Nat /\ owed' \in Nat
         /\ AskedOK' /\ DownOK' /\ PrimeOK' /\ CountsOK'
<1> USE DEF TypeOK, Sound, Connected, conn
<1>1. CASE prime /\ (\A s \in Sorts : listed'[s] # <<>>) /\ link = "up"
  <2>1. /\ prime' = FALSE /\ waiting' = waiting + 1 /\ asked' = asked + 1
        /\ owed' = owed + 1 /\ UNCHANGED <<link, drops, subs>>
    BY <1>1 DEF PrimeThePump, Ask
  <2>2. asked = 0 /\ owed = 0
    BY <1>1 DEF AskedOK
  <2>3. AskedOK' /\ DownOK' /\ PrimeOK'
    BY <1>1, <2>1, <2>2 DEF AskedOK, DownOK, PrimeOK
  <2>4. CountsOK'
    BY <1>1, <2>1, <2>2 DEF CountsOK, Lost
  <2>5. waiting \in Nat /\ asked \in Nat /\ owed \in Nat
    OBVIOUS
  <2> HIDE DEF TypeOK, Sound, Connected, conn
  <2>6. waiting' \in Nat /\ asked' \in Nat /\ owed' \in Nat
    BY <2>1, <2>5
  <2> QED
    BY <2>1, <2>3, <2>4, <2>6
<1>2. CASE prime /\ (\A s \in Sorts : listed'[s] # <<>>) /\ link = "lost"
  <2>1. /\ prime' = FALSE /\ UNCHANGED <<waiting, asked, owed>>
        /\ UNCHANGED <<link, drops, subs>>
    BY <1>2 DEF PrimeThePump, Ask
  <2>2. AskedOK' /\ DownOK' /\ PrimeOK'
    BY <1>2, <2>1 DEF AskedOK, DownOK, PrimeOK
  <2>3. CountsOK'
    BY <2>1 DEF CountsOK, Lost
  <2> QED
    BY <2>1, <2>2, <2>3
<1>3. CASE ~(prime /\ (\A s \in Sorts : listed'[s] # <<>>))
  <2>1. UNCHANGED <<prime, waiting, asked, owed, link, drops, subs>>
    BY <1>3 DEF PrimeThePump, asks
  <2>2. AskedOK' /\ DownOK' /\ PrimeOK'
    BY <1>3, <2>1 DEF AskedOK, DownOK, PrimeOK
  <2>3. CountsOK'
    BY <2>1 DEF CountsOK, Lost
  <2> QED
    BY <2>1, <2>2, <2>3
<1>4. link = "up" \/ link = "lost"
  OBVIOUS
<1> HIDE DEF TypeOK, Sound, Connected, conn
<1> QED
  BY <1>1, <1>2, <1>3, <1>4

\* FarmUp appends the farm, and the list keeps the others.
LEMMA FarmUpStep ==
  ASSUME Invariant, NEW s \in Sorts, NEW f \in Farms, FarmUp(s, f)
  PROVE  Invariant'
<1>1. TypeOK /\ UpIsListed /\ Sound
  BY DEF Invariant, Sound
<1>2. /\ Connected /\ PrimeThePump /\ UNCHANGED <<conn, subs, bad>>
      /\ up' = [up EXCEPT ![s] = @ \cup {f}]
      /\ listed' = [listed EXCEPT ![s] = Append(@, f)]
  BY DEF FarmUp
<1>3. listed[s] \in Seq(Farms) /\ Append(listed[s], f) \in Seq(Farms)
      /\ Range(Append(listed[s], f)) = Range(listed[s]) \cup {f}
  BY <1>1, Appended DEF TypeOK
<1>4. /\ listed' \in [Sorts -> Seq(Farms)] /\ listed'[s] = Append(listed[s], f)
      /\ \A t \in Sorts : t # s => listed'[t] = listed[t]
  BY <1>1, <1>2, <1>3 DEF TypeOK
<1>5. /\ up' \in [Sorts -> SUBSET Farms] /\ up'[s] = up[s] \cup {f}
      /\ \A t \in Sorts : t # s => up'[t] = up[t]
  BY <1>1, <1>2 DEF TypeOK
<1>6. UpIsListed'
  <2> SUFFICES ASSUME NEW t \in Sorts PROVE up'[t] \subseteq Range(listed'[t])
    BY DEF UpIsListed
  <2>1. CASE t = s
    BY <2>1, <1>1, <1>3, <1>4, <1>5 DEF UpIsListed
  <2>2. CASE t # s
    <3>1. up'[t] = up[t] /\ listed'[t] = listed[t]
      BY <2>2, <1>4, <1>5
    <3> QED
      BY <3>1, <1>1 DEF UpIsListed
  <2> QED
    BY <2>1, <2>2
<1>7. /\ prime' \in BOOLEAN /\ waiting' \in Nat /\ asked' \in Nat /\ owed' \in Nat
      /\ AskedOK' /\ DownOK' /\ PrimeOK' /\ CountsOK'
  BY <1>1, <1>2, PrimeStep
<1>8. TypeOK'
  BY <1>1, <1>2, <1>4, <1>5, <1>7 DEF TypeOK, conn
<1> QED
  BY <1>6, <1>7, <1>8 DEF Invariant

\* FarmDown takes one entry of the farm away, and none of another.
LEMMA FarmDownStep ==
  ASSUME Invariant, NEW s \in Sorts, NEW f \in Farms, FarmDown(s, f)
  PROVE  Invariant'
<1>1. TypeOK /\ UpIsListed /\ Sound
  BY DEF Invariant, Sound
<1>2. /\ Connected /\ PrimeThePump /\ UNCHANGED <<conn, subs, bad>>
      /\ up' = [up EXCEPT ![s] = @ \ {f}]
      /\ listed' = [listed EXCEPT ![s] = WithoutFirst(@, f)]
  BY DEF FarmDown
<1>3. listed[s] \in Seq(Farms) /\ WithoutFirst(listed[s], f) \in Seq(Farms)
      /\ Range(listed[s]) \ {f} \subseteq Range(WithoutFirst(listed[s], f))
  BY <1>1, WithoutFirstKeeps DEF TypeOK
<1>4. /\ listed' \in [Sorts -> Seq(Farms)] /\ listed'[s] = WithoutFirst(listed[s], f)
      /\ \A t \in Sorts : t # s => listed'[t] = listed[t]
  BY <1>1, <1>2, <1>3 DEF TypeOK
<1>5. /\ up' \in [Sorts -> SUBSET Farms] /\ up'[s] = up[s] \ {f}
      /\ \A t \in Sorts : t # s => up'[t] = up[t]
  BY <1>1, <1>2 DEF TypeOK
<1>6. UpIsListed'
  <2> SUFFICES ASSUME NEW t \in Sorts PROVE up'[t] \subseteq Range(listed'[t])
    BY DEF UpIsListed
  <2>1. CASE t = s
    BY <2>1, <1>1, <1>3, <1>4, <1>5 DEF UpIsListed
  <2>2. CASE t # s
    <3>1. up'[t] = up[t] /\ listed'[t] = listed[t]
      BY <2>2, <1>4, <1>5
    <3> QED
      BY <3>1, <1>1 DEF UpIsListed
  <2> QED
    BY <2>1, <2>2
<1>7. /\ prime' \in BOOLEAN /\ waiting' \in Nat /\ asked' \in Nat /\ owed' \in Nat
      /\ AskedOK' /\ DownOK' /\ PrimeOK' /\ CountsOK'
  BY <1>1, <1>2, PrimeStep
<1>8. TypeOK'
  BY <1>1, <1>2, <1>4, <1>5, <1>7 DEF TypeOK, conn
<1> QED
  BY <1>6, <1>7, <1>8 DEF Invariant

LEMMA OtherErrorStep == Invariant /\ OtherError => Invariant'
<1> SUFFICES ASSUME Invariant, OtherError PROVE Invariant'
  OBVIOUS
<1>1. TypeOK /\ UpIsListed /\ Sound
  BY DEF Invariant, Sound
<1>2. Connected /\ PrimeThePump /\ UNCHANGED <<conn, subs, bad>>
  BY DEF OtherError
<1>3. UNCHANGED <<up, listed>>
  BY DEF OtherError, reports
<1>4. /\ prime' \in BOOLEAN /\ waiting' \in Nat /\ asked' \in Nat /\ owed' \in Nat
      /\ AskedOK' /\ DownOK' /\ PrimeOK' /\ CountsOK'
  BY <1>1, <1>2, PrimeStep
<1>5. TypeOK' /\ UpIsListed'
  BY <1>1, <1>2, <1>3, <1>4 DEF TypeOK, UpIsListed, conn
<1> QED
  BY <1>4, <1>5 DEF Invariant

LEMMA AnswerStep == Invariant /\ (Answer \/ AnswerBad) => Invariant'
<1> SUFFICES ASSUME Invariant, Answer \/ AnswerBad PROVE Invariant'
  OBVIOUS
<1>1. TypeOK /\ UpIsListed /\ AskedOK /\ DownOK /\ PrimeOK /\ CountsOK
  BY DEF Invariant
<1>2. /\ Connected /\ owed > 0 /\ owed' = owed - 1 /\ waiting' = 0
      /\ UNCHANGED <<link, drops, up, listed, prime, asked>>
  BY DEF Answer, AnswerBad, conn, reports
<1>3. owed = 1 /\ asked = 1
  BY <1>1, <1>2 DEF TypeOK, AskedOK
<1>4. /\ subs' \in [Scans -> Nat]
      /\ \A c \in Scans : subs'[c] \in {0, waiting}
  <2>1. \A c \in Scans : subs[c] = 0
    BY <1>1, <1>3 DEF CountsOK
  <2>2. CASE Answer
    BY <2>1, <2>2, <1>1 DEF Answer, TypeOK
  <2>3. CASE AnswerBad
    BY <2>1, <2>3, <1>1 DEF AnswerBad, TypeOK
  <2> QED
    BY <2>2, <2>3
<1>5. bad' \in 0..MaxBad
  BY <1>1, ScansAssumption DEF Answer, AnswerBad, TypeOK, ScansAssumption
<1>6. TypeOK' /\ UpIsListed'
  BY <1>1, <1>2, <1>3, <1>4, <1>5 DEF TypeOK, UpIsListed
<1>7. AskedOK' /\ DownOK' /\ PrimeOK'
  BY <1>1, <1>2, <1>3 DEF AskedOK, DownOK, PrimeOK
<1>8. CountsOK'
  <2>1. drops \in Nat /\ waiting \in Nat /\ Lost \in {0, 1} /\ Lost' = Lost
    BY <1>1, <1>2, ScansAssumption DEF TypeOK, Lost, ScansAssumption
  <2>2. waiting + Lost <= 1 + drops /\ Lost <= drops
    BY <1>1, <1>3, <2>1 DEF CountsOK, DownOK, Lost, TypeOK
  <2>3. \A c \in Scans : subs'[c] + Lost <= 1 + drops
    BY <1>4, <2>1, <2>2
  <2> QED
    BY <1>2, <1>3, <2>1, <2>2, <2>3 DEF CountsOK
<1> QED
  BY <1>6, <1>7, <1>8 DEF Invariant

LEMMA LoseStep == Invariant /\ Lose => Invariant'
<1> SUFFICES ASSUME Invariant, Lose PROVE Invariant'
  OBVIOUS
<1> USE ScansAssumption DEF ScansAssumption, Lose, reports, asks
<1>1. TypeOK /\ UpIsListed /\ AskedOK /\ DownOK /\ PrimeOK /\ CountsOK
  BY DEF Invariant
<1>2. TypeOK' /\ UpIsListed'
  BY <1>1 DEF TypeOK, UpIsListed, Links
<1>3. AskedOK' /\ DownOK' /\ PrimeOK'
  BY <1>1 DEF AskedOK, DownOK, PrimeOK, TypeOK
<1>4. CountsOK'
  BY <1>1 DEF CountsOK, Lost, TypeOK
<1> QED
  BY <1>2, <1>3, <1>4 DEF Invariant

LEMMA DisconnectStep == Invariant /\ Disconnect => Invariant'
<1> SUFFICES ASSUME Invariant, Disconnect PROVE Invariant'
  OBVIOUS
<1>1. TypeOK /\ UpIsListed /\ AskedOK /\ DownOK /\ PrimeOK /\ CountsOK
  BY DEF Invariant
<1>2. /\ link = "lost" /\ link' = "down" /\ up' = NoFarms /\ asked' = 0 /\ owed' = 0
      /\ subs' = [c \in Scans |-> 0]
      /\ UNCHANGED <<drops, listed, prime, waiting, bad>>
  BY DEF Disconnect
<1>3. TypeOK' /\ UpIsListed'
  BY <1>1, <1>2 DEF TypeOK, UpIsListed, NoFarms, Links
<1>4. AskedOK' /\ DownOK' /\ PrimeOK'
  BY <1>1, <1>2 DEF AskedOK, DownOK, PrimeOK
<1>5. CountsOK'
  <2>1. waiting + 1 <= owed + drops /\ owed <= 1 /\ waiting \in Nat /\ owed \in Nat
        /\ drops \in Nat
    BY <1>1, <1>2, ScansAssumption
       DEF CountsOK, Lost, AskedOK, TypeOK, ScansAssumption
  <2>2. Lost' = 0
    BY <1>2 DEF Lost
  <2>3. waiting' + Lost' <= owed' + drops'
    BY <2>1, <2>2, <1>2
  <2>4. \A c \in Scans : subs'[c] + Lost' <= 1 + drops' /\ subs'[c] = 0
    BY <2>1, <2>2, <1>2
  <2> QED
    BY <2>3, <2>4 DEF CountsOK
<1> QED
  BY <1>3, <1>4, <1>5 DEF Invariant

LEMMA ConnectStep == Invariant /\ Connect => Invariant'
<1> SUFFICES ASSUME Invariant, Connect PROVE Invariant'
  OBVIOUS
<1> USE ScansAssumption DEF ScansAssumption, Connect, reports
<1>1. TypeOK /\ UpIsListed /\ AskedOK /\ DownOK /\ PrimeOK /\ CountsOK
  BY DEF Invariant
<1>2. TypeOK' /\ UpIsListed'
  BY <1>1 DEF TypeOK, UpIsListed, Links
<1>3. AskedOK' /\ DownOK' /\ PrimeOK'
  BY <1>1 DEF AskedOK, DownOK, PrimeOK
<1>4. CountsOK'
  BY <1>1 DEF CountsOK, Lost, TypeOK
<1> QED
  BY <1>2, <1>3, <1>4 DEF Invariant

LEMMA NextInvariant == Invariant /\ [Next]_vars => Invariant'
<1>1. Invariant /\ Next => Invariant'
  BY FarmUpStep, FarmDownStep, OtherErrorStep, AnswerStep, LoseStep, DisconnectStep,
     ConnectStep
     DEF Next, Report
<1>2. Invariant /\ UNCHANGED vars => Invariant'
  <2> SUFFICES ASSUME Invariant, UNCHANGED vars PROVE Invariant'
    OBVIOUS
  <2>1. UNCHANGED <<link, drops, up, listed, prime, waiting, asked, owed, subs, bad>>
    BY DEF vars
  <2> QED
    BY <2>1 DEF Invariant, TypeOK, UpIsListed, AskedOK, DownOK, PrimeOK, CountsOK, Lost
<1> QED
  BY <1>1, <1>2

LEMMA InvariantAlways == Spec => []Invariant
  BY InitInvariant, NextInvariant, PTL DEF Spec

-----------------------------------------------------------------------------

\* Lists, flag and counters keep their types, whatever TWS reports.
THEOREM ScansTypes == Spec => []TypeOK
<1>1. Invariant => TypeOK
  BY DEF Invariant
<1> QED
  BY InvariantAlways, <1>1, PTL

\* A farm that is connected is in the list, for lists of any length and with any
\* duplicates: m_rt_providers and m_hist_providers lose one entry per report.
THEOREM FarmsListed == Spec => []UpIsListed
<1>1. Invariant => UpIsListed
  BY DEF Invariant
<1> QED
  BY InvariantAlways, <1>1, PTL

\* Once there are farms of either sort the scanner parameters were asked for, on
\* every connection: the flag of the manager cannot stay up.
THEOREM PumpPrimed == Spec => []PumpIsPrimed
<1>1. Invariant => PumpIsPrimed
  <2> SUFFICES ASSUME Invariant, \A s \in Sorts : up[s] # {}
               PROVE  ~prime /\ (asked > 0 \/ link = "lost")
    BY DEF PumpIsPrimed
  <2>1. TypeOK /\ UpIsListed /\ AskedOK /\ DownOK /\ PrimeOK
    BY DEF Invariant
  <2>2. up # NoFarms
    BY DEF NoFarms, Sorts
  <2>3. link \in {"up", "lost"}
    BY <2>1, <2>2 DEF DownOK, TypeOK, Links
  <2>4. \A s \in Sorts : listed[s] # <<>>
    <3> SUFFICES ASSUME NEW s \in Sorts, listed[s] = <<>> PROVE FALSE
      OBVIOUS
    <3>1. Range(<<>>) = {}
      BY DEF Range
    <3> QED
      BY <3>1, <2>1 DEF UpIsListed
  <2>5. ~prime
    BY <2>1, <2>2, <2>4 DEF PrimeOK
  <2>6. link = "up" => asked = 1
    BY <2>1, <2>5 DEF AskedOK
  <2> QED
    BY <2>3, <2>5, <2>6
<1> QED
  BY InvariantAlways, <1>1, PTL

\* TWS is asked for the parameters once on a connection: the flag falls with the
\* request, and only init_tws_api() raises it.
THEOREM AskedOnceOnly == Spec => []AskedOnce
<1>1. Invariant => AskedOnce
  BY DEF Invariant, AskedOK, AskedOnce
<1> QED
  BY InvariantAlways, <1>1, PTL

\* The requests and the subscriptions that a lost connection leaves behind grow
\* with the number of lost connections, and with nothing else.
THEOREM LeftoversBounded == Spec => [](WaitingBound /\ SubscriptionBound)
<1>1. Invariant => WaitingBound /\ SubscriptionBound
  <2> SUFFICES ASSUME Invariant PROVE WaitingBound /\ SubscriptionBound
    OBVIOUS
  <2>1. TypeOK /\ CountsOK
    BY DEF Invariant
  <2>2. Lost \in {0, 1} /\ drops \in Nat
    BY <2>1, ScansAssumption DEF Lost, TypeOK, ScansAssumption
  <2>3. WaitingBound
    BY <2>1, <2>2 DEF CountsOK, WaitingBound, TypeOK
  <2>4. SubscriptionBound
    BY <2>1, <2>2 DEF CountsOK, SubscriptionBound, TypeOK
  <2> QED
    BY <2>3, <2>4
<1> QED
  BY InvariantAlways, <1>1, PTL

=============================================================================
