------------------------- MODULE ServerLatencyProofs -------------------------
(***************************************************************************)
(* Proofs about ServerLatency: types and limits of a measurement, that it  *)
(* runs with the VPN off only, that it is not forgotten, that the list of  *)
(* the pings in flight is sorted by transmit time, and that the running    *)
(* sum is the sum of the latencies.                                        *)
(*                                                                         *)
(* The inductive invariant of the members is Whole: the list is sorted, in *)
(* age and in sequence number, by numbers below the next one; it respects  *)
(* the limits; and without a sender both lists are empty.  One lemma per   *)
(* method shows that the method keeps it.  Summed, which Whole supports,   *)
(* is the one of the running sum; the section before it shows that a fold  *)
(* over a finite function adds up in any order.                            *)
(***************************************************************************)
EXTENDS ServerLatency, SequenceTheorems, FiniteSetTheorems, WellFoundedInduction, TLAPS

\* Types.
Record == [server : Servers, sequence : Nat, age : 0..SERVER_LATENCY_TIMEOUT,
           retries : 0..SERVER_LATENCY_MAX_RETRIES]
Ping == [server : Servers, retries : Nat]
Latencies == UNION {[D -> Nat] : D \in SUBSET Servers}

Members == [sender : BOOLEAN, sendQueue : Seq(Servers), replyList : Seq(Record),
            total : Nat, sequence : Nat, timeout : BOOLEAN, refreshTimer : BOOLEAN,
            wantRefresh : BOOLEAN, latency : Latencies, sum : Int]

\* The oldest ping first; sequence numbers are given out in the order of sending.
Sorted(list) ==
    \A i, j \in 1..Len(list) :
        i < j => list[i].age >= list[j].age /\ list[i].sequence < list[j].sequence
Below(list, n) == \A i \in 1..Len(list) : list[i].sequence < n

Good(l) == l \in Members /\ Sorted(l.replyList) /\ Below(l.replyList, l.sequence)

Whole(l) ==
    /\ Good(l)
    /\ Len(l.replyList) <= SERVER_LATENCY_MAX_PARALLEL
    /\ Len(l.replyList) + Len(l.sendQueue) <= l.total
    /\ l.sender = FALSE => l.replyList = <<>> /\ l.sendQueue = <<>>

\* A method that touches the pings in flight alone.
SameRest(l, r) ==
    /\ r.sender = l.sender /\ r.sendQueue = l.sendQueue /\ r.total = l.total
    /\ r.timeout = l.timeout /\ r.refreshTimer = l.refreshTimer
    /\ r.wantRefresh = l.wantRefresh /\ r.latency = l.latency /\ r.sum = l.sum

-----------------------------------------------------------------------------
\* Numbers.

\* Induction on the naturals, for a set instead of a predicate.
LEMMA SetInduction ==
    ASSUME NEW S, 0 \in S, \A n \in Nat : n \in S => n + 1 \in S
    PROVE  Nat \subseteq S
<1> DEFINE T == Nat \ S
           R == {ss \in Nat \X Nat : ss[1] < ss[2]}
<1> SUFFICES ASSUME T # {} PROVE FALSE
  OBVIOUS
<1>1. IsWellFoundedOn(R, Nat)
  BY NatLessThanWellFounded DEF OpToRel
<1>2. PICK x \in T : \A y \in T : ~(<<y, x>> \in R)
  <2>1. T \subseteq Nat
    OBVIOUS
  <2> HIDE DEF T, R
  <2>. QED  BY <2>1, <1>1, WFMin
<1>3. \A y \in T : ~(y < x)
  BY <1>2
<1>4. x - 1 \in Nat
  OBVIOUS
<1>5. x - 1 \in S
  BY <1>3, <1>4
<1>. QED  BY <1>4, <1>5

\* A set of numbers with an upper bound has a maximum.
LEMMA MaxBounded ==
    ASSUME NEW N \in Nat, NEW S \in SUBSET (0..N), S # {}
    PROVE  Max(S) \in S /\ \A y \in S : y <= Max(S)
<1>1. \E x \in S : \A y \in S : x >= y
  <2> SUFFICES ASSUME \A x \in S : \E y \in S : ~(x >= y) PROVE FALSE
    OBVIOUS
  <2>1. S \subseteq Nat
    OBVIOUS
  <2> DEFINE B == {k \in Nat : \E y \in S : y >= k}
  <2>2. 0 \in B
    <3>1. PICK y \in S : TRUE
      OBVIOUS
    <3>2. y >= 0
      BY <2>1
    <3>. QED  BY <3>2
  <2>3. ASSUME NEW k \in Nat, k \in B PROVE k + 1 \in B
    <3>1. PICK y \in S : y >= k
      BY <2>3
    <3>2. PICK z \in S : ~(y >= z)
      OBVIOUS
    <3>3. z >= k + 1
      BY <2>1, <3>1, <3>2
    <3>. QED  BY <3>3
  <2>4. Nat \subseteq B
    <3> HIDE DEF B
    <3>. QED  BY <2>2, <2>3, SetInduction
  <2>5. N + 1 \in B
    <3>1. N + 1 \in Nat
      OBVIOUS
    <3> HIDE DEF B
    <3>. QED  BY <2>4, <3>1
  <2>. QED  BY <2>5
<1>2. Max(S) \in S /\ \A y \in S : Max(S) >= y
  BY <1>1 DEF Max
<1>. QED  BY <1>2

LEMMA MinOfTwo ==
    ASSUME NEW a \in Int, NEW b \in Int
    PROVE  Min({a, b}) = IF a <= b THEN a ELSE b
<1>1. \E x \in {a, b} : \A y \in {a, b} : x =< y
  OBVIOUS
<1>2. Min({a, b}) \in {a, b} /\ \A y \in {a, b} : Min({a, b}) =< y
  BY <1>1 DEF Min
<1>. QED  BY <1>2

\* The pings that have timed out are the first of the list; none has when the first
\* has not.
LEMMA TimedOutFacts ==
    ASSUME NEW l \in Members
    PROVE  /\ TimedOut(l) \in 0..Len(l.replyList)
           /\ \A i \in 1..TimedOut(l) : l.replyList[i].age >= SERVER_LATENCY_TIMEOUT
           /\ TimedOut(l) = 0 /\ l.replyList # <<>>
              => l.replyList[1].age < SERVER_LATENCY_TIMEOUT
<1> DEFINE q == l.replyList
           S == {n \in 0..Len(q) : \A i \in 1..n : q[i].age >= SERVER_LATENCY_TIMEOUT}
<1>1. q \in Seq(Record) /\ Len(q) \in Nat
  BY DEF Members
<1>2. S \in SUBSET (0..Len(q)) /\ 0 \in S
  BY <1>1
<1>3. TimedOut(l) = Max(S)
  BY DEF TimedOut
<1>4. Max(S) \in S /\ \A y \in S : y <= Max(S)
  <2>1. S # {}
    BY <1>2
  <2> HIDE DEF S
  <2>. QED  BY <1>1, <1>2, <2>1, MaxBounded
<1>5. ASSUME Max(S) = 0, q # <<>> PROVE q[1].age < SERVER_LATENCY_TIMEOUT
  <2>1. 1 \in 0..Len(q)
    BY <1>1, <1>5
  <2>2. 1 \notin S
    BY <1>4, <1>5
  <2>3. ~(q[1].age >= SERVER_LATENCY_TIMEOUT)
    BY <2>1, <2>2
  <2>4. q[1] \in Record
    BY <1>1, <2>1
  <2>. QED  BY <2>3, <2>4, LatencyAssumption DEF Record
<1> HIDE DEF S
<1>6. Max(S) \in 0..Len(q) /\ \A i \in 1..Max(S) : q[i].age >= SERVER_LATENCY_TIMEOUT
  BY <1>4 DEF S
<1>. QED  BY <1>3, <1>5, <1>6

-----------------------------------------------------------------------------
\* The loops of maybeSendPings().

\* A ping goes to the end of a sorted list: it is the youngest and has the highest
\* number.
LEMMA SentGood ==
    ASSUME NEW l, Good(l), NEW ping \in Ping, Again(ping)
    PROVE  LET r == Sent(l, ping)
           IN  Good(r) /\ SameRest(l, r) /\ Len(r.replyList) = Len(l.replyList) + 1
<1> DEFINE q   == l.replyList
           x   == [server |-> ping.server, sequence |-> l.sequence, age |-> 0,
                   retries |-> ping.retries]
           p   == Append(q, x)
           n   == Len(q)
           r   == Sent(l, ping)
<1>1. /\ l \in Members /\ q \in Seq(Record) /\ l.sequence \in Nat /\ n \in Nat
      /\ l.sequence + 1 \in Nat
  BY DEF Good, Members
<1>2. x \in Record /\ x.age = 0 /\ x.sequence = l.sequence
  BY <1>1, LatencyAssumption DEF Again, Ping, Record
<1>3. r = [l EXCEPT !.replyList = p, !.sequence = l.sequence + 1]
  BY DEF Sent
<1> HIDE DEF x, r
<1>4. p \in Seq(Record) /\ Len(p) = n + 1 /\ p[n + 1] = x
  BY <1>1, <1>2
<1>5. \A i \in 1..n : p[i] = q[i]
  BY <1>1, <1>2
<1>6. \A i \in 1..n : q[i] \in Record
  BY <1>1
<1> HIDE DEF p
<1>7. /\ r \in Members /\ r.replyList = p /\ r.sequence = l.sequence + 1
      /\ SameRest(l, r)
  BY <1>1, <1>3, <1>4 DEF Members, SameRest
<1>8. Sorted(q) /\ Below(q, l.sequence)
  BY DEF Good
<1>9. ASSUME NEW i \in 1..(n + 1), NEW j \in 1..(n + 1), i < j
      PROVE  p[i].age >= p[j].age /\ p[i].sequence < p[j].sequence
  <2>1. i \in 1..n
    BY <1>1, <1>9
  <2>2. q[i].age >= 0 /\ q[i].sequence < l.sequence
    BY <1>6, <1>8, <2>1 DEF Below, Record
  <2>3. CASE j = n + 1
    BY <1>2, <1>4, <1>5, <2>1, <2>2, <2>3
  <2>4. CASE j # n + 1
    <3>1. j \in 1..n
      BY <1>1, <2>4
    <3>. QED  BY <1>5, <1>8, <1>9, <2>1, <3>1 DEF Sorted
  <2>. QED  BY <2>3, <2>4
<1>10. Sorted(p)
  BY <1>4, <1>9 DEF Sorted
<1>11. Below(p, l.sequence + 1)
  <2> SUFFICES ASSUME NEW i \in 1..(n + 1) PROVE p[i].sequence < l.sequence + 1
    BY <1>4 DEF Below
  <2>1. CASE i = n + 1
    BY <1>1, <1>2, <1>4, <2>1
  <2>2. CASE i # n + 1
    <3>1. i \in 1..n
      BY <1>1, <2>2
    <3>2. q[i].sequence < l.sequence /\ q[i].sequence \in Nat
      BY <1>6, <1>8, <3>1 DEF Below, Record
    <3>. QED  BY <1>1, <1>5, <3>1, <3>2
  <2>. QED  BY <2>1, <2>2
<1>. QED  BY <1>4, <1>7, <1>10, <1>11 DEF Good, r

\* Sending a sequence of pings keeps the list sorted and adds one record for each at
\* most.
LEMMA SendGood ==
    ASSUME NEW l, Good(l), NEW pings \in Seq(Ping)
    PROVE  LET r == Send(l, pings)
           IN  /\ Good(r) /\ SameRest(l, r)
               /\ Len(r.replyList) <= Len(l.replyList) + Len(pings)
<1> DEFINE n == Len(pings)
           Body(f, i) == IF i = 0 THEN l
                         ELSE IF Again(pings[i]) THEN Sent(f[i - 1], pings[i])
                         ELSE f[i - 1]
           Defines(f, k) == f = [i \in 0..k |-> Body(f, i)]
           F == CHOOSE f : Defines(f, n)
           E == {k \in Nat : \E f : Defines(f, k)}
<1>0. n \in Nat
  OBVIOUS
<1>1. E = Nat
  <2>1. Defines([i \in 0..0 |-> l], 0)
    OBVIOUS
  <2>2. 0 \in E
    BY <2>1
  <2>3. ASSUME NEW k \in Nat, NEW f, Defines(f, k)
        PROVE  k + 1 \in E
    <3> DEFINE g == [i \in 0..(k + 1) |-> IF i = k + 1 THEN Body(f, k + 1) ELSE f[i]]
    <3>1. f = [i \in 0..k |-> Body(f, i)]
      BY <2>3
    <3>2. \A i \in 0..k : f[i] = Body(f, i) /\ g[i] = f[i]
      <4>1. \A i \in 0..k : g[i] = f[i]
        OBVIOUS
      <4> HIDE DEF Body, g
      <4>2. \A i \in 0..k : f[i] = Body(f, i)
        BY <3>1
      <4>. QED  BY <4>1, <4>2
    <3>3. \A i \in 0..(k + 1) : g[i] = Body(g, i)
      <4> SUFFICES ASSUME NEW i \in 0..(k + 1) PROVE g[i] = Body(g, i)
        OBVIOUS
      <4>1. i # 0 => g[i - 1] = f[i - 1]
        OBVIOUS
      <4>2. g[i] = Body(f, i)
        <5>1. CASE i = k + 1
          BY <5>1
        <5>2. CASE i # k + 1
          <6>1. i \in 0..k
            BY <5>2
          <6> HIDE DEF Body, g
          <6>. QED  BY <3>2, <6>1
        <5>. QED  BY <5>1, <5>2
      <4>. QED  BY <4>1, <4>2
    <3>4. Defines(g, k + 1)
      BY <3>3
    <3>5. k + 1 \in Nat
      OBVIOUS
    <3> HIDE DEF Defines, g
    <3>. QED  BY <3>4, <3>5
  <2>4. \A k \in Nat : k \in E => k + 1 \in E
    BY <2>3
  <2> HIDE DEF E
  <2>5. Nat \subseteq E
    BY <2>2, <2>4, SetInduction
  <2>. QED  BY <2>5 DEF E
<1>2. Defines(F, n)
  <2>1. \E f : Defines(f, n)
    BY <1>0, <1>1
  <2> HIDE DEF Defines
  <2>. QED  BY <2>1
<1>3. Send(l, pings) = F[n]
  BY DEF Send
<1> HIDE DEF F
<1>4. F = [i \in 0..n |-> Body(F, i)]
  BY <1>2
<1>5. \A i \in 0..n : F[i] = Body(F, i)
  BY <1>4
<1> DEFINE Step(r, i) == /\ Good(r) /\ SameRest(l, r)
                         /\ Len(r.replyList) <= Len(l.replyList) + i
           G == {i \in Nat : i <= n => Step(F[i], i)}
<1>6. Len(l.replyList) \in Nat
  BY DEF Good, Members
<1>7. 0 \in G
  <2>1. F[0] = l
    BY <1>0, <1>5
  <2>2. SameRest(l, l)
    BY DEF SameRest
  <2>. QED  BY <1>6, <2>1, <2>2
<1>8. ASSUME NEW i \in Nat, i \in G PROVE i + 1 \in G
  <2> SUFFICES ASSUME i + 1 <= n PROVE Step(F[i + 1], i + 1)
    <3>1. i + 1 \in Nat
      OBVIOUS
    <3> HIDE DEF Step
    <3>. QED  BY <3>1
  <2> DEFINE r == F[i]
             ping == pings[i + 1]
  <2>1. Step(r, i)
    <3> HIDE DEF Step
    <3>. QED  BY <1>0, <1>8
  <2>2. F[i + 1] = IF Again(ping) THEN Sent(r, ping) ELSE r
    <3>1. i + 1 \in 0..n /\ i + 1 # 0 /\ (i + 1) - 1 = i
      BY <1>0
    <3>. QED  BY <1>5, <3>1
  <2>3. ping \in Ping
    BY <1>0
  <2> DEFINE t == F[i + 1]
             a == Len(l.replyList)
             b == Len(r.replyList)
  <2> HIDE DEF r, ping, t
  <2>4. a \in Nat /\ b \in Nat /\ b <= a + i
    BY <1>6, <2>1 DEF Good, Members
  <2>5. Good(t) /\ SameRest(l, t) /\ (Len(t.replyList) = b + 1 \/ Len(t.replyList) = b)
    <3>1. CASE Again(ping)
      <4>1. /\ Good(Sent(r, ping)) /\ SameRest(r, Sent(r, ping))
            /\ Len(Sent(r, ping).replyList) = b + 1
        BY <2>1, <2>3, <3>1, SentGood
      <4>2. t = Sent(r, ping)
        BY <2>2, <3>1 DEF t
      <4>3. SameRest(l, t)
        BY <2>1, <4>1, <4>2 DEF SameRest
      <4>. QED  BY <4>1, <4>2, <4>3
    <3>2. CASE ~Again(ping)
      <4>1. t = r
        BY <2>2, <3>2 DEF t
      <4>. QED  BY <2>1, <4>1
    <3>. QED  BY <3>1, <3>2
  <2> HIDE DEF a, b
  <2>6. Len(t.replyList) <= a + (i + 1)
    <3> DEFINE k == Len(t.replyList)
    <3>1. k = b + 1 \/ k = b
      BY <2>5
    <3> HIDE DEF k
    <3>2. k <= a + (i + 1)
      BY <2>4, <3>1
    <3>. QED  BY <3>2 DEF k
  <2>. QED  BY <2>5, <2>6 DEF t, a
<1>9. n \in G
  <2> HIDE DEF G
  <2>1. Nat \subseteq G
    BY <1>7, <1>8, SetInduction
  <2>. QED  BY <2>1, <1>0
<1>10. Step(F[n], n)
  BY <1>0, <1>9
<1>. QED  BY <1>3, <1>10

\* The tail of a sequence from the n-th element on, n + 1 included.
LEMMA SubSeqTail ==
    ASSUME NEW S, NEW q \in Seq(S), NEW n \in 0..Len(q)
    PROVE  LET p == SubSeq(q, n + 1, Len(q))
           IN  /\ p \in Seq(S) /\ Len(p) = Len(q) - n
               /\ \A i \in 1..Len(p) : p[i] = q[n + i] /\ n + i \in 1..Len(q)
<1> DEFINE m0 == Len(q)
           p == SubSeq(q, n + 1, m0)
<1>1. m0 \in Nat /\ n \in Nat /\ n <= m0
  OBVIOUS
<1>2. p = [i \in 1..(m0 - n) |-> q[n + i]]
  <2>1. p = [i \in 1..((m0 - (n + 1)) + 1) |-> q[(i + (n + 1)) - 1]]
    BY <1>1
  <2>2. (m0 - (n + 1)) + 1 = m0 - n
    BY <1>1
  <2>3. \A i \in 1..(m0 - n) : (i + (n + 1)) - 1 = n + i
    BY <1>1
  <2> HIDE DEF p
  <2>. QED  BY <2>1, <2>2, <2>3
<1> HIDE DEF p
<1>3. m0 - n \in Nat /\ \A i \in 1..(m0 - n) : n + i \in 1..m0
  BY <1>1
<1>4. \A i \in 1..(m0 - n) : q[n + i] \in S
  BY <1>3
<1>5. p \in Seq(S) /\ Len(p) = m0 - n
  BY <1>2, <1>3, <1>4
<1>6. \A i \in 1..(m0 - n) : p[i] = q[n + i]
  BY <1>2
<1>. QED  BY <1>3, <1>5, <1>6 DEF p

\* Cutting a sorted list leaves it sorted.
LEMMA TailSorted ==
    ASSUME NEW q \in Seq(Record), NEW n \in 0..Len(q), NEW k \in Nat, Sorted(q), Below(q, k)
    PROVE  Sorted(SubSeq(q, n + 1, Len(q))) /\ Below(SubSeq(q, n + 1, Len(q)), k)
<1> DEFINE p == SubSeq(q, n + 1, Len(q))
<1>1. /\ Len(p) = Len(q) - n /\ Len(p) \in Nat /\ n \in Nat
      /\ \A i \in 1..Len(p) : p[i] = q[n + i] /\ n + i \in 1..Len(q)
  BY SubSeqTail
<1> HIDE DEF p
<1>2. Below(p, k)
  BY <1>1 DEF Below
<1>3. Sorted(p)
  <2> SUFFICES ASSUME NEW i \in 1..Len(p), NEW j \in 1..Len(p), i < j
               PROVE  p[i].age >= p[j].age /\ p[i].sequence < p[j].sequence
    BY DEF Sorted
  <2>1. n + i < n + j
    BY <1>1
  <2>2. /\ q[n + i].age >= q[n + j].age /\ q[n + i].sequence < q[n + j].sequence
    BY <1>1, <2>1 DEF Sorted
  <2>. QED  BY <1>1, <2>2
<1>. QED  BY <1>2, <1>3 DEF p

\* The first loop: the timed out pings leave the head of the list, their retries go to
\* its end.
LEMMA RetriesGood ==
    ASSUME NEW l, Good(l)
    PROVE  LET r == Retries(l)
           IN  Good(r) /\ SameRest(l, r) /\ Len(r.replyList) <= Len(l.replyList)
<1> DEFINE q     == l.replyList
           n     == TimedOut(l)
           p     == SubSeq(q, n + 1, Len(q))
           rest  == [l EXCEPT !.replyList = p]
           pings == [i \in 1..n |-> NextPing(q[i])]
<1>1. l \in Members /\ q \in Seq(Record) /\ Len(q) \in Nat /\ l.sequence \in Nat
  BY DEF Good, Members
<1>2. n \in 0..Len(q) /\ n \in Nat
  BY <1>1, TimedOutFacts
<1>3. Retries(l) = Send(rest, pings)
  BY DEF Retries
<1> HIDE DEF n
<1>4. p \in Seq(Record) /\ Len(p) = Len(q) - n
  BY <1>1, <1>2, SubSeqTail
<1>5. Sorted(p) /\ Below(p, l.sequence)
  BY <1>1, <1>2, TailSorted DEF Good
<1> HIDE DEF p
<1>6. rest \in Members /\ SameRest(l, rest) /\ rest.replyList = p
      /\ rest.sequence = l.sequence
  BY <1>1, <1>4 DEF Members, SameRest
<1>7. pings \in Seq(Ping) /\ Len(pings) = n
  <2>1. \A i \in 1..n : q[i] \in Record
    BY <1>1, <1>2
  <2>2. \A i \in 1..n : NextPing(q[i]) \in Ping
    BY <2>1, LatencyAssumption DEF NextPing, Ping, Record
  <2>3. pings \in [1..n -> Ping]
    BY <2>2
  <2> HIDE DEF pings
  <2>. QED  BY <1>2, <2>3
<1> HIDE DEF rest, pings
<1>8. Good(rest)
  BY <1>5, <1>6 DEF Good
<1> DEFINE r == Send(rest, pings)
<1>9. /\ Good(r) /\ SameRest(rest, r)
      /\ Len(r.replyList) <= Len(rest.replyList) + Len(pings)
  BY <1>7, <1>8, SendGood
<1> HIDE DEF r
<1>10. Len(r.replyList) <= Len(q)
  <2>1. Len(rest.replyList) + Len(pings) = Len(q)
    BY <1>1, <1>2, <1>4, <1>6, <1>7
  <2>. QED  BY <1>9, <2>1
<1>11. SameRest(l, r)
  BY <1>6, <1>9 DEF SameRest
<1>. QED  BY <1>3, <1>9, <1>10, <1>11 DEF r

\* What the second loop leaves alone besides.
SameButQueue(l, r) ==
    /\ r.sender = l.sender /\ r.total = l.total /\ r.timeout = l.timeout
    /\ r.refreshTimer = l.refreshTimer /\ r.wantRefresh = l.wantRefresh
    /\ r.latency = l.latency /\ r.sum = l.sum

\* The second loop: servers move from the queue to the list, up to the limit.
LEMMA NewPingsGood ==
    ASSUME NEW l, Good(l), Len(l.replyList) <= SERVER_LATENCY_MAX_PARALLEL
    PROVE  LET r == NewPings(l)
           IN  /\ Good(r) /\ SameButQueue(l, r)
               /\ Len(r.replyList) <= SERVER_LATENCY_MAX_PARALLEL
               /\ Len(r.replyList) + Len(r.sendQueue)
                  <= Len(l.replyList) + Len(l.sendQueue)
<1> DEFINE q     == l.sendQueue
           k     == Len(l.replyList)
           free  == SERVER_LATENCY_MAX_PARALLEL - k
           n     == Min({Len(q), free})
           p     == SubSeq(q, n + 1, Len(q))
           rest  == [l EXCEPT !.sendQueue = p]
           pings == [i \in 1..n |-> FirstPing(q[i])]
<1>1. /\ l \in Members /\ q \in Seq(Servers) /\ Len(q) \in Nat /\ k \in Nat
      /\ free \in Nat
  BY LatencyAssumption DEF Good, Members
<1>2. NewPings(l) = Send(rest, pings)
  BY DEF NewPings
<1>3. n \in Nat /\ n \in 0..Len(q) /\ n <= free
  <2> HIDE DEF free
  <2>1. n = IF Len(q) <= free THEN Len(q) ELSE free
    BY <1>1, MinOfTwo
  <2>. QED  BY <1>1, <2>1
<1> HIDE DEF n
<1>4. p \in Seq(Servers) /\ Len(p) = Len(q) - n
  BY <1>1, <1>3, SubSeqTail
<1> HIDE DEF p
<1>5. /\ rest \in Members /\ SameButQueue(l, rest) /\ rest.replyList = l.replyList
      /\ rest.sequence = l.sequence /\ rest.sendQueue = p
  BY <1>1, <1>4 DEF Members, SameButQueue
<1>6. pings \in Seq(Ping) /\ Len(pings) = n
  <2>1. \A i \in 1..n : q[i] \in Servers
    BY <1>1, <1>3
  <2>2. \A i \in 1..n : FirstPing(q[i]) \in Ping
    BY <2>1 DEF FirstPing, Ping
  <2>3. pings \in [1..n -> Ping]
    BY <2>2
  <2> HIDE DEF pings
  <2>. QED  BY <1>3, <2>3
<1> HIDE DEF rest, pings
<1>7. Good(rest)
  BY <1>5 DEF Good
<1> DEFINE r == Send(rest, pings)
<1>8. Good(r) /\ SameRest(rest, r) /\ Len(r.replyList) <= Len(rest.replyList) + Len(pings)
  BY <1>6, <1>7, SendGood
<1> HIDE DEF r
<1>9. SameButQueue(l, r) /\ r.sendQueue = p
  BY <1>5, <1>8 DEF SameRest, SameButQueue
<1>10. Len(r.replyList) <= k + n /\ Len(r.replyList) \in Nat
  BY <1>5, <1>6, <1>8 DEF Good, Members
<1>11. Len(r.replyList) <= SERVER_LATENCY_MAX_PARALLEL
  BY <1>1, <1>3, <1>10, LatencyAssumption
<1>12. Len(r.replyList) + Len(r.sendQueue) <= k + Len(q)
  <2> DEFINE a == Len(r.replyList)
             b == Len(q)
  <2>1. Len(r.sendQueue) = b - n
    BY <1>4, <1>9
  <2>2. a \in Nat /\ a <= k + n /\ k \in Nat /\ b \in Nat
    BY <1>1, <1>10
  <2> HIDE DEF a, b, k
  <2>3. a + (b - n) <= k + b
    BY <1>3, <2>2
  <2>. QED  BY <2>1, <2>3 DEF a, b
<1>. QED  BY <1>2, <1>8, <1>9, <1>11, <1>12 DEF r

-----------------------------------------------------------------------------
\* The methods.

\* A measurement is under way, scheduled or wanted.
Planned(l) == l.sender \/ l.refreshTimer \/ l.wantRefresh

\* stop() leaves empty lists and schedules the next measurement.
LEMMA StopWhole ==
    ASSUME NEW l \in Members
    PROVE  LET r == Stop(l)
           IN  Whole(r) /\ r.sender = FALSE /\ r.refreshTimer = TRUE
<1> DEFINE r == Stop(l)
<1>1. <<>> \in Seq(Servers) /\ <<>> \in Seq(Record) /\ Len(<<>>) = 0
  OBVIOUS
<1>2. /\ r \in Members /\ r.sender = FALSE /\ r.refreshTimer = TRUE /\ r.total = 0
      /\ r.replyList = <<>> /\ r.sendQueue = <<>>
  BY <1>1 DEF Stop, Members
<1> HIDE DEF r
<1>3. Sorted(<<>>) /\ Below(<<>>, r.sequence)
  BY <1>1 DEF Sorted, Below
<1>4. Len(r.replyList) = 0 /\ Len(r.sendQueue) = 0 /\ r.total = 0
  BY <1>1, <1>2
<1>5. Good(r)
  BY <1>2, <1>3 DEF Good
<1>6. Whole(r)
  BY <1>2, <1>4, <1>5, LatencyAssumption DEF Whole
<1>. QED  BY <1>2, <1>6 DEF r

\* clear() touches no ping.
LEMMA ClearWhole ==
    ASSUME NEW l, Whole(l)
    PROVE  LET r == Clear(l)
           IN  /\ Whole(r) /\ r.sender = l.sender /\ r.refreshTimer = l.refreshTimer
               /\ r.wantRefresh = l.wantRefresh
<1> DEFINE r == Clear(l)
<1>1. <<>> \in Latencies
  <2>1. <<>> \in [{} -> Nat]
    OBVIOUS
  <2>2. {} \in SUBSET Servers
    OBVIOUS
  <2>. QED  BY <2>1, <2>2 DEF Latencies
<1>2. l \in Members
  BY DEF Whole, Good
<1>3. /\ r \in Members /\ r.sender = l.sender /\ r.sendQueue = l.sendQueue
      /\ r.replyList = l.replyList /\ r.total = l.total /\ r.sequence = l.sequence
      /\ r.refreshTimer = l.refreshTimer /\ r.wantRefresh = l.wantRefresh
  <2> DEFINE none == <<>>
  <2>1. none \in Latencies /\ 0 \in Int
    BY <1>1
  <2>2. r = [l EXCEPT !.latency = none, !.sum = 0]
    BY DEF Clear
  <2> HIDE DEF none, r
  <2>. QED  BY <1>2, <2>1, <2>2 DEF Members
<1> HIDE DEF r
<1>4. Whole(r)
  BY <1>3 DEF Whole, Good
<1>. QED  BY <1>3, <1>4 DEF r

\* maybeSendPings() keeps the lists whole, and ends a measurement only by scheduling
\* the next one.
LEMMA MaybeSendPingsWhole ==
    ASSUME NEW l, Whole(l)
    PROVE  LET r == MaybeSendPings(l)
           IN  /\ Whole(r)
               /\ r.sender => l.sender
               /\ Planned(l) => Planned(r)
<1> DEFINE a    == Retries(l)
           sent == NewPings(a)
           on   == [sent EXCEPT !.timeout = TRUE]
           r    == MaybeSendPings(l)
<1>1. r = IF ~l.sender THEN l ELSE IF sent.replyList = <<>> THEN Stop(sent) ELSE on
  BY DEF MaybeSendPings
<1>2. Good(a) /\ SameRest(l, a) /\ Len(a.replyList) <= Len(l.replyList)
  BY RetriesGood DEF Whole
<1>3. l \in Members /\ Len(l.replyList) \in Nat /\ Len(l.sendQueue) \in Nat /\ l.total \in Nat
      /\ l.sender \in BOOLEAN
  BY DEF Whole, Good, Members
<1> HIDE DEF a
<1>4. Len(a.replyList) \in Nat
  BY <1>2 DEF Good, Members
<1>5. Len(a.replyList) <= SERVER_LATENCY_MAX_PARALLEL
  BY <1>2, <1>3, <1>4, LatencyAssumption DEF Whole
<1>6. /\ Good(sent) /\ SameButQueue(a, sent)
      /\ Len(sent.replyList) <= SERVER_LATENCY_MAX_PARALLEL
      /\ Len(sent.replyList) + Len(sent.sendQueue)
         <= Len(a.replyList) + Len(a.sendQueue)
  BY <1>2, <1>5, NewPingsGood
<1> HIDE DEF sent
<1>7. Len(sent.replyList) \in Nat /\ Len(sent.sendQueue) \in Nat /\ sent \in Members
  BY <1>6 DEF Good, Members
<1>8. sent.sender = l.sender /\ sent.total = l.total
  BY <1>2, <1>6 DEF SameRest, SameButQueue
<1>9. Len(sent.replyList) + Len(sent.sendQueue) <= sent.total
  <2> DEFINE x == Len(sent.replyList) + Len(sent.sendQueue)
             y == Len(a.replyList)
             z == Len(l.replyList)
             k == Len(l.sendQueue)
  <2>1. x \in Nat /\ y \in Nat /\ z \in Nat /\ k \in Nat
    <3>1. ASSUME NEW u \in Nat, NEW v \in Nat PROVE u + v \in Nat
      OBVIOUS
    <3>2. x \in Nat
      BY <1>7, <3>1
    <3>. QED  BY <1>3, <1>4, <3>2
  <2>2. Len(a.sendQueue) = k
    BY <1>2 DEF SameRest
  <2>3. x <= y + k /\ y <= z /\ z + k <= l.total
    BY <1>2, <1>6, <2>2 DEF Whole
  <2> HIDE DEF x, y, z, k
  <2>4. x <= l.total
    BY <1>3, <2>1, <2>3
  <2>. QED  BY <1>8, <2>4 DEF x
<1>10. /\ on \in Members /\ on.sender = sent.sender /\ on.replyList = sent.replyList
       /\ on.sendQueue = sent.sendQueue /\ on.total = sent.total
       /\ on.sequence = sent.sequence
  BY <1>7 DEF Members
<1> HIDE DEF on, r
<1>11. CASE ~l.sender
  BY <1>1, <1>11 DEF r
<1>12. CASE l.sender /\ sent.replyList = <<>>
  <2>1. r = Stop(sent)
    BY <1>1, <1>12
  <2>2. Whole(r) /\ r.sender = FALSE /\ r.refreshTimer = TRUE
    BY <1>7, <2>1, StopWhole
  <2>. QED  BY <2>2 DEF Planned, r
<1>13. CASE l.sender /\ sent.replyList # <<>>
  <2>1. r = on
    BY <1>1, <1>13
  <2>2. on.sender = TRUE
    BY <1>3, <1>8, <1>10, <1>13
  <2>3. Whole(on)
    BY <1>6, <1>9, <1>10, <2>2 DEF Whole, Good
  <2>. QED  BY <1>13, <2>1, <2>2, <2>3 DEF Planned, r
<1>. QED  BY <1>11, <1>12, <1>13

\* A measurement begins with every server of the list in the queue.
LEMMA BegunWhole ==
    ASSUME NEW l, Whole(l), l.sender = FALSE, NEW list \in ServerLists
    PROVE  LET r == [l EXCEPT !.sequence = 0, !.wantRefresh = FALSE, !.sender = TRUE,
                              !.sendQueue = list, !.total = Len(list),
                              !.refreshTimer = FALSE]
           IN  Whole(r) /\ r.sender = TRUE
<1> DEFINE begun  == [l EXCEPT !.sequence = 0, !.wantRefresh = FALSE, !.sender = TRUE,
                               !.sendQueue = list, !.total = Len(list),
                               !.refreshTimer = FALSE]
<1>0. l \in Members
  BY DEF Whole, Good
<1>1. list \in Seq(Servers)
  BY LatencyAssumption
<1>2. Len(list) \in Nat /\ Len(<<>>) = 0
  BY <1>1
<1>3. l.replyList = <<>>
  BY DEF Whole
<1>4. /\ begun \in Members /\ begun.sender = TRUE /\ begun.sendQueue = list
      /\ begun.replyList = <<>> /\ begun.total = Len(list) /\ begun.sequence = 0
  BY <1>0, <1>1, <1>2, <1>3 DEF Members
<1> HIDE DEF begun
<1>5. Sorted(<<>>) /\ Below(<<>>, 0)
  BY <1>2 DEF Sorted, Below
<1>6. Good(begun)
  BY <1>4, <1>5 DEF Good
<1>7. Len(begun.replyList) = 0 /\ Len(begun.sendQueue) = Len(list)
  BY <1>2, <1>4
<1>8. Whole(begun)
  BY <1>2, <1>4, <1>6, <1>7, LatencyAssumption DEF Whole
<1>. QED  BY <1>4, <1>8 DEF begun

\* start() begins a measurement only in Off; with the feature on it leaves one under
\* way, scheduled or wanted.
LEMMA StartWhole ==
    ASSUME NEW l, Whole(l), NEW s, NEW feature \in BOOLEAN, NEW list \in ServerLists
    PROVE  LET r == Start(l, s, feature, list)
           IN  /\ Whole(r)
               /\ r.sender => l.sender \/ s = "Off"
               /\ feature => Planned(r)
<1> DEFINE wanted == [l EXCEPT !.wantRefresh = TRUE]
           begun  == [l EXCEPT !.sequence = 0, !.wantRefresh = FALSE, !.sender = TRUE,
                               !.sendQueue = list, !.total = Len(list),
                               !.refreshTimer = FALSE]
           sent   == MaybeSendPings(begun)
           r      == Start(l, s, feature, list)
<1>1. r = IF ~feature THEN Clear(l)
          ELSE IF s # "Off" THEN wanted
          ELSE IF l.sender THEN l ELSE sent
  BY DEF Start, MayMeasure
<1>2. l \in Members /\ l.sender \in BOOLEAN
  BY DEF Whole, Good, Members
<1>3. Whole(Clear(l)) /\ Clear(l).sender = l.sender
  BY ClearWhole
<1>4. Whole(wanted) /\ wanted.sender = l.sender /\ wanted.wantRefresh = TRUE
  <2>1. /\ wanted \in Members /\ wanted.sender = l.sender /\ wanted.wantRefresh = TRUE
        /\ wanted.sendQueue = l.sendQueue /\ wanted.replyList = l.replyList
        /\ wanted.total = l.total /\ wanted.sequence = l.sequence
    BY <1>2 DEF Members
  <2> HIDE DEF wanted
  <2>. QED  BY <2>1 DEF Whole, Good
<1>5. ASSUME l.sender = FALSE PROVE Whole(begun) /\ begun.sender = TRUE
  BY <1>5, BegunWhole
<1> HIDE DEF begun
<1>6. ASSUME l.sender = FALSE PROVE Whole(sent) /\ Planned(sent)
  BY <1>5, <1>6, MaybeSendPingsWhole DEF Planned
<1> HIDE DEF wanted, sent, r
<1>7. CASE ~feature
  BY <1>1, <1>3, <1>7 DEF r
<1>8. CASE feature /\ s # "Off"
  BY <1>1, <1>4, <1>8 DEF r, Planned
<1>9. CASE feature /\ s = "Off" /\ l.sender
  BY <1>1, <1>9 DEF r, Planned
<1>10. CASE feature /\ s = "Off" /\ ~l.sender
  <2>1. r = sent
    BY <1>1, <1>10
  <2>2. l.sender = FALSE
    BY <1>2, <1>10
  <2>. QED  BY <1>6, <1>10, <2>1, <2>2 DEF r
<1>. QED  BY <1>7, <1>8, <1>9, <1>10

\* refresh() as start(), unless a measurement is under way.
LEMMA RefreshWhole ==
    ASSUME NEW l, Whole(l), NEW s, NEW feature \in BOOLEAN, NEW list \in ServerLists
    PROVE  LET r == Refresh(l, s, feature, list)
           IN  /\ Whole(r)
               /\ r.sender => l.sender \/ s = "Off"
               /\ feature => Planned(r)
<1> DEFINE c == Clear(l)
           t == Start(c, s, feature, list)
           r == Refresh(l, s, feature, list)
<1>1. r = IF l.sender THEN l ELSE t
  BY DEF Refresh
<1>2. Whole(c) /\ c.sender = l.sender
  BY ClearWhole
<1> HIDE DEF c
<1>3. Whole(t) /\ (t.sender => c.sender \/ s = "Off") /\ (feature => Planned(t))
  BY <1>2, StartWhole
<1> HIDE DEF t, r
<1>. QED  BY <1>1, <1>2, <1>3 DEF Planned, r

\* Removing one record leaves the list sorted.
LEMMA RemovedSorted ==
    ASSUME NEW q \in Seq(Record), NEW k \in 1..Len(q), NEW n \in Nat, Sorted(q), Below(q, n)
    PROVE  LET p == RemoveAt(q, k)
           IN  p \in Seq(Record) /\ Len(p) = Len(q) - 1 /\ Sorted(p) /\ Below(p, n)
<1> DEFINE m0   == Len(q)
           head == SubSeq(q, 1, k - 1)
           tail == SubSeq(q, k + 1, m0)
           p    == RemoveAt(q, k)
           At(i) == IF i < k THEN i ELSE i + 1
<1>1. m0 \in Nat /\ k \in Nat /\ 1 <= k /\ k <= m0 /\ k \in 0..m0
  OBVIOUS
<1>2. p = head \o tail
  BY DEF RemoveAt
<1>3. head \in Seq(Record) /\ Len(head) = k - 1 /\ \A i \in 1..(k - 1) : head[i] = q[i]
  BY <1>1
<1>4. /\ tail \in Seq(Record) /\ Len(tail) = m0 - k
      /\ \A i \in 1..(m0 - k) : tail[i] = q[k + i]
  BY <1>1, SubSeqTail
<1> HIDE DEF head, tail, p
<1>5. p \in Seq(Record) /\ Len(p) = m0 - 1
  <2>1. p \in Seq(Record) /\ Len(p) = Len(head) + Len(tail)
    BY <1>2, <1>3, <1>4, ConcatProperties
  <2>2. (k - 1) + (m0 - k) = m0 - 1
    BY <1>1
  <2>. QED  BY <1>3, <1>4, <2>1, <2>2
<1>6. ASSUME NEW i \in 1..(m0 - 1) PROVE p[i] = q[At(i)] /\ At(i) \in 1..m0
  <2>1. CASE i < k
    <3>1. i \in 1..(k - 1)
      BY <1>1, <2>1
    <3>2. p[i] = head[i]
      BY <1>2, <1>3, <1>4, <3>1
    <3>. QED  BY <1>1, <1>3, <2>1, <3>1, <3>2
  <2>2. CASE ~(i < k)
    <3> DEFINE j == i - (k - 1)
    <3>1. j \in 1..(m0 - k) /\ k + j = i + 1 /\ i = (k - 1) + j
      BY <1>1, <2>2
    <3> HIDE DEF j
    <3>2. p[i] = tail[j]
      <4>1. /\ i \in 1..(Len(head) + Len(tail)) /\ ~(i <= Len(head))
            /\ i - Len(head) = j
        BY <1>1, <1>3, <1>4, <2>2, <3>1
      <4>. QED  BY <1>2, <1>3, <1>4, <4>1, ConcatProperties
    <3>. QED  BY <1>1, <1>4, <2>2, <3>1, <3>2
  <2>. QED  BY <2>1, <2>2
<1>7. ASSUME NEW i \in 1..(m0 - 1), NEW j \in 1..(m0 - 1), i < j PROVE At(i) < At(j)
  BY <1>1, <1>7
<1> HIDE DEF At
<1>8. Sorted(p)
  <2> SUFFICES ASSUME NEW i \in 1..(m0 - 1), NEW j \in 1..(m0 - 1), i < j
               PROVE  p[i].age >= p[j].age /\ p[i].sequence < p[j].sequence
    BY <1>5 DEF Sorted
  <2>. QED  BY <1>6, <1>7 DEF Sorted
<1>9. Below(p, n)
  BY <1>5, <1>6 DEF Below
<1>. QED  BY <1>5, <1>8, <1>9 DEF p

\* setLatency() touches no ping.
LEMMA SetLatencyMembers ==
    ASSUME NEW l \in Members, NEW server \in Servers, NEW ticks \in Nat
    PROVE  LET r == SetLatency(l, server, ticks)
           IN  /\ r \in Members /\ r.sender = l.sender /\ r.sendQueue = l.sendQueue
               /\ r.replyList = l.replyList /\ r.total = l.total
               /\ r.sequence = l.sequence /\ r.refreshTimer = l.refreshTimer
               /\ r.wantRefresh = l.wantRefresh
<1> DEFINE f      == l.latency
           before == IF server \in DOMAIN f THEN f[server] ELSE 0
           g      == [x \in DOMAIN f \cup {server} |-> IF x = server THEN ticks ELSE f[x]]
           sum    == l.sum - before + ticks
           r      == SetLatency(l, server, ticks)
<1>1. PICK D \in SUBSET Servers : f \in [D -> Nat]
  BY DEF Members, Latencies
<1>2. l.sum \in Int
  BY DEF Members
<1>3. before \in Nat
  BY <1>1
<1>4. g \in Latencies
  <2> DEFINE C == D \cup {server}
  <2>1. C \in SUBSET Servers
    OBVIOUS
  <2>2. g \in [C -> Nat]
    BY <1>1
  <2> HIDE DEF g, C
  <2>. QED  BY <2>1, <2>2 DEF Latencies
<1>5. sum \in Int
  <2> HIDE DEF before
  <2>. QED  BY <1>2, <1>3
<1>6. r = [l EXCEPT !.sum = sum, !.latency = g]
  BY DEF SetLatency
<1> HIDE DEF g, sum, r
<1>. QED  BY <1>4, <1>5, <1>6 DEF r, Members

\* A reply removes its record.
LEMMA ReceivedWhole ==
    ASSUME NEW l, Whole(l), NEW k \in 1..Len(l.replyList)
    PROVE  LET record == l.replyList[k]
               r == [SetLatency(l, record.server, record.age) EXCEPT
                        !.replyList = RemoveAt(@, k)]
           IN  Whole(r) /\ r.sender = TRUE /\ l.sender = TRUE
<1> DEFINE q      == l.replyList
           record == q[k]
           a      == SetLatency(l, record.server, record.age)
           p      == RemoveAt(q, k)
           r      == [a EXCEPT !.replyList = RemoveAt(@, k)]
<1>1. /\ l \in Members /\ q \in Seq(Record) /\ Len(q) \in Nat /\ l.sequence \in Nat
      /\ Sorted(q) /\ Below(q, l.sequence) /\ l.sender \in BOOLEAN
      /\ l.sendQueue \in Seq(Servers) /\ l.total \in Nat
  BY DEF Whole, Good, Members
<1>2. record \in Record /\ record.server \in Servers /\ record.age \in Nat
  <2>1. record \in Record
    BY <1>1
  <2>. QED  BY <2>1, LatencyAssumption DEF Record
<1>3. p \in Seq(Record) /\ Len(p) = Len(q) - 1 /\ Sorted(p) /\ Below(p, l.sequence)
  BY <1>1, RemovedSorted
<1>4. /\ a \in Members /\ a.sender = l.sender /\ a.sendQueue = l.sendQueue
      /\ a.replyList = q /\ a.total = l.total /\ a.sequence = l.sequence
  BY <1>1, <1>2, SetLatencyMembers
<1> HIDE DEF a, p, record
<1>5. r = [a EXCEPT !.replyList = p]
  BY <1>4 DEF p
<1>6. /\ r \in Members /\ r.sender = l.sender /\ r.sendQueue = l.sendQueue
      /\ r.replyList = p /\ r.total = l.total /\ r.sequence = l.sequence
  <2> HIDE DEF r
  <2>. QED  BY <1>3, <1>4, <1>5 DEF Members
<1>7. l.sender = TRUE
  <2>1. Len(<<>>) = 0 /\ ~(k \in 1..0)
    OBVIOUS
  <2>2. q # <<>>
    BY <2>1
  <2>. QED  BY <1>1, <2>2 DEF Whole
<1> HIDE DEF r
<1>8. Len(r.replyList) <= SERVER_LATENCY_MAX_PARALLEL
  BY <1>1, <1>3, <1>6, LatencyAssumption DEF Whole
<1>9. Len(r.replyList) + Len(r.sendQueue) <= r.total
  <2> DEFINE x == Len(q)
             y == Len(l.sendQueue)
  <2>1. x \in Nat /\ y \in Nat /\ x + y <= l.total
    <3>1. x \in Nat /\ y \in Nat
      BY <1>1
    <3>2. x + y <= l.total
      BY DEF Whole
    <3>. QED  BY <3>1, <3>2
  <2>2. Len(r.replyList) = x - 1 /\ Len(r.sendQueue) = y
    BY <1>3, <1>6
  <2> HIDE DEF x, y
  <2>3. (x - 1) + y <= l.total
    BY <1>1, <2>1
  <2>. QED  BY <1>6, <2>2, <2>3
<1>10. Good(r)
  BY <1>3, <1>6 DEF Good
<1>11. Whole(r) /\ r.sender = TRUE
  BY <1>6, <1>7, <1>8, <1>9, <1>10 DEF Whole
<1>. QED  BY <1>7, <1>11 DEF r, a, record

\* Time passes for every ping alike, and for none beyond its timeout: the first of a
\* sorted list is the oldest.
LEMMA TickWhole ==
    ASSUME NEW l, Whole(l), l.replyList # <<>>, TimedOut(l) = 0
    PROVE  LET r == [l EXCEPT !.replyList = [i \in DOMAIN @ |-> Older(@[i])]]
           IN  /\ Whole(r) /\ r.sender = l.sender /\ r.refreshTimer = l.refreshTimer
               /\ r.wantRefresh = l.wantRefresh
<1> DEFINE q == l.replyList
           n == Len(q)
           p == [i \in 1..n |-> Older(q[i])]
           r == [l EXCEPT !.replyList = [i \in DOMAIN @ |-> Older(@[i])]]
<1>1. /\ l \in Members /\ q \in Seq(Record) /\ n \in Nat /\ DOMAIN q = 1..n
      /\ Sorted(q) /\ Below(q, l.sequence)
  BY DEF Whole, Good, Members
<1>2. q[1].age < SERVER_LATENCY_TIMEOUT
  BY <1>1, TimedOutFacts
<1>3. \A i \in 1..n : q[i] \in Record
  BY <1>1
<1>4. ASSUME NEW i \in 1..n
      PROVE  /\ p[i] \in Record /\ p[i].age = q[i].age + 1
             /\ p[i].sequence = q[i].sequence
  <2>1. q[i].age < SERVER_LATENCY_TIMEOUT
    <3>1. CASE i = 1
      BY <1>2, <3>1
    <3>2. CASE i # 1
      <4>1. 1 \in 1..n /\ 1 < i
        BY <1>1, <3>2
      <4>2. q[1].age >= q[i].age
        BY <1>1, <4>1 DEF Sorted
      <4>3. q[1].age \in Nat /\ q[i].age \in Nat
        BY <1>3, <4>1, LatencyAssumption DEF Record
      <4>. QED  BY <1>2, <4>2, <4>3, LatencyAssumption
    <3>. QED  BY <3>1, <3>2
  <2>2. q[i] \in Record
    BY <1>3
  <2>3. q[i].age + 1 \in 0..SERVER_LATENCY_TIMEOUT
    BY <2>1, <2>2, LatencyAssumption DEF Record
  <2> DEFINE x == q[i]
             z == x.age + 1
             y == [x EXCEPT !.age = z]
  <2>4. p[i] = y
    BY DEF Older
  <2> HIDE DEF x, z, p
  <2>5. y \in Record /\ y.age = z /\ y.sequence = x.sequence
    <3>1. x \in Record /\ z \in 0..SERVER_LATENCY_TIMEOUT
      BY <2>2, <2>3 DEF x, z
    <3>. QED  BY <3>1 DEF Record
  <2>. QED  BY <2>4, <2>5 DEF x, z
<1>5. r = [l EXCEPT !.replyList = p]
  <2> DEFINE w == [i \in DOMAIN q |-> Older(q[i])]
  <2>1. w = p
    BY <1>1
  <2>2. r = [l EXCEPT !.replyList = w]
    OBVIOUS
  <2> HIDE DEF w, p, r
  <2>. QED  BY <2>1, <2>2
<1>6. p \in Seq(Record) /\ Len(p) = n
  <2>1. p \in [1..n -> Record]
    BY <1>4
  <2> HIDE DEF p
  <2>. QED  BY <1>1, <2>1
<1> HIDE DEF p, r
<1>7. /\ r \in Members /\ r.replyList = p /\ r.sender = l.sender
      /\ r.sendQueue = l.sendQueue /\ r.total = l.total /\ r.sequence = l.sequence
      /\ r.refreshTimer = l.refreshTimer /\ r.wantRefresh = l.wantRefresh
  BY <1>1, <1>5, <1>6 DEF Members
<1>8. Sorted(p)
  <2> SUFFICES ASSUME NEW i \in 1..n, NEW j \in 1..n, i < j
               PROVE  p[i].age >= p[j].age /\ p[i].sequence < p[j].sequence
    BY <1>6 DEF Sorted
  <2>1. q[i].age >= q[j].age /\ q[i].sequence < q[j].sequence
    BY <1>1 DEF Sorted
  <2>2. q[i].age \in Nat /\ q[j].age \in Nat
    BY <1>3, LatencyAssumption DEF Record
  <2>. QED  BY <1>4, <2>1, <2>2
<1>9. Below(p, r.sequence)
  BY <1>1, <1>4, <1>6, <1>7 DEF Below
<1>10. Good(r)
  BY <1>7, <1>8, <1>9 DEF Good
<1>11. r.sender # FALSE
  BY <1>7 DEF Whole
<1>12. Whole(r)
  BY <1>6, <1>7, <1>10, <1>11 DEF Whole
<1>. QED  BY <1>7, <1>12 DEF r

-----------------------------------------------------------------------------
\* The invariant.
Inv ==
    /\ state \in ControllerState /\ servers \in ServerLists
    /\ supported \in BOOLEAN /\ active \in BOOLEAN
    /\ Whole(m)
    /\ MeasuresOnlyOff
    /\ RefreshNotLost

LEMMA InitInv == Init => Inv
<1> SUFFICES ASSUME Init PROVE Inv
  OBVIOUS
<1>1. supported \in BOOLEAN /\ active \in BOOLEAN /\ state \in ControllerState
      /\ servers \in ServerLists
  BY DEF Init, ControllerState
<1>2. <<>> \in Seq(Servers) /\ <<>> \in Seq(Record) /\ Len(<<>>) = 0
  OBVIOUS
<1>3. <<>> \in Latencies
  <2>1. <<>> \in [{} -> Nat]
    OBVIOUS
  <2>2. {} \in SUBSET Servers
    OBVIOUS
  <2>. QED  BY <2>1, <2>2 DEF Latencies
<1>4. /\ m \in Members /\ m.sender = FALSE /\ m.refreshTimer = supported
      /\ m.replyList = <<>> /\ m.sendQueue = <<>> /\ m.total = 0 /\ m.sequence = 0
  <2> DEFINE none == <<>>
             x == [sender |-> FALSE, sendQueue |-> <<>>, replyList |-> <<>>, total |-> 0,
                   sequence |-> 0, timeout |-> FALSE, refreshTimer |-> supported,
                   wantRefresh |-> FALSE, latency |-> none, sum |-> 0]
  <2>1. m = x
    BY DEF Init
  <2>2. none \in Latencies
    BY <1>3
  <2> HIDE DEF none
  <2>. QED  BY <1>1, <1>2, <2>1, <2>2 DEF Members
<1>5. Sorted(<<>>) /\ Below(<<>>, 0)
  BY <1>2 DEF Sorted, Below
<1>6. Good(m)
  BY <1>4, <1>5 DEF Good
<1>7. Len(m.replyList) = 0 /\ Len(m.sendQueue) = 0
  BY <1>2, <1>4
<1>8. Whole(m)
  BY <1>4, <1>6, <1>7, LatencyAssumption DEF Whole
<1>. QED  BY <1>1, <1>4, <1>8 DEF Inv, MeasuresOnlyOff, RefreshNotLost

\* Every handler keeps the invariant.
LEMMA NextInv == Inv /\ [Next]_vars => Inv'
<1> SUFFICES ASSUME Inv, [Next]_vars PROVE Inv'
  OBVIOUS
<1>1. /\ state \in ControllerState /\ servers \in ServerLists /\ supported \in BOOLEAN
      /\ active \in BOOLEAN /\ Whole(m) /\ (m.sender => state = "Off")
      /\ (supported => Planned(m)) /\ m \in Members /\ m.sender \in BOOLEAN
  BY DEF Inv, MeasuresOnlyOff, RefreshNotLost, Planned, Whole, Good, Members
<1>2. ASSUME NEW r, m' = r, Whole(r), r.sender => state' = "Off", supported' => Planned(r),
             state' \in ControllerState, servers' \in ServerLists, supported' \in BOOLEAN,
             active' \in BOOLEAN
      PROVE  Inv'
  BY <1>2 DEF Inv, MeasuresOnlyOff, RefreshNotLost, Planned, Whole, Good
<1>3. CASE UNCHANGED vars
  BY <1>3 DEF vars, Inv, MeasuresOnlyOff, RefreshNotLost, Whole, Good
<1>4. CASE ServersChanged
  <2> DEFINE r == Start(m, state, supported, servers')
  <2>1. /\ m' = r /\ servers' \in ServerLists /\ state' = state
        /\ supported' = supported /\ active' = active
    BY <1>4 DEF ServersChanged
  <2>2. Whole(r) /\ (r.sender => m.sender \/ state = "Off") /\ (supported => Planned(r))
    BY <1>1, <2>1, StartWhole
  <2> HIDE DEF r
  <2>. QED  BY <1>1, <1>2, <2>1, <2>2
<1>5. CASE SupportedChanged
  <2> DEFINE r == Start(m, state, supported', servers)
  <2>1. /\ m' = r /\ servers' = servers /\ state' = state
        /\ supported' \in BOOLEAN /\ active' = active
    BY <1>1, <1>5 DEF SupportedChanged
  <2>2. Whole(r) /\ (r.sender => m.sender \/ state = "Off") /\ (supported' => Planned(r))
    BY <1>1, <2>1, StartWhole
  <2> HIDE DEF r
  <2>. QED  BY <1>1, <1>2, <2>1, <2>2
<1>6. CASE RefreshTimer
  <2> DEFINE l == [m EXCEPT !.refreshTimer = FALSE]
             r == Start(l, state, supported, servers)
  <2>1. /\ m' = r /\ servers' = servers /\ state' = state
        /\ supported' = supported /\ active' = active
    BY <1>6 DEF RefreshTimer
  <2>2. Whole(l) /\ l.sender = m.sender
    <3>1. /\ l \in Members /\ l.sender = m.sender /\ l.sendQueue = m.sendQueue
          /\ l.replyList = m.replyList /\ l.total = m.total /\ l.sequence = m.sequence
      BY <1>1 DEF Members
    <3> HIDE DEF l
    <3>. QED  BY <1>1, <3>1 DEF Whole, Good
  <2> HIDE DEF l
  <2>3. Whole(r) /\ (r.sender => l.sender \/ state = "Off") /\ (supported => Planned(r))
    BY <1>1, <2>2, StartWhole
  <2> HIDE DEF r
  <2>. QED  BY <1>1, <1>2, <2>1, <2>2, <2>3
<1>7. CASE RefreshClicked
  <2> DEFINE r == Refresh(m, state, supported, servers)
  <2>1. /\ m' = r /\ servers' = servers /\ state' = state
        /\ supported' = supported /\ active' = active
    BY <1>7 DEF RefreshClicked
  <2>2. Whole(r) /\ (r.sender => m.sender \/ state = "Off") /\ (supported => Planned(r))
    BY <1>1, RefreshWhole
  <2> HIDE DEF r
  <2>. QED  BY <1>1, <1>2, <2>1, <2>2
<1>8. ASSUME NEW s \in States, StateChanged(s) PROVE Inv'
  <2> DEFINE r == Start(m, s, supported, servers)
  <2>1. /\ state' = s /\ s # state /\ servers' = servers /\ supported' = supported
        /\ active' = active
        /\ m' = IF s # "Off" THEN Stop(m) ELSE IF m.wantRefresh THEN r ELSE m
    BY <1>8 DEF StateChanged, CanMove
  <2>2. s \in ControllerState
    BY LatencyAssumption
  <2>3. Whole(r) /\ (supported => Planned(r))
    BY <1>1, StartWhole
  <2>4. Whole(Stop(m)) /\ Stop(m).sender = FALSE /\ Planned(Stop(m))
    BY <1>1, StopWhole DEF Planned
  <2> HIDE DEF r
  <2>5. CASE s # "Off"
    BY <1>1, <1>2, <2>1, <2>2, <2>4, <2>5
  <2>6. CASE s = "Off" /\ m.wantRefresh
    BY <1>1, <1>2, <2>1, <2>2, <2>3, <2>6
  <2>7. CASE s = "Off" /\ ~m.wantRefresh
    BY <1>1, <1>2, <2>1, <2>2, <2>7
  <2>. QED  BY <2>5, <2>6, <2>7
<1>9. CASE ApplicationStateChanged
  <2> DEFINE l == [m EXCEPT !.wantRefresh = TRUE]
             r == Refresh(m, state, supported, servers)
             d == IF active THEN IF m.sender THEN Stop(l) ELSE m
                  ELSE IF m.wantRefresh THEN r ELSE m
  <2>1. /\ m' = d /\ servers' = servers /\ state' = state
        /\ supported' = supported /\ active' \in BOOLEAN
    BY <1>1, <1>9 DEF ApplicationStateChanged
  <2>2. l \in Members
    BY <1>1 DEF Members
  <2> HIDE DEF l
  <2>3. Whole(Stop(l)) /\ Stop(l).sender = FALSE /\ Planned(Stop(l))
    BY <2>2, StopWhole DEF Planned
  <2>4. Whole(r) /\ (r.sender => m.sender \/ state = "Off") /\ (supported => Planned(r))
    BY <1>1, RefreshWhole
  <2> HIDE DEF r
  <2>5. Whole(d) /\ (d.sender => state = "Off") /\ (supported => Planned(d))
    BY <1>1, <2>3, <2>4
  <2> HIDE DEF d
  <2>. QED  BY <1>1, <1>2, <2>1, <2>5
<1>10. CASE PingTimeout
  <2> DEFINE r == MaybeSendPings(m)
  <2>1. /\ m' = r /\ servers' = servers /\ state' = state
        /\ supported' = supported /\ active' = active
    BY <1>10 DEF PingTimeout
  <2>2. Whole(r) /\ (r.sender => m.sender) /\ (Planned(m) => Planned(r))
    BY <1>1, MaybeSendPingsWhole
  <2> HIDE DEF r
  <2>. QED  BY <1>1, <1>2, <2>1, <2>2
<1>11. CASE RecvPing
  <2>1. PICK k \in DOMAIN m.replyList :
           m' = MaybeSendPings([SetLatency(m, m.replyList[k].server, m.replyList[k].age)
                                   EXCEPT !.replyList = RemoveAt(@, k)])
    BY <1>11 DEF RecvPing
  <2>2. servers' = servers /\ state' = state /\ supported' = supported /\ active' = active
    BY <1>11 DEF RecvPing
  <2>3. k \in 1..Len(m.replyList)
    BY <1>1 DEF Members
  <2> DEFINE l == [SetLatency(m, m.replyList[k].server, m.replyList[k].age)
                      EXCEPT !.replyList = RemoveAt(@, k)]
             r == MaybeSendPings(l)
  <2>4. Whole(l) /\ l.sender = TRUE /\ m.sender = TRUE
    BY <1>1, <2>3, ReceivedWhole
  <2>5. m' = r
    BY <2>1
  <2> HIDE DEF l
  <2>6. Whole(r) /\ Planned(r)
    BY <2>4, MaybeSendPingsWhole DEF Planned
  <2> HIDE DEF r
  <2>. QED  BY <1>1, <1>2, <2>2, <2>4, <2>5, <2>6
<1>12. CASE Tick
  <2> DEFINE r == [m EXCEPT !.replyList = [i \in DOMAIN @ |-> Older(@[i])]]
  <2>1. /\ m' = r /\ servers' = servers /\ state' = state
        /\ supported' = supported /\ active' = active
    BY <1>12 DEF Tick
  <2>2. m.replyList # <<>> /\ TimedOut(m) = 0
    BY <1>12 DEF Tick
  <2>3. /\ Whole(r) /\ r.sender = m.sender /\ r.refreshTimer = m.refreshTimer
        /\ r.wantRefresh = m.wantRefresh
    BY <1>1, <2>2, TickWhole
  <2> HIDE DEF r
  <2>. QED  BY <1>1, <1>2, <2>1, <2>3 DEF Planned
<1>. QED  BY <1>3, <1>4, <1>5, <1>6, <1>7, <1>8, <1>9, <1>10, <1>11, <1>12 DEF Next

\* Inv is an invariant of the specification.
THEOREM Invariance == Spec => []Inv
BY InitInv, NextInv, PTL DEF Spec

\* However timeouts, replies, refreshes and changes of the list follow each other, no
\* more pings are in flight than SERVER_LATENCY_MAX_PARALLEL, none is tried more often
\* than SERVER_LATENCY_MAX_RETRIES allows, and progress() stays between 0 and 1.
THEOREM TypeCorrect == Spec => []TypeOK
<1>1. Inv => TypeOK
  <2> SUFFICES ASSUME Inv PROVE TypeOK
    OBVIOUS
  <2>1. /\ m \in Members /\ Len(m.replyList) <= SERVER_LATENCY_MAX_PARALLEL
        /\ Len(m.replyList) + Len(m.sendQueue) <= m.total
    BY DEF Inv, Whole, Good
  <2>2. /\ state \in ControllerState /\ servers \in ServerLists
        /\ supported \in BOOLEAN /\ active \in BOOLEAN
    BY DEF Inv
  <2>3. /\ m.sender \in BOOLEAN /\ m.timeout \in BOOLEAN /\ m.refreshTimer \in BOOLEAN
        /\ m.wantRefresh \in BOOLEAN /\ m.replyList \in Seq(Record)
    BY <2>1 DEF Members
  <2>4. \A i \in DOMAIN m.replyList : m.replyList[i] \in Record
    BY <2>3
  <2>5. \A i \in DOMAIN m.replyList :
           /\ m.replyList[i].server \in Servers
           /\ m.replyList[i].retries \in 0..SERVER_LATENCY_MAX_RETRIES
           /\ m.replyList[i].age \in 0..SERVER_LATENCY_TIMEOUT
    BY <2>4 DEF Record
  <2>6. {supported, active, m.sender, m.timeout, m.refreshTimer, m.wantRefresh}
            \subseteq BOOLEAN
    BY <2>2, <2>3, Zenon
  <2>. QED  BY <2>1, <2>2, <2>5, <2>6 DEF TypeOK
<1>. QED  BY <1>1, Invariance, PTL

\* No measurement is under way while the tunnel is up or changing (the comment of
\* serverlatency.cpp:78-81), whatever asked for it and however long it takes.
THEOREM MeasuredOff == Spec => []MeasuresOnlyOff
<1>1. Inv => MeasuresOnlyOff
  BY DEF Inv
<1>. QED  BY <1>1, Invariance, PTL

\* With the feature on a measurement is always under way, scheduled or wanted: neither
\* the tunnel nor the application going to the background makes the client forget it.
THEOREM RefreshKept == Spec => []RefreshNotLost
<1>1. Inv => RefreshNotLost
  BY DEF Inv
<1>. QED  BY <1>1, Invariance, PTL

\* The list is sorted by transmit time (the comment of serverlatency.cpp:199), so that
\* the timer set for its first record is the one that is due first.
THEOREM SortedList == Spec => []SortedByTransmitTime
<1>1. Inv => SortedByTransmitTime
  <2> SUFFICES ASSUME Inv PROVE SortedByTransmitTime
    OBVIOUS
  <2>1. m.replyList \in Seq(Record) /\ Sorted(m.replyList)
    BY DEF Inv, Whole, Good, Members
  <2>2. DOMAIN m.replyList = 1..Len(m.replyList)
    BY <2>1
  <2>. QED  BY <2>1, <2>2 DEF SortedByTransmitTime, Sorted
<1>. QED  BY <1>1, Invariance, PTL

-----------------------------------------------------------------------------
\* Sums.

\* F[s] is the sum of f over s, for the subsets s of D, whatever is added first.
Adds(f, D, F) ==
    /\ F[{}] = 0
    /\ \A s \in SUBSET D : F[s] \in Int /\ \A x \in s : F[s] = f[x] + F[s \ {x}]

\* F[s] is the sum in some order.
AddsInOrder(f, D, F) ==
    /\ F[{}] = 0
    /\ \A s \in SUBSET D : s # {} => \E x \in s : F[s] = f[x] + F[s \ {x}]

SumOf(f) == FoldFunction(LAMBDA x, y : x + y, 0, f)

\* A sum exists: the one over a set with one element less is extended.
LEMMA SumExtends ==
    ASSUME NEW U, NEW f \in [U -> Int], NEW D \in SUBSET U, NEW F, Adds(f, D, F),
           NEW a \in U, a \notin D
    PROVE  \E G : Adds(f, D \cup {a}, G)
<1> DEFINE G == [s \in SUBSET (D \cup {a}) |->
                    IF a \in s THEN f[a] + F[s \ {a}] ELSE F[s]]
<1>1. G[{}] = 0
  BY DEF Adds
<1>2. ASSUME NEW s \in SUBSET (D \cup {a})
      PROVE  G[s] \in Int /\ \A x \in s : G[s] = f[x] + G[s \ {x}]
  <2>1. CASE a \notin s
    <3>1. s \in SUBSET D /\ G[s] = F[s]
      BY <2>1
    <3>2. \A x \in s : G[s \ {x}] = F[s \ {x}]
      BY <2>1
    <3> HIDE DEF G
    <3>. QED  BY <3>1, <3>2 DEF Adds
  <2>2. CASE a \in s
    <3> DEFINE t == s \ {a}
    <3>1. t \in SUBSET D
      OBVIOUS
    <3>2. G[s] = f[a] + F[t]
      BY <2>2
    <3>3. F[t] \in Int /\ \A x \in t : F[t] = f[x] + F[t \ {x}] /\ F[t \ {x}] \in Int
      <4>1. \A x \in t : t \ {x} \in SUBSET D
        BY <3>1
      <4> HIDE DEF t
      <4>. QED  BY <3>1, <4>1 DEF Adds
    <3>4. G[t] = F[t]
      BY <3>1
    <3>5. ASSUME NEW x \in s, x # a PROVE G[s] = f[x] + G[s \ {x}]
      <4>1. x \in t
        BY <3>5
      <4>2. (s \ {x}) \ {a} = t \ {x}
        BY <3>5
      <4>3. s \ {x} \in SUBSET (D \cup {a}) /\ a \in s \ {x}
        BY <2>2, <3>5
      <4>4. G[s \ {x}] = f[a] + F[t \ {x}]
        BY <4>2, <4>3
      <4>5. f[x] \in Int
        BY <3>1, <4>1
      <4> HIDE DEF t, G
      <4>. QED  BY <3>2, <3>3, <4>1, <4>4, <4>5
    <3>6. f[a] \in Int
      OBVIOUS
    <3>7. G[s] \in Int
      BY <3>2, <3>3, <3>6
    <3>8. \A x \in s : x = a => G[s] = f[x] + G[s \ {x}]
      <4> HIDE DEF G
      <4>. QED  BY <3>2, <3>4
    <3> HIDE DEF G
    <3>. QED  BY <3>5, <3>7, <3>8
  <2>. QED  BY <2>1, <2>2
<1> HIDE DEF G
<1>3. Adds(f, D \cup {a}, G)
  BY <1>1, <1>2 DEF Adds
<1>. QED  BY <1>3

LEMMA SumExists ==
    ASSUME NEW U, NEW f \in [U -> Int], IsFiniteSet(U)
    PROVE  \E F : Adds(f, U, F)
<1> DEFINE N == {n \in Nat : \A D \in SUBSET U :
                    Cardinality(D) = n => \E F : Adds(f, D, F)}
<1>1. 0 \in N
  <2> SUFFICES ASSUME NEW D \in SUBSET U, Cardinality(D) = 0 PROVE \E F : Adds(f, D, F)
    OBVIOUS
  <2>1. D = {}
    BY FS_Subset, FS_EmptySet
  <2> DEFINE F == [s \in SUBSET D |-> 0]
  <2>2. Adds(f, D, F)
    BY <2>1 DEF Adds
  <2> HIDE DEF F
  <2>. QED  BY <2>2
<1>2. ASSUME NEW n \in Nat, n \in N PROVE n + 1 \in N
  <2> SUFFICES ASSUME NEW D \in SUBSET U, Cardinality(D) = n + 1
               PROVE  \E F : Adds(f, D, F)
    OBVIOUS
  <2>1. IsFiniteSet(D)
    BY FS_Subset
  <2>2. D # {}
    BY FS_EmptySet
  <2>3. PICK a \in D : TRUE
    BY <2>2
  <2>4. Cardinality(D \ {a}) = n
    <3>1. Cardinality(D \ {a}) = Cardinality(D) - 1
      BY <2>1, <2>3, FS_RemoveElement
    <3>. QED  BY <3>1
  <2>5. D \ {a} \in SUBSET U
    OBVIOUS
  <2>6. PICK F : Adds(f, D \ {a}, F)
    BY <1>2, <2>4, <2>5
  <2>7. a \in U /\ a \notin D \ {a} /\ (D \ {a}) \cup {a} = D
    BY <2>3
  <2> DEFINE E == D \ {a}
  <2> HIDE DEF E, N
  <2>8. \E G : Adds(f, E \cup {a}, G)
    <3>1. E \in SUBSET U /\ a \notin E
      BY DEF E
    <3>2. Adds(f, E, F)
      BY <2>6 DEF E
    <3>. QED  BY <2>7, <3>1, <3>2, SumExtends
  <2>. QED  BY <2>7, <2>8 DEF E
<1>3. Nat \subseteq N
  <2> HIDE DEF N
  <2>. QED  BY <1>1, <1>2, SetInduction
<1>4. Cardinality(U) \in Nat
  BY FS_CardinalityType
<1>. QED  BY <1>3, <1>4

\* The order does not matter.
LEMMA SumUnique ==
    ASSUME NEW D, IsFiniteSet(D), NEW f, NEW g, \A x \in D : f[x] = g[x],
           NEW F, AddsInOrder(f, D, F), NEW G, Adds(g, D, G)
    PROVE  F[D] = G[D]
<1> DEFINE N == {n \in Nat : \A s \in SUBSET D : Cardinality(s) = n => F[s] = G[s]}
<1>1. 0 \in N
  <2> SUFFICES ASSUME NEW s \in SUBSET D, Cardinality(s) = 0 PROVE F[s] = G[s]
    OBVIOUS
  <2>1. s = {}
    BY FS_Subset, FS_EmptySet
  <2>. QED  BY <2>1 DEF Adds, AddsInOrder
<1>2. ASSUME NEW n \in Nat, n \in N PROVE n + 1 \in N
  <2> SUFFICES ASSUME NEW s \in SUBSET D, Cardinality(s) = n + 1 PROVE F[s] = G[s]
    OBVIOUS
  <2>1. IsFiniteSet(s)
    BY FS_Subset
  <2>2. s # {}
    BY FS_EmptySet
  <2>3. PICK a \in s : F[s] = f[a] + F[s \ {a}]
    BY <2>2 DEF AddsInOrder
  <2>4. Cardinality(s \ {a}) = n
    <3>1. Cardinality(s \ {a}) = Cardinality(s) - 1
      BY <2>1, <2>3, FS_RemoveElement
    <3>. QED  BY <3>1
  <2>5. s \ {a} \in SUBSET D
    OBVIOUS
  <2>6. F[s \ {a}] = G[s \ {a}]
    BY <1>2, <2>4, <2>5
  <2>7. G[s] = g[a] + G[s \ {a}]
    BY DEF Adds
  <2>. QED  BY <2>3, <2>6, <2>7
<1>3. Nat \subseteq N
  <2> HIDE DEF N
  <2>. QED  BY <1>1, <1>2, SetInduction
<1>4. Cardinality(D) \in Nat
  BY FS_CardinalityType
<1>. QED  BY <1>3, <1>4

LEMMA SumOrdered ==
    ASSUME NEW f, NEW D, NEW F, Adds(f, D, F)
    PROVE  AddsInOrder(f, D, F)
BY DEF Adds, AddsInOrder

LEMMA SumPart ==
    ASSUME NEW f, NEW D, NEW F, Adds(f, D, F), NEW S \in SUBSET D
    PROVE  Adds(f, S, F)
BY DEF Adds

\* The fold over a function is its sum.
LEMMA FoldIsSum ==
    ASSUME NEW D, IsFiniteSet(D), NEW f \in [D -> Int], NEW G, Adds(f, D, G)
    PROVE  SumOf(f) = G[D]
<1> DEFINE Body(F, s) == IF s = {} THEN 0
                         ELSE f[CHOOSE y \in s : TRUE] + F[s \ {CHOOSE y \in s : TRUE}]
           Defines(F) == F = [s \in SUBSET D |-> Body(F, s)]
           C == CHOOSE F : Defines(F)
           H == [s \in SUBSET D |-> G[s]]
<1>1. SumOf(f) = C[D]
  <2>1. DOMAIN f = D
    OBVIOUS
  <2>. QED  BY <2>1 DEF SumOf, FoldFunction, FoldFunctionOnSet, MapThenFoldSet
<1>2. Defines(H)
  <2>1. \A s \in SUBSET D : H[s] = Body(H, s)
    <3> SUFFICES ASSUME NEW s \in SUBSET D PROVE H[s] = Body(H, s)
      OBVIOUS
    <3>1. CASE s = {}
      BY <3>1 DEF Adds
    <3>2. CASE s # {}
      <4> DEFINE x == CHOOSE y \in s : TRUE
      <4>1. x \in s
        BY <3>2
      <4> HIDE DEF x
      <4>2. H[s] = G[s] /\ H[s \ {x}] = G[s \ {x}]
        OBVIOUS
      <4>3. G[s] = f[x] + G[s \ {x}]
        BY <4>1 DEF Adds
      <4>4. H[s] = f[x] + H[s \ {x}]
        BY <4>2, <4>3
      <4> HIDE DEF H
      <4>. QED  BY <3>2, <4>4 DEF x
    <3>. QED  BY <3>1, <3>2
  <2>2. H = [s \in SUBSET D |-> H[s]]
    OBVIOUS
  <2> HIDE DEF H, Body
  <2>. QED  BY <2>1, <2>2
<1>3. Defines(C)
  <2>1. \E F : Defines(F)
    <3> HIDE DEF Defines, H
    <3>. QED  BY <1>2
  <2> HIDE DEF Defines
  <2>. QED  BY <2>1
<1> HIDE DEF C
<1>4. \A s \in SUBSET D : C[s] = Body(C, s)
  <2> HIDE DEF Body
  <2>. QED  BY <1>3
<1>5. AddsInOrder(f, D, C)
  <2>1. C[{}] = 0
    BY <1>4
  <2>2. ASSUME NEW s \in SUBSET D, s # {}
        PROVE  \E x \in s : C[s] = f[x] + C[s \ {x}]
    <3> DEFINE x == CHOOSE y \in s : TRUE
    <3>1. C[s] = f[x] + C[s \ {x}]
      BY <1>4, <2>2
    <3>2. x \in s
      BY <2>2
    <3> HIDE DEF x
    <3>. QED  BY <3>1, <3>2
  <2>. QED  BY <2>1, <2>2 DEF AddsInOrder
<1>6. C[D] = G[D]
  BY <1>5, SumUnique
<1>. QED  BY <1>1, <1>6

LEMMA SumOfNothing == SumOf(<<>>) = 0
<1> DEFINE F == [s \in SUBSET {} |-> 0]
<1>1. Adds(<<>>, {}, F)
  BY DEF Adds
<1>2. <<>> \in [{} -> Int]
  OBVIOUS
<1>3. IsFiniteSet({})
  BY FS_EmptySet
<1>4. F[{}] = 0
  OBVIOUS
<1> HIDE DEF F
<1>. QED  BY <1>1, <1>2, <1>3, <1>4, FoldIsSum

\* One value is new or replaced.
LEMMA SumOfUpdate ==
    ASSUME NEW D, IsFiniteSet(D), NEW f \in [D -> Int], NEW a, NEW v \in Int
    PROVE  LET g == [x \in D \cup {a} |-> IF x = a THEN v ELSE f[x]]
               before == IF a \in D THEN f[a] ELSE 0
           IN  SumOf(g) = SumOf(f) - before + v
<1> DEFINE g == [x \in D \cup {a} |-> IF x = a THEN v ELSE f[x]]
           before == IF a \in D THEN f[a] ELSE 0
           B == D \cup {a}
           R == D \ {a}
<1>1. g \in [B -> Int] /\ before \in Int
  OBVIOUS
<1>2. IsFiniteSet(B) /\ IsFiniteSet(R)
  BY FS_AddElement, FS_RemoveElement
<1>3. R \in SUBSET D /\ R \in SUBSET B /\ B \ {a} = R /\ a \in B
  OBVIOUS
<1>4. \A x \in R : f[x] = g[x]
  OBVIOUS
<1>5. g[a] = v
  OBVIOUS
<1>6. (a \in D /\ before = f[a]) \/ (R = D /\ before = 0)
  OBVIOUS
<1> HIDE DEF g, before, B, R
<1>7. PICK F : Adds(f, D, F)
  BY SumExists
<1>8. PICK G : Adds(g, B, G)
  BY <1>1, <1>2, SumExists
<1>9. SumOf(f) = F[D] /\ SumOf(g) = G[B]
  <2>1. SumOf(f) = F[D]
    BY <1>7, FoldIsSum
  <2>2. SumOf(g) = G[B]
    BY <1>1, <1>2, <1>8, FoldIsSum
  <2>. QED  BY <2>1, <2>2
<1>10. F[R] = G[R]
  <2>1. Adds(f, R, F) /\ Adds(g, R, G)
    BY <1>3, <1>7, <1>8, SumPart
  <2>2. AddsInOrder(f, R, F)
    BY <2>1, SumOrdered
  <2>. QED  BY <1>2, <1>4, <2>1, <2>2, SumUnique
<1>11. G[B] = v + G[R] /\ G[R] \in Int
  BY <1>3, <1>5, <1>8 DEF Adds
<1>12. F[D] = before + F[R]
  <2>1. CASE a \in D /\ before = f[a]
    BY <1>7, <2>1 DEF Adds, R
  <2>2. CASE R = D /\ before = 0
    <3>1. F[D] \in Int
      BY <1>7 DEF Adds
    <3>. QED  BY <2>2, <3>1
  <2>. QED  BY <1>6, <2>1, <2>2
<1>13. SumOf(g) = SumOf(f) - before + v
  BY <1>1, <1>9, <1>10, <1>11, <1>12
<1>. QED  BY <1>13 DEF g, before

-----------------------------------------------------------------------------
\* The running sum.

\* Measured servers are finitely many, and the sum is the one of their latencies.
Summed(l) == IsFiniteSet(DOMAIN l.latency) /\ l.sum = SumOf(l.latency)

SameData(l, r) == r.latency = l.latency /\ r.sum = l.sum

LEMMA ClearSummed ==
    ASSUME NEW l, Whole(l)
    PROVE  Summed(Clear(l))
<1> DEFINE none == <<>>
           r    == Clear(l)
<1>1. IsFiniteSet(DOMAIN none) /\ SumOf(none) = 0
  <2>1. DOMAIN none = {}
    OBVIOUS
  <2>. QED  BY <2>1, FS_EmptySet, SumOfNothing
<1>2. l \in Members
  BY DEF Whole, Good
<1>3. r = [l EXCEPT !.latency = none, !.sum = 0]
  BY DEF Clear
<1> HIDE DEF none, r
<1>4. r.latency = none /\ r.sum = 0
  BY <1>2, <1>3 DEF Members
<1>5. Summed(r)
  BY <1>1, <1>4 DEF Summed
<1>. QED  BY <1>5 DEF r

LEMMA StopData ==
    ASSUME NEW l \in Members
    PROVE  SameData(l, Stop(l))
BY DEF Stop, SameData, Members

\* maybeSendPings() measures nothing.
LEMMA MaybeSendPingsData ==
    ASSUME NEW l, Whole(l)
    PROVE  SameData(l, MaybeSendPings(l))
<1> DEFINE a    == Retries(l)
           sent == NewPings(a)
           on   == [sent EXCEPT !.timeout = TRUE]
           r    == MaybeSendPings(l)
<1>1. r = IF ~l.sender THEN l ELSE IF sent.replyList = <<>> THEN Stop(sent) ELSE on
  BY DEF MaybeSendPings
<1>2. Good(a) /\ SameRest(l, a) /\ Len(a.replyList) <= Len(l.replyList)
  BY RetriesGood DEF Whole
<1> HIDE DEF a
<1>3. Len(a.replyList) <= SERVER_LATENCY_MAX_PARALLEL
  <2>1. Len(a.replyList) \in Nat /\ Len(l.replyList) \in Nat
    BY <1>2 DEF Whole, Good, Members
  <2>. QED  BY <1>2, <2>1, LatencyAssumption DEF Whole
<1>4. Good(sent) /\ SameButQueue(a, sent)
  BY <1>2, <1>3, NewPingsGood
<1> HIDE DEF sent
<1>5. SameData(l, sent) /\ sent \in Members
  BY <1>2, <1>4 DEF SameRest, SameButQueue, SameData, Good
<1>6. SameData(sent, on)
  BY <1>5 DEF SameData, Members
<1>7. SameData(sent, Stop(sent))
  BY <1>5, StopData
<1> HIDE DEF on, r
<1>8. SameData(l, r)
  BY <1>1, <1>5, <1>6, <1>7 DEF SameData
<1>. QED  BY <1>8 DEF r

LEMMA SameSummed ==
    ASSUME NEW l, NEW r, Summed(l), SameData(l, r)
    PROVE  Summed(r)
BY DEF Summed, SameData

\* start() measures nothing either; without the feature it clears the data.
LEMMA StartSummed ==
    ASSUME NEW l, Whole(l), Summed(l), NEW s, NEW feature \in BOOLEAN,
           NEW list \in ServerLists
    PROVE  Summed(Start(l, s, feature, list))
<1> DEFINE wanted == [l EXCEPT !.wantRefresh = TRUE]
           begun  == [l EXCEPT !.sequence = 0, !.wantRefresh = FALSE, !.sender = TRUE,
                               !.sendQueue = list, !.total = Len(list),
                               !.refreshTimer = FALSE]
           sent   == MaybeSendPings(begun)
           r      == Start(l, s, feature, list)
<1>1. r = IF ~feature THEN Clear(l)
          ELSE IF s # "Off" THEN wanted
          ELSE IF l.sender THEN l ELSE sent
  BY DEF Start, MayMeasure
<1>2. l \in Members /\ l.sender \in BOOLEAN
  BY DEF Whole, Good, Members
<1>3. Summed(Clear(l))
  BY ClearSummed
<1>4. Summed(wanted)
  <2>1. SameData(l, wanted)
    BY <1>2 DEF SameData, Members
  <2> HIDE DEF wanted
  <2>. QED  BY <2>1, SameSummed
<1>5. ASSUME l.sender = FALSE PROVE Whole(begun) /\ SameData(l, begun)
  <2>1. Whole(begun)
    BY <1>5, BegunWhole
  <2>2. SameData(l, begun)
    BY <1>2 DEF SameData, Members
  <2>. QED  BY <2>1, <2>2
<1> HIDE DEF begun
<1>6. ASSUME l.sender = FALSE PROVE Summed(sent)
  <2>1. SameData(begun, sent)
    BY <1>5, <1>6, MaybeSendPingsData
  <2>2. Summed(begun)
    BY <1>5, <1>6, SameSummed
  <2> HIDE DEF sent
  <2>. QED  BY <2>1, <2>2, SameSummed
<1> HIDE DEF wanted, sent, r
<1>7. Summed(r)
  BY <1>1, <1>2, <1>3, <1>4, <1>6
<1>. QED  BY <1>7 DEF r

LEMMA RefreshSummed ==
    ASSUME NEW l, Whole(l), Summed(l), NEW s, NEW feature \in BOOLEAN,
           NEW list \in ServerLists
    PROVE  Summed(Refresh(l, s, feature, list))
<1> DEFINE c == Clear(l)
           t == Start(c, s, feature, list)
           r == Refresh(l, s, feature, list)
<1>1. r = IF l.sender THEN l ELSE t
  BY DEF Refresh
<1>2. Whole(c) /\ Summed(c)
  BY ClearWhole, ClearSummed
<1> HIDE DEF c
<1>3. Summed(t)
  BY <1>2, StartSummed
<1> HIDE DEF t, r
<1>4. Summed(r)
  BY <1>1, <1>3
<1>. QED  BY <1>4 DEF r

\* setLatency() adds the difference, or the latency of a server not yet measured.
LEMMA SetLatencySummed ==
    ASSUME NEW l \in Members, Summed(l), NEW server \in Servers, NEW ticks \in Nat
    PROVE  Summed(SetLatency(l, server, ticks))
<1> DEFINE f      == l.latency
           D      == DOMAIN f
           before == IF server \in D THEN f[server] ELSE 0
           g      == [x \in D \cup {server} |-> IF x = server THEN ticks ELSE f[x]]
           sum    == l.sum - before + ticks
           r      == SetLatency(l, server, ticks)
<1>1. f \in [D -> Int]
  <2>1. PICK C \in SUBSET Servers : f \in [C -> Nat]
    BY DEF Members, Latencies
  <2>. QED  BY <2>1
<1>2. IsFiniteSet(D) /\ l.sum = SumOf(f)
  BY DEF Summed
<1>3. r = [l EXCEPT !.sum = sum, !.latency = g]
  BY DEF SetLatency
<1>4. SumOf(g) = SumOf(f) - before + ticks
  <2>1. ticks \in Int
    OBVIOUS
  <2> HIDE DEF f, D
  <2>. QED  BY <1>1, <1>2, <2>1, SumOfUpdate
<1>5. IsFiniteSet(DOMAIN g)
  <2>1. DOMAIN g = D \cup {server}
    OBVIOUS
  <2>2. IsFiniteSet(D \cup {server})
    <3> HIDE DEF D
    <3>. QED  BY <1>2, FS_AddElement
  <2>. QED  BY <2>1, <2>2
<1>6. SumOf(g) = sum
  BY <1>2, <1>4
<1> HIDE DEF g, sum, r
<1>7. r.latency = g /\ r.sum = sum
  BY <1>3 DEF Members
<1>8. Summed(r)
  BY <1>5, <1>6, <1>7 DEF Summed
<1>. QED  BY <1>8 DEF r

LEMMA ReceivedSummed ==
    ASSUME NEW l, Whole(l), Summed(l), NEW k \in 1..Len(l.replyList)
    PROVE  Summed([SetLatency(l, l.replyList[k].server, l.replyList[k].age) EXCEPT
                      !.replyList = RemoveAt(@, k)])
<1> DEFINE record == l.replyList[k]
           a      == SetLatency(l, record.server, record.age)
           p      == RemoveAt(a.replyList, k)
           r      == [a EXCEPT !.replyList = p]
<1>1. l \in Members
  BY DEF Whole, Good
<1>2. record.server \in Servers /\ record.age \in Nat
  <2>1. record \in Record
    BY <1>1 DEF Members
  <2>. QED  BY <2>1, LatencyAssumption DEF Record
<1>3. a \in Members
  BY <1>1, <1>2, SetLatencyMembers
<1>4. Summed(a)
  BY <1>1, <1>2, SetLatencySummed
<1> HIDE DEF a, p
<1>5. SameData(a, r)
  BY <1>3 DEF SameData, Members
<1> HIDE DEF r
<1>6. Summed(r)
  BY <1>4, <1>5, SameSummed
<1>. QED  BY <1>6 DEF r, p, a, record

LEMMA NextSummed == Inv /\ Summed(m) /\ [Next]_vars => Summed(m)'
<1> SUFFICES ASSUME Inv, Summed(m), [Next]_vars PROVE Summed(m')
  OBVIOUS
<1>1. /\ servers \in ServerLists /\ supported \in BOOLEAN /\ Whole(m) /\ m \in Members
  BY DEF Inv, Whole, Good
<1>2. CASE UNCHANGED vars
  BY <1>2 DEF vars
<1>3. CASE ServersChanged
  <2>1. m' = Start(m, state, supported, servers') /\ servers' \in ServerLists
    BY <1>3 DEF ServersChanged
  <2>. QED  BY <1>1, <2>1, StartSummed
<1>4. CASE SupportedChanged
  <2>1. m' = Start(m, state, supported', servers) /\ supported' \in BOOLEAN
    BY <1>1, <1>4 DEF SupportedChanged
  <2>. QED  BY <1>1, <2>1, StartSummed
<1>5. CASE RefreshTimer
  <2> DEFINE l == [m EXCEPT !.refreshTimer = FALSE]
  <2>1. m' = Start(l, state, supported, servers)
    BY <1>5 DEF RefreshTimer
  <2>2. Whole(l) /\ SameData(m, l)
    <3>1. /\ l \in Members /\ l.sender = m.sender /\ l.sendQueue = m.sendQueue
          /\ l.replyList = m.replyList /\ l.total = m.total /\ l.sequence = m.sequence
      BY <1>1 DEF Members
    <3>2. SameData(m, l)
      BY <1>1 DEF Members, SameData
    <3> HIDE DEF l
    <3>. QED  BY <1>1, <3>1, <3>2 DEF Whole, Good
  <2> HIDE DEF l
  <2>3. Summed(l)
    BY <2>2, SameSummed
  <2>. QED  BY <1>1, <2>1, <2>2, <2>3, StartSummed
<1>6. CASE RefreshClicked
  <2>1. m' = Refresh(m, state, supported, servers)
    BY <1>6 DEF RefreshClicked
  <2>. QED  BY <1>1, <2>1, RefreshSummed
<1>7. ASSUME NEW s \in States, StateChanged(s) PROVE Summed(m')
  <2>1. m' = IF s # "Off" THEN Stop(m)
             ELSE IF m.wantRefresh THEN Start(m, s, supported, servers) ELSE m
    BY <1>7 DEF StateChanged
  <2>2. Summed(Stop(m))
    BY <1>1, StopData, SameSummed
  <2>3. Summed(Start(m, s, supported, servers))
    BY <1>1, StartSummed
  <2>. QED  BY <2>1, <2>2, <2>3
<1>8. CASE ApplicationStateChanged
  <2> DEFINE l == [m EXCEPT !.wantRefresh = TRUE]
  <2>1. m' = IF active THEN IF m.sender THEN Stop(l) ELSE m
             ELSE IF m.wantRefresh THEN Refresh(m, state, supported, servers) ELSE m
    BY <1>8 DEF ApplicationStateChanged
  <2>2. l \in Members /\ SameData(m, l)
    BY <1>1 DEF Members, SameData
  <2> HIDE DEF l
  <2>3. Summed(Stop(l))
    <3>1. Summed(l)
      BY <2>2, SameSummed
    <3>. QED  BY <2>2, <3>1, StopData, SameSummed
  <2>4. Summed(Refresh(m, state, supported, servers))
    BY <1>1, RefreshSummed
  <2>. QED  BY <2>1, <2>3, <2>4
<1>9. CASE PingTimeout
  <2>1. m' = MaybeSendPings(m)
    BY <1>9 DEF PingTimeout
  <2>2. SameData(m, MaybeSendPings(m))
    BY <1>1, MaybeSendPingsData
  <2>. QED  BY <2>1, <2>2, SameSummed
<1>10. CASE RecvPing
  <2>1. PICK k \in DOMAIN m.replyList :
           m' = MaybeSendPings([SetLatency(m, m.replyList[k].server, m.replyList[k].age)
                                   EXCEPT !.replyList = RemoveAt(@, k)])
    BY <1>10 DEF RecvPing
  <2>2. k \in 1..Len(m.replyList)
    BY <1>1 DEF Members
  <2> DEFINE l == [SetLatency(m, m.replyList[k].server, m.replyList[k].age)
                      EXCEPT !.replyList = RemoveAt(@, k)]
             r == MaybeSendPings(l)
  <2>3. Whole(l)
    BY <1>1, <2>2, ReceivedWhole
  <2>4. Summed(l)
    BY <1>1, <2>2, ReceivedSummed
  <2>5. m' = r
    BY <2>1
  <2> HIDE DEF l
  <2>6. SameData(l, r)
    BY <2>3, MaybeSendPingsData
  <2> HIDE DEF r
  <2>. QED  BY <2>4, <2>5, <2>6, SameSummed
<1>11. CASE Tick
  <2> DEFINE r == [m EXCEPT !.replyList = [i \in DOMAIN @ |-> Older(@[i])]]
  <2>1. m' = r
    BY <1>11 DEF Tick
  <2>2. SameData(m, r)
    BY <1>1 DEF SameData, Members
  <2> HIDE DEF r
  <2>. QED  BY <2>1, <2>2, SameSummed
<1>. QED  BY <1>2, <1>3, <1>4, <1>5, <1>6, <1>7, <1>8, <1>9, <1>10, <1>11 DEF Next

\* However often servers are measured again and the data is cleared, the running sum
\* that avgLatency() divides (serverlatency.cpp:311) is the sum of the latencies.
THEOREM SumKept == Spec => []SumOfLatencies
<1>1. Init => Summed(m)
  <2> SUFFICES ASSUME Init PROVE Summed(m)
    OBVIOUS
  <2> DEFINE none == <<>>
  <2>1. m.latency = none /\ m.sum = 0
    BY DEF Init
  <2>2. IsFiniteSet(DOMAIN none) /\ SumOf(none) = 0
    <3>1. DOMAIN none = {}
      OBVIOUS
    <3>. QED  BY <3>1, FS_EmptySet, SumOfNothing
  <2> HIDE DEF none
  <2>. QED  BY <2>1, <2>2 DEF Summed
<1>2. Summed(m) => SumOfLatencies
  BY DEF Summed, SumOfLatencies, SumOf
<1>. QED  BY <1>1, <1>2, Invariance, NextSummed, PTL DEF Spec
=============================================================================
