------------------------------ MODULE CachesProofs ------------------------------
(***************************************************************************)
(* Proofs about the caches and the tracker of savings, for any number of   *)
(* clients, prompts, templates and partitions, any similarities, costs and *)
(* TTLs, and any size of the top list.                                     *)
(***************************************************************************)
EXTENDS Caches, Induction, FiniteSetTheorems, SequenceTheorems, TLAPS

-----------------------------------------------------------------------------
(* The tracker. *)

Row == [entry : Entries, cost : Nat, hits : Nat]

(* c is the highest cost among the hits s. *)
IsDearest(s, c) ==
  /\ c \in Int
  /\ \E i \in 1..Len(s) : s[i] = c
  /\ \A i \in 1..Len(s) : s[i] <= c

(* An entry that is not listed cannot be dearer than one that is. *)
NotDearer(s, t) ==
  \/ s = <<>>
  \/ Len(t) = MaxTopEntries /\ \E c : IsDearest(s, c) /\ \A i \in 1..Len(t) : c <= t[i].cost

TrackerInv ==
  /\ top \in Seq(Row) /\ hits \in [Entries -> Seq(Int)]
  /\ Len(top) <= MaxTopEntries
  /\ \A i, j \in 1..Len(top) : top[i].entry = top[j].entry => i = j
  /\ \A i \in 1..Len(top) : IsDearest(hits[top[i].entry], top[i].cost)
  /\ \A x \in Entries \ Listed : NotDearer(hits[x], top)

LEMMA DearestUnique ==
  ASSUME NEW x \in Entries, hits[x] \in Seq(Int), NEW c, IsDearest(hits[x], c)
  PROVE  DearestHit(x) = c
<1> DEFINE s == hits[x]
           P(d) == d \in {s[i] : i \in 1..Len(s)} /\ \A i \in 1..Len(s) : s[i] <= d
<1>1. P(c) /\ c \in Int
  BY DEF IsDearest
<1>2. ASSUME NEW d, P(d) PROVE d = c
  <2>1. d \in Int /\ d <= c /\ c <= d
    BY <1>1, <1>2
  <2> QED
    BY <1>1, <2>1
<1>3. DearestHit(x) = CHOOSE d : P(d)
  BY DEF DearestHit
<1> HIDE DEF P
<1> QED
  BY <1>1, <1>2, <1>3

LEMMA DearestAppend ==
  ASSUME NEW s \in Seq(Int), NEW c \in Int
  PROVE  /\ \A d : IsDearest(s, d) => IsDearest(Append(s, c), IF c > d THEN c ELSE d)
         /\ s = <<>> => IsDearest(Append(s, c), c)
<1> DEFINE t == Append(s, c)
<1>1. /\ Len(t) = Len(s) + 1 /\ Len(s) \in Nat /\ t[Len(s) + 1] = c
      /\ \A i \in 1..Len(s) : t[i] = s[i] /\ s[i] \in Int
  OBVIOUS
<1> HIDE DEF t
<1>2. ASSUME NEW d, IsDearest(s, d) PROVE IsDearest(t, IF c > d THEN c ELSE d)
  <2>1. d \in Int /\ (\A i \in 1..Len(s) : s[i] <= d)
    BY <1>2 DEF IsDearest
  <2>2. PICK k \in 1..Len(s) : s[k] = d
    BY <1>2 DEF IsDearest
  <2>3. k \in 1..Len(t) /\ Len(s) + 1 \in 1..Len(t) /\ t[k] = d
    BY <1>1, <2>2
  <2>4. ASSUME NEW i \in 1..Len(t) PROVE t[i] <= IF c > d THEN c ELSE d
    <3>1. CASE i = Len(s) + 1
      BY <1>1, <2>1, <3>1
    <3>2. CASE i # Len(s) + 1
      <4>1. i \in 1..Len(s)
        BY <1>1, <3>2
      <4>2. t[i] = s[i] /\ s[i] \in Int /\ s[i] <= d
        BY <1>1, <2>1, <4>1
      <4> QED
        BY <2>1, <4>2
    <3> QED
      BY <3>1, <3>2
  <2> QED
    BY <1>1, <2>1, <2>3, <2>4 DEF IsDearest
<1>3. ASSUME s = <<>> PROVE IsDearest(t, c)
  <2>1. Len(s) = 0
    BY <1>3
  <2> QED
    BY <1>1, <2>1 DEF IsDearest
<1> QED
  BY <1>2, <1>3 DEF t

(* What the invariant says is what the list is for. *)
LEMMA TrackerInvSuffices ==
  ASSUME TrackerInv PROVE TopHoldsDearest
<1>1. top \in Seq(Row) /\ Len(top) \in Nat /\ Len(top) <= MaxTopEntries
  BY DEF TrackerInv
<1>2. Cardinality(Listed) = Len(top)
  <2> DEFINE n == Len(top)
             f == [i \in 1..n |-> top[i].entry]
  <2>1. f \in Bijection(1..n, Listed)
    BY DEF TrackerInv, Listed, Bijection, Injection, Surjection, IsInjective
  <2>2. IsFiniteSet(1..n) /\ Cardinality(1..n) = n
    BY <1>1, FS_Interval
  <2> HIDE DEF n, f
  <2>3. Cardinality(Listed) = n
    BY <2>1, <2>2, FS_Bijection DEF ExistsBijection
  <2> QED
    BY <2>3 DEF n
<1>3. ASSUME NEW i \in 1..Len(top) PROVE top[i].cost = DearestHit(top[i].entry)
  <2>1. top[i] \in Row
    BY <1>1
  <2>2. top[i].entry \in Entries
    BY <2>1 DEF Row
  <2> QED
    BY <2>2, DearestUnique DEF TrackerInv
<1>4. ASSUME NEW x \in Entries \ Listed, hits[x] # <<>>
      PROVE  /\ Len(top) = MaxTopEntries
             /\ \A i \in 1..Len(top) : DearestHit(x) <= top[i].cost
  <2>1. PICK c : IsDearest(hits[x], c) /\ \A i \in 1..Len(top) : c <= top[i].cost
    BY <1>4 DEF TrackerInv, NotDearer
  <2>2. DearestHit(x) = c
    BY <2>1, DearestUnique DEF TrackerInv
  <2> QED
    BY <1>4, <2>1, <2>2 DEF TrackerInv, NotDearer
<1> QED
  BY <1>1, <1>2, <1>3, <1>4 DEF TopHoldsDearest

LEMMA MinIdx ==
  ASSUME top \in Seq(Row), top # <<>>
  PROVE  minIdx \in 1..Len(top) /\ \A j \in 1..Len(top) : top[minIdx].cost <= top[j].cost
<1> DEFINE n == Len(top)
           C == {top[i].cost : i \in 1..n}
           P(i) == /\ i \in 1..n
                   /\ \A j \in 1..n : top[i].cost <= top[j].cost
                   /\ \A j \in 1..(i - 1) : top[i].cost < top[j].cost
<1>1. n \in Nat /\ n >= 1 /\ \A i \in 1..n : top[i].cost \in Nat
  <2>1. \A i \in 1..n : top[i] \in Row
    OBVIOUS
  <2>2. n \in Nat /\ n >= 1
    OBVIOUS
  <2> QED
    BY <2>1, <2>2 DEF Row
<1>2. C \subseteq Nat /\ C # {}
  BY <1>1
<1>3. PICK c \in C : \A d \in C : c <= d
  <2> HIDE DEF C
  <2> QED
    BY <1>2, LeastMember
<1> DEFINE I == {i \in 1..n : top[i].cost = c}
<1>4. I \subseteq Nat /\ I # {}
  BY <1>3
<1>5. PICK i \in I : \A j \in I : i <= j
  <2> HIDE DEF I
  <2> QED
    BY <1>4, LeastMember
<1>6. P(i)
  <2>1. i \in 1..n /\ top[i].cost = c
    BY <1>5
  <2>2. \A j \in 1..n : c <= top[j].cost
    BY <1>3
  <2>3. ASSUME NEW j \in 1..(i - 1) PROVE c < top[j].cost
    <3>1. j \in 1..n /\ ~(i <= j)
      BY <1>1, <2>1
    <3>2. top[j].cost # c
      BY <1>5, <3>1
    <3> QED
      BY <1>1, <1>2, <1>3, <2>2, <3>1, <3>2
  <2> QED
    BY <2>1, <2>2, <2>3
<1>7. minIdx = CHOOSE k : P(k)
  BY DEF minIdx
<1> HIDE DEF P
<1>8. P(minIdx)
  BY <1>6, <1>7
<1> QED
  BY <1>8 DEF P

(* Recording a hit keeps the list right. *)
LEMMA TrackerStep ==
  ASSUME TrackerInv, NEW x \in Entries, NEW cost \in Int, RecordCacheHitSavings(x, cost)
  PROVE  TrackerInv'
<1>1. CASE cost <= 0
  <2>1. top' = top /\ hits' = hits
    BY <1>1 DEF RecordCacheHitSavings, trackerVars
  <2> QED
    BY <2>1 DEF TrackerInv, Listed
<1>2. CASE ~(cost <= 0)
  <2>0. cost \in Nat /\ hits' = [hits EXCEPT ![x] = Append(hits[x], cost)]
        /\ top' = IF x \in Listed THEN WithHit(x, cost) ELSE WithNew(x, cost)
    BY <1>2 DEF RecordCacheHitSavings
  <2>1. /\ top \in Seq(Row) /\ hits \in [Entries -> Seq(Int)] /\ hits[x] \in Seq(Int)
        /\ Len(top) \in Nat /\ Len(top) <= MaxTopEntries
    BY DEF TrackerInv
  <2>2. \A i \in 1..Len(top) : top[i] \in Row
    BY <2>1
  <2>3. \A i \in 1..Len(top) : top[i].entry \in Entries /\ top[i].cost \in Nat /\ top[i].hits \in Nat
    BY <2>2 DEF Row
  <2> DEFINE h == Append(hits[x], cost)
  <2>4. hits' \in [Entries -> Seq(Int)] /\ hits'[x] = h /\ \A y \in Entries \ {x} : hits'[y] = hits[y]
    BY <2>0, <2>1
  <2>5. /\ \A d : IsDearest(hits[x], d) => IsDearest(h, IF cost > d THEN cost ELSE d)
        /\ hits[x] = <<>> => IsDearest(h, cost)
    BY <2>1, DearestAppend
  <2> HIDE DEF h
  <2>6. Listed = {top[i].entry : i \in 1..Len(top)} /\ Listed' = {top'[i].entry : i \in 1..Len(top')}
    BY DEF Listed
  <2>7. CASE x \in Listed
    <3>1. top' = [i \in 1..Len(top) |->
                    IF top[i].entry # x THEN top[i]
                    ELSE [entry |-> x, cost |-> IF cost > top[i].cost THEN cost ELSE top[i].cost,
                          hits |-> top[i].hits + 1]]
      BY <2>0, <2>7 DEF WithHit
    <3>2. ASSUME NEW i \in 1..Len(top)
          PROVE  /\ top'[i] \in Row /\ top'[i].entry = top[i].entry /\ top[i].cost <= top'[i].cost
                 /\ top[i].entry # x => top'[i].cost = top[i].cost
                 /\ top[i].entry = x => top'[i].cost = IF cost > top[i].cost THEN cost ELSE top[i].cost
      <4>1. CASE top[i].entry # x
        BY <2>2, <2>3, <3>1, <4>1
      <4>2. CASE top[i].entry = x
        <5> DEFINE c == IF cost > top[i].cost THEN cost ELSE top[i].cost
                   k == top[i].hits + 1
        <5>1. c \in Nat /\ k \in Nat /\ top[i].cost <= c
          BY <2>0, <2>3
        <5>2. top'[i] = [entry |-> x, cost |-> c, hits |-> k]
          BY <3>1, <4>2
        <5> HIDE DEF c, k
        <5>3. top'[i] \in Row /\ top'[i].entry = x /\ top'[i].cost = c
          BY <5>1, <5>2 DEF Row
        <5> QED
          BY <4>2, <5>1, <5>3 DEF c
      <4> QED
        BY <4>1, <4>2
    <3>3. top' \in Seq(Row) /\ Len(top') = Len(top)
      BY <2>1, <3>1, <3>2
    <3>4. Listed' = Listed
      BY <2>6, <3>2, <3>3
    <3>5. \A i, j \in 1..Len(top') : top'[i].entry = top'[j].entry => i = j
      BY <3>2, <3>3 DEF TrackerInv
    <3>6. ASSUME NEW i \in 1..Len(top') PROVE IsDearest(hits'[top'[i].entry], top'[i].cost)
      <4>1. i \in 1..Len(top) /\ IsDearest(hits[top[i].entry], top[i].cost)
        BY <3>3 DEF TrackerInv
      <4>2. CASE top[i].entry = x
        BY <2>4, <2>5, <3>2, <4>1, <4>2
      <4>3. CASE top[i].entry # x
        BY <2>3, <2>4, <3>2, <4>1, <4>3
      <4> QED
        BY <4>2, <4>3
    <3>7. ASSUME NEW y \in Entries \ Listed' PROVE NotDearer(hits'[y], top')
      <4>1. NotDearer(hits[y], top) /\ hits'[y] = hits[y]
        BY <2>4, <2>7, <3>4 DEF TrackerInv
      <4>2. CASE hits[y] = <<>>
        BY <4>1, <4>2 DEF NotDearer
      <4>3. CASE hits[y] # <<>>
        <5>1. PICK c : IsDearest(hits[y], c) /\ \A i \in 1..Len(top) : c <= top[i].cost
          BY <4>1, <4>3 DEF NotDearer
        <5>2. c \in Int
          BY <5>1 DEF IsDearest
        <5>3. ASSUME NEW i \in 1..Len(top) PROVE c <= top'[i].cost
          <6>1. c <= top[i].cost /\ top[i].cost <= top'[i].cost /\ top[i].cost \in Nat
            BY <2>3, <3>2, <5>1
          <6>2. top'[i].cost \in Nat
            BY <3>2 DEF Row
          <6> QED
            BY <5>2, <6>1, <6>2
        <5> QED
          BY <3>3, <4>1, <4>3, <5>1, <5>3 DEF NotDearer
      <4> QED
        BY <4>2, <4>3
    <3> QED
      BY <2>1, <2>4, <3>3, <3>5, <3>6, <3>7 DEF TrackerInv
  <2>8. CASE x \notin Listed /\ Len(top) < MaxTopEntries
    <3> DEFINE r == Fresh(x, cost)
    <3>1. top' = Append(top, r)
      BY <2>0, <2>8 DEF WithNew
    <3>2. r \in Row /\ r.entry = x /\ r.cost = cost
      BY <2>0 DEF Fresh, Row
    <3> HIDE DEF r
    <3>3. /\ top' \in Seq(Row) /\ Len(top') = Len(top) + 1 /\ top'[Len(top) + 1] = r
          /\ \A i \in 1..Len(top) : top'[i] = top[i]
      BY <2>1, <3>1, <3>2
    <3>4. ASSUME NEW y \in Entries \ Listed PROVE hits[y] = <<>>
      BY <2>1, <2>8, TrackerAssumption DEF TrackerInv, NotDearer
    <3>5. Listed \cup {x} \subseteq Listed'
      <4>1. \A i \in 1..Len(top) : i \in 1..Len(top') /\ top'[i].entry = top[i].entry
        BY <2>1, <3>3
      <4>2. Len(top) + 1 \in 1..Len(top') /\ top'[Len(top) + 1].entry = x
        BY <2>1, <3>2, <3>3
      <4> QED
        BY <2>6, <4>1, <4>2
    <3>6. ASSUME NEW i \in 1..Len(top'), NEW j \in 1..Len(top'), top'[i].entry = top'[j].entry
          PROVE  i = j
      <4>1. \A k \in 1..Len(top) : top[k].entry # x
        BY <2>6, <2>8
      <4>2. \A k \in 1..Len(top') : k \in 1..Len(top) \/ k = Len(top) + 1
        BY <2>1, <3>3
      <4> QED
        BY <3>2, <3>3, <3>6, <4>1, <4>2 DEF TrackerInv
    <3>7. ASSUME NEW i \in 1..Len(top') PROVE IsDearest(hits'[top'[i].entry], top'[i].cost)
      <4>1. CASE i = Len(top) + 1
        BY <2>4, <2>5, <2>8, <3>2, <3>3, <3>4, <4>1
      <4>2. CASE i # Len(top) + 1
        <5>1. i \in 1..Len(top)
          BY <2>1, <3>3, <4>2
        <5>2. top'[i] = top[i] /\ top[i].entry \in Entries \ {x}
          BY <2>3, <2>6, <2>8, <3>3, <5>1
        <5>3. IsDearest(hits[top[i].entry], top[i].cost)
          BY <5>1 DEF TrackerInv
        <5> QED
          BY <2>4, <5>2, <5>3
      <4> QED
        BY <4>1, <4>2
    <3>8. ASSUME NEW y \in Entries \ Listed' PROVE NotDearer(hits'[y], top')
      BY <2>4, <3>4, <3>5 DEF NotDearer
    <3>9. Len(top') <= MaxTopEntries
      BY <2>1, <2>8, <3>3, TrackerAssumption
    <3> QED
      BY <2>4, <3>3, <3>6, <3>7, <3>8, <3>9 DEF TrackerInv
  <2>9. CASE x \notin Listed /\ ~(Len(top) < MaxTopEntries)
    <3>1. Len(top) = MaxTopEntries /\ top # <<>>
      BY <2>1, <2>9, TrackerAssumption
    <3>2. minIdx \in 1..Len(top) /\ \A j \in 1..Len(top) : top[minIdx].cost <= top[j].cost
      BY <2>1, <3>1, MinIdx
    <3> DEFINE k == minIdx
               least == top[k].cost
    <3>3. /\ k \in 1..Len(top) /\ least \in Nat
          /\ \A j \in 1..Len(top) : least <= top[j].cost
      BY <2>3, <3>2
    <3>4. top' = IF cost > least THEN [top EXCEPT ![k] = Fresh(x, cost)] ELSE top
      BY <2>0, <2>9 DEF WithNew
    <3> HIDE DEF k, least
    <3>5. hits[x] = <<>> \/ \E c : IsDearest(hits[x], c) /\ \A i \in 1..Len(top) : c <= top[i].cost
      BY <2>9 DEF TrackerInv, NotDearer
    <3>6. CASE cost > least
      <4> DEFINE r == Fresh(x, cost)
      <4>1. r \in Row /\ r.entry = x /\ r.cost = cost
        BY <2>0 DEF Fresh, Row
      <4> HIDE DEF r
      <4>2. top' = [top EXCEPT ![k] = r]
        BY <3>4, <3>6 DEF r
      <4>3. /\ top' \in Seq(Row) /\ Len(top') = Len(top) /\ top'[k] = r
            /\ \A i \in 1..Len(top) : i # k => top'[i] = top[i]
        BY <2>1, <3>3, <4>1, <4>2
      <4>4. IsDearest(h, cost)
        <5>1. CASE hits[x] = <<>>
          BY <2>5, <5>1
        <5>2. CASE hits[x] # <<>>
          <6>1. PICK c : IsDearest(hits[x], c) /\ \A i \in 1..Len(top) : c <= top[i].cost
            BY <3>5, <5>2
          <6>2. c \in Int /\ c <= least
            BY <3>3, <6>1 DEF IsDearest, least
          <6>3. cost > c
            BY <2>0, <3>3, <3>6, <6>2
          <6> QED
            BY <2>5, <6>1, <6>3
        <5> QED
          BY <5>1, <5>2
      <4>5. ASSUME NEW i \in 1..Len(top'), NEW j \in 1..Len(top'), top'[i].entry = top'[j].entry
            PROVE  i = j
        <5>1. \A l \in 1..Len(top) : top[l].entry # x
          BY <2>6, <2>9
        <5> QED
          BY <4>1, <4>3, <4>5, <5>1 DEF TrackerInv
      <4>6. ASSUME NEW i \in 1..Len(top') PROVE IsDearest(hits'[top'[i].entry], top'[i].cost)
        <5>1. CASE i = k
          BY <2>4, <4>1, <4>3, <4>4, <5>1
        <5>2. CASE i # k
          <6>1. i \in 1..Len(top) /\ top'[i] = top[i] /\ top[i].entry \in Entries \ {x}
            BY <2>3, <2>6, <2>9, <4>3, <5>2
          <6>2. IsDearest(hits[top[i].entry], top[i].cost)
            BY <6>1 DEF TrackerInv
          <6> QED
            BY <2>4, <6>1, <6>2
        <5> QED
          BY <5>1, <5>2
      <4>7. \A i \in 1..Len(top') : least <= top'[i].cost
        BY <2>0, <3>3, <3>6, <4>1, <4>3
      <4>8. ASSUME NEW y \in Entries \ Listed' PROVE NotDearer(hits'[y], top')
        <5>1. y # x
          BY <2>6, <3>3, <4>1, <4>3
        <5>2. hits'[y] = hits[y]
          BY <2>4, <5>1
        <5>3. \A i \in 1..Len(top') : top'[i].cost \in Nat
          BY <2>0, <2>3, <4>1, <4>3
        <5>4. CASE y \in Listed
          <6>1. y = top[k].entry
            BY <2>6, <4>3, <5>4
          <6>2. IsDearest(hits[y], least)
            BY <3>3, <6>1 DEF TrackerInv, least
          <6> QED
            BY <3>1, <4>3, <4>7, <5>2, <6>2 DEF NotDearer
        <5>5. CASE y \notin Listed
          <6>1. NotDearer(hits[y], top)
            BY <5>5 DEF TrackerInv
          <6>2. CASE hits[y] = <<>>
            BY <5>2, <6>2 DEF NotDearer
          <6>3. CASE hits[y] # <<>>
            <7>1. PICK c : IsDearest(hits[y], c) /\ \A i \in 1..Len(top) : c <= top[i].cost
              BY <6>1, <6>3 DEF NotDearer
            <7>2. c \in Int /\ c <= least
              BY <3>3, <7>1 DEF IsDearest, least
            <7>3. ASSUME NEW i \in 1..Len(top') PROVE c <= top'[i].cost
              BY <3>3, <4>7, <5>3, <7>2
            <7> QED
              BY <3>1, <4>3, <5>2, <7>1, <7>3 DEF NotDearer
          <6> QED
            BY <6>2, <6>3
        <5> QED
          BY <5>4, <5>5
      <4> QED
        BY <2>1, <2>4, <4>3, <4>5, <4>6, <4>8 DEF TrackerInv
    <3>7. CASE ~(cost > least)
      <4>1. top' = top /\ Listed' = Listed
        BY <2>6, <3>4, <3>7
      <4>2. ASSUME NEW i \in 1..Len(top) PROVE IsDearest(hits'[top[i].entry], top[i].cost)
        <5>1. top[i].entry \in Entries \ {x}
          BY <2>3, <2>6, <2>9
        <5> QED
          BY <2>4, <5>1 DEF TrackerInv
      <4>3. ASSUME NEW y \in Entries \ Listed PROVE NotDearer(hits'[y], top)
        <5>1. CASE y # x
          BY <2>4, <5>1 DEF TrackerInv
        <5>2. CASE y = x
          <6>1. cost <= least
            BY <2>0, <3>3, <3>7
          <6>2. \A i \in 1..Len(top) : cost <= top[i].cost
            BY <2>0, <2>3, <3>3, <6>1
          <6>3. CASE hits[x] = <<>>
            BY <2>4, <2>5, <3>1, <5>2, <6>2, <6>3 DEF NotDearer
          <6>4. CASE hits[x] # <<>>
            <7>1. PICK c : IsDearest(hits[x], c) /\ \A i \in 1..Len(top) : c <= top[i].cost
              BY <3>5, <6>4
            <7> DEFINE d == IF cost > c THEN cost ELSE c
            <7>2. IsDearest(h, d)
              BY <2>5, <7>1
            <7>3. \A i \in 1..Len(top) : d <= top[i].cost
              BY <6>2, <7>1
            <7> HIDE DEF d
            <7> QED
              BY <2>4, <3>1, <5>2, <7>2, <7>3 DEF NotDearer
          <6> QED
            BY <6>3, <6>4
        <5> QED
          BY <5>1, <5>2
      <4> QED
        BY <2>1, <2>4, <4>1, <4>2, <4>3 DEF TrackerInv
    <3> QED
      BY <3>6, <3>7
  <2> QED
    BY <2>7, <2>8, <2>9
<1> QED
  BY <1>1, <1>2

-----------------------------------------------------------------------------
(* The pass over a partition. *)

SemanticEntry == [text : Prompts, response : Responses, cost : Costs, expiresAt : Nat \cup {None}]
PromptEntry == [text : Templates, response : Responses, cost : Costs, expiresAt : Nat \cup {None}]

Passes == [kept : Seq(SemanticEntry), best : Nat, bestScore : Int \cup {None}]

LEMMA ScoreType ==
  ASSUME NEW x \in Prompts, NEW e \in SemanticEntry
  PROVE  Score(x, e) \in Int \cup {NaN}
<1>1. e.text \in Prompts
  BY DEF SemanticEntry
<1>2. <<x, e.text>> \in Prompts \X Prompts
  BY <1>1
<1> QED
  BY <1>2, CachesAssumption DEF Score

LEMMA VisitType ==
  ASSUME NEW x \in Prompts, NEW e \in SemanticEntry, NEW now, NEW r \in Passes
  PROVE  Visit(x, e, now, r) \in Passes
<1> DEFINE S == Seq(SemanticEntry)
           score == Score(x, e)
           kept == Append(r.kept, e)
           len == Len(kept)
<1>1. r.kept \in S /\ r.best \in Nat /\ r.bestScore \in Int \cup {None}
  BY DEF Passes
<1>2. kept \in S
  BY <1>1
<1>3. len \in Nat
  BY <1>2
<1>4. score \in Int \cup {NaN}
  BY ScoreType
<1>5. Visit(x, e, now, r) =
        IF expired(e, now) THEN r
        ELSE IF Beats(score, r) THEN [kept |-> kept, best |-> len, bestScore |-> score]
        ELSE [kept |-> kept, best |-> r.best, bestScore |-> r.bestScore]
  BY DEF Visit
<1>6. Beats(score, r) => score \in Int
  BY <1>4 DEF Beats
<1>7. Passes = [kept : S, best : Nat, bestScore : Int \cup {None}]
  BY DEF Passes
<1> HIDE DEF S, score, kept, len
<1> QED
  BY <1>1, <1>2, <1>3, <1>5, <1>6, <1>7

(* The recursion of scan has a solution: p[i] is the state of the pass     *)
(* after i entries.                                                        *)
IsPass(p, x, entries, now) ==
  /\ p \in [0..Len(entries) -> Passes]
  /\ p[0] = NothingYet
  /\ \A i \in 1..Len(entries) : p[i] = Visit(x, entries[i], now, p[i - 1])
  /\ scan(x, entries, now) = p[Len(entries)]

LEMMA ScanPasses ==
  ASSUME NEW x \in Prompts, NEW entries \in Seq(SemanticEntry), NEW now
  PROVE  \E p : IsPass(p, x, entries, now)
<1> DEFINE n == Len(entries)
           V(i, r) == Visit(x, entries[i], now, r)
           G == [i \in 1..n |-> [r \in Passes |-> V(i, r)]]
           Rec(f) == f = [i \in 0..n |-> IF i = 0 THEN NothingYet ELSE V(i, f[i - 1])]
           pass == CHOOSE f : Rec(f)
<1>1. n \in Nat /\ \A i \in 1..n : entries[i] \in SemanticEntry
  OBVIOUS
<1>2. NothingYet \in Passes
  <2> DEFINE e == <<>>
  <2>1. e \in Seq(SemanticEntry)
    OBVIOUS
  <2>2. NothingYet = [kept |-> e, best |-> 0, bestScore |-> None]
    BY DEF NothingYet
  <2> HIDE DEF e
  <2> QED
    BY <2>1, <2>2 DEF Passes
<1>3. \A i \in 1..n, r \in Passes : V(i, r) \in Passes
  BY <1>1, VisitType
<1>4. scan(x, entries, now) = pass[n]
  BY DEF scan
<1> HIDE DEF n, V
<1>5. G \in [1..n -> [Passes -> Passes]]
  BY <1>3
<1>6. PICK f \in [0..n -> Passes] : DefinedBy(f, n, NothingYet, G)
  <2> HIDE DEF G
  <2> QED
    BY <1>1, <1>2, <1>5, Recursion, Zenon
<1>7. ASSUME NEW i \in 1..n PROVE f[i] = V(i, f[i - 1])
  <2>1. i - 1 \in 0..n
    BY <1>1
  <2>2. f[i - 1] \in Passes
    BY <2>1
  <2> QED
    BY <1>6, <2>2 DEF DefinedBy
<1>8. Rec(f)
  <2>1. ASSUME NEW i \in 0..n PROVE f[i] = IF i = 0 THEN NothingYet ELSE V(i, f[i - 1])
    <3>1. CASE i = 0
      BY <1>6, <3>1 DEF DefinedBy
    <3>2. CASE i # 0
      <4>1. i \in 1..n
        BY <1>1, <3>2
      <4> QED
        BY <1>7, <3>2, <4>1
    <3> QED
      BY <3>1, <3>2
  <2> QED
    BY <2>1
<1>9. Rec(pass)
  <2> HIDE DEF Rec
  <2> QED
    BY <1>8
<1> HIDE DEF pass
<1>10. pass[0] = NothingYet
  BY <1>1, <1>9
<1>11. ASSUME NEW i \in 1..n PROVE pass[i] = V(i, pass[i - 1])
  <2>1. i \in 0..n /\ i # 0
    BY <1>1
  <2> QED
    BY <1>9, <2>1
<1>12. \A i \in 0..n : pass[i] \in Passes
  <2>1. ASSUME NEW i \in 1..n, pass[i - 1] \in Passes PROVE pass[i] \in Passes
    BY <1>3, <1>11, <2>1
  <2> QED
    BY <1>1, <1>2, <1>10, <2>1, StaysIn
<1>13. pass \in [0..n -> Passes]
  BY <1>9, <1>12
<1> QED
  BY <1>4, <1>10, <1>11, <1>13 DEF IsPass, n, V

(* The entries a lookup may answer with, among the first i. *)
Candidates(x, entries, now, i) ==
  {j \in 1..i : ~expired(entries[j], now) /\ Score(x, entries[j]) # NaN}

(* Entry j is the first of the closest among those of J. *)
IsClosest(j, J, x, entries) ==
  /\ j \in J
  /\ \A l \in J : \/ Score(x, entries[l]) < Score(x, entries[j])
                  \/ Score(x, entries[l]) = Score(x, entries[j]) /\ j <= l

(* r is the right state of the pass after i entries. *)
PassRight(r, x, entries, now, i) ==
  LET J == Candidates(x, entries, now, i)
  IN  IF r.best = 0 THEN J = {}
      ELSE /\ r.best \in 1..Len(r.kept)
           /\ \E j \in J : /\ IsClosest(j, J, x, entries)
                           /\ r.kept[r.best] = entries[j]
                           /\ r.bestScore = Score(x, entries[j])

(* One more entry keeps it right. *)
LEMMA VisitRight ==
  ASSUME NEW x \in Prompts, NEW entries \in Seq(SemanticEntry), NEW now,
         NEW i \in 1..Len(entries), NEW r \in Passes,
         PassRight(r, x, entries, now, i - 1)
  PROVE  PassRight(Visit(x, entries[i], now, r), x, entries, now, i)
<1> DEFINE S(j) == Score(x, entries[j])
           I == Candidates(x, entries, now, i - 1)
           J == Candidates(x, entries, now, i)
           e == entries[i]
           v == Visit(x, e, now, r)
           kept == Append(r.kept, e)
           len == Len(kept)
<1>1. Len(entries) \in Nat /\ i \in Nat /\ \A j \in 1..Len(entries) : entries[j] \in SemanticEntry
  OBVIOUS
<1>2. \A j \in 1..Len(entries) : S(j) \in Int \cup {NaN}
  BY <1>1, ScoreType
<1>3. /\ r.kept \in Seq(SemanticEntry) /\ r.best \in Nat /\ Len(r.kept) \in Nat
      /\ len = Len(r.kept) + 1 /\ kept[len] = e
      /\ \A k \in 1..Len(r.kept) : kept[k] = r.kept[k]
  <2>1. r.kept \in Seq(SemanticEntry) /\ r.best \in Nat
    BY DEF Passes
  <2> QED
    BY <1>1, <2>1
<1>4. /\ I \subseteq 1..(i - 1) /\ J \subseteq 1..i /\ I \subseteq J /\ J \subseteq I \cup {i}
      /\ i \notin I /\ (i \in J <=> ~expired(e, now) /\ S(i) # NaN)
      /\ \A j \in J : S(j) \in Int
  <2>1. \A j \in 1..i : j \in 1..Len(entries)
    BY <1>1
  <2>2. 1..i = 1..(i - 1) \cup {i} /\ i \notin 1..(i - 1)
    BY <1>1
  <2>3. \A j \in J : S(j) \in Int
    BY <1>2, <2>1 DEF Candidates
  <2> QED
    BY <2>2, <2>3 DEF Candidates
<1>5. v = IF expired(e, now) THEN r
          ELSE IF Beats(S(i), r) THEN [kept |-> kept, best |-> len, bestScore |-> S(i)]
          ELSE [kept |-> kept, best |-> r.best, bestScore |-> r.bestScore]
  BY DEF Visit
<1>6. IF r.best = 0 THEN I = {}
      ELSE /\ r.best \in 1..Len(r.kept)
           /\ \E j \in I : /\ IsClosest(j, I, x, entries)
                           /\ r.kept[r.best] = entries[j]
                           /\ r.bestScore = S(j)
  BY DEF PassRight
<1>7. \A j, K : IsClosest(j, K, x, entries) <=>
        j \in K /\ \A l \in K : S(l) < S(j) \/ (S(l) = S(j) /\ j <= l)
  BY DEF IsClosest
<1>8. PassRight(v, x, entries, now, i) <=>
        IF v.best = 0 THEN J = {}
        ELSE /\ v.best \in 1..Len(v.kept)
             /\ \E j \in J : /\ IsClosest(j, J, x, entries)
                             /\ v.kept[v.best] = entries[j]
                             /\ v.bestScore = S(j)
  BY DEF PassRight
<1> SUFFICES PassRight(v, x, entries, now, i)
  OBVIOUS
<1> HIDE DEF S, I, J, v, kept, len
<1>9. CASE expired(e, now)
  <2>1. v = r /\ J = I
    BY <1>4, <1>5, <1>9
  <2> QED
    BY <1>6, <1>8, <2>1
<1>10. CASE ~expired(e, now) /\ Beats(S(i), r)
  <2>1. v.kept = kept /\ v.best = len /\ v.bestScore = S(i)
    BY <1>5, <1>10
  <2>2. len \in 1..len /\ len # 0
    BY <1>3
  <2>3. i \in J /\ J = I \cup {i}
    BY <1>4, <1>10 DEF Beats
  <2>4. ASSUME NEW l \in J PROVE S(l) < S(i) \/ (S(l) = S(i) /\ i <= l)
    <3>1. CASE l = i
      BY <1>1, <3>1
    <3>2. CASE l # i
      <4>1. l \in I /\ I # {}
        BY <2>3, <3>2
      <4>2. r.best # 0
        BY <1>6, <4>1
      <4>3. PICK j \in I : IsClosest(j, I, x, entries) /\ r.bestScore = S(j)
        BY <1>6, <4>2
      <4>4. S(l) \in Int /\ S(j) \in Int /\ S(i) \in Int
        BY <1>4, <2>3, <4>1
      <4>5. S(i) > S(j)
        BY <1>10, <4>2, <4>3 DEF Beats
      <4>6. S(l) <= S(j)
        BY <1>7, <4>1, <4>3, <4>4
      <4> QED
        BY <4>4, <4>5, <4>6
    <3> QED
      BY <3>1, <3>2
  <2>5. IsClosest(i, J, x, entries)
    BY <1>7, <2>3, <2>4
  <2>6. v.kept[v.best] = entries[i]
    BY <1>3, <2>1
  <2>7. Len(v.kept) = len
    BY <2>1 DEF len
  <2> QED
    BY <1>8, <2>1, <2>2, <2>3, <2>5, <2>6, <2>7
<1>11. CASE ~expired(e, now) /\ ~Beats(S(i), r)
  <2>1. v.kept = kept /\ v.best = r.best /\ v.bestScore = r.bestScore
    BY <1>5, <1>11
  <2>2. CASE r.best = 0
    <3>1. S(i) = NaN
      BY <1>11, <2>2 DEF Beats
    <3>2. J = {}
      BY <1>4, <1>6, <2>2, <3>1
    <3> QED
      BY <1>8, <2>1, <2>2, <3>2
  <2>3. CASE r.best # 0
    <3>1. PICK j \in I : /\ IsClosest(j, I, x, entries) /\ r.kept[r.best] = entries[j]
                         /\ r.bestScore = S(j)
      BY <1>6, <2>3
    <3>2. r.best \in 1..Len(r.kept)
      BY <1>6, <2>3
    <3>3. r.best \in 1..len /\ v.kept[v.best] = entries[j]
      BY <1>3, <2>1, <3>1, <3>2
    <3>4. j \in J /\ S(j) \in Int
      BY <1>4
    <3>5. ASSUME NEW l \in J PROVE S(l) < S(j) \/ (S(l) = S(j) /\ j <= l)
      <4>1. CASE l = i
        <5>1. S(i) # NaN /\ S(i) \in Int /\ j <= i /\ ~(S(i) > S(j))
          BY <1>1, <1>4, <1>11, <2>3, <3>1, <4>1 DEF Beats
        <5> QED
          BY <3>4, <4>1, <5>1
      <4>2. CASE l # i
        BY <1>4, <1>7, <3>1, <4>2
      <4> QED
        BY <4>1, <4>2
    <3>6. IsClosest(j, J, x, entries)
      BY <1>7, <3>4, <3>5
    <3>7. Len(v.kept) = len
      BY <2>1 DEF len
    <3> QED
      BY <1>8, <2>1, <2>3, <3>1, <3>3, <3>4, <3>6, <3>7
  <2> QED
    BY <2>2, <2>3
<1> QED
  BY <1>9, <1>10, <1>11

(* The pass ends with the first of the closest entries of the partition.   *)
LEMMA ScanFinds ==
  ASSUME NEW x \in Prompts, NEW entries \in Seq(SemanticEntry), NEW now
  PROVE  /\ scan(x, entries, now) \in Passes
         /\ PassRight(scan(x, entries, now), x, entries, now, Len(entries))
<1>1. PICK p : IsPass(p, x, entries, now)
  BY ScanPasses
<1> DEFINE n == Len(entries)
           T == {i \in 0..n : PassRight(p[i], x, entries, now, i)}
<1>2. n \in Nat
  OBVIOUS
<1>3. 0 \in T
  <2>1. p[0].best = 0
    BY <1>1 DEF IsPass, NothingYet
  <2>2. Candidates(x, entries, now, 0) = {}
    BY DEF Candidates
  <2>3. PassRight(p[0], x, entries, now, 0)
    BY <2>1, <2>2 DEF PassRight
  <2> QED
    BY <1>2, <2>3
<1>4. ASSUME NEW i \in 0..(n - 1), i \in T PROVE i + 1 \in T
  <2>1. i + 1 \in 1..n /\ i + 1 \in 0..n /\ (i + 1) - 1 = i /\ i \in 0..n
    BY <1>2
  <2>2. p[i] \in Passes /\ p[i + 1] = Visit(x, entries[i + 1], now, p[i])
    BY <1>1, <2>1 DEF IsPass
  <2>3. PassRight(p[i], x, entries, now, (i + 1) - 1)
    BY <1>4, <2>1
  <2>4. PassRight(Visit(x, entries[i + 1], now, p[i]), x, entries, now, i + 1)
    BY <2>1, <2>2, <2>3, VisitRight
  <2> QED
    BY <2>1, <2>2, <2>4
<1>5. 0..n \subseteq T
  <2> HIDE DEF T, n
  <2> QED
    BY <1>2, <1>3, <1>4, UpTo
<1>6. n \in 0..n
  BY <1>2
<1> QED
  BY <1>1, <1>5, <1>6 DEF IsPass

-----------------------------------------------------------------------------
(* The live entries of a partition. *)

LEMMA ExpiryGrows ==
  ASSUME NEW e \in SemanticEntry, NEW now \in Nat, clock \in Nat, now <= clock, expired(e, now)
  PROVE  expired(e, clock)
<1>1. e.expiresAt \in Nat \cup {None} /\ e.expiresAt # None /\ e.expiresAt <= now
  BY DEF SemanticEntry, expired
<1> QED
  BY <1>1 DEF expired

IsLive(f, s) ==
  /\ f \in [0..Len(s) -> Seq(SemanticEntry)]
  /\ f[0] = <<>>
  /\ \A i \in 1..Len(s) : f[i] = IF expired(s[i], clock) THEN f[i - 1] ELSE Append(f[i - 1], s[i])
  /\ LiveOf(s) = f[Len(s)]

LEMMA LivePasses ==
  ASSUME NEW s \in Seq(SemanticEntry)
  PROVE  \E f : IsLive(f, s)
<1> DEFINE n == Len(s)
           S == Seq(SemanticEntry)
           e == <<>>
           V(i, q) == IF expired(s[i], clock) THEN q ELSE Append(q, s[i])
           G == [i \in 1..n |-> [q \in S |-> V(i, q)]]
           Rec(f) == f = [i \in 0..n |-> IF i = 0 THEN e ELSE V(i, f[i - 1])]
           live == CHOOSE f : Rec(f)
<1>1. n \in Nat /\ \A i \in 1..n : s[i] \in SemanticEntry
  OBVIOUS
<1>2. e \in S
  OBVIOUS
<1>3. \A i \in 1..n, q \in S : V(i, q) \in S
  BY <1>1
<1>4. LiveOf(s) = live[n]
  <2>1. LiveOf(s) = (CHOOSE f : f = [i \in 0..n |-> IF i = 0 THEN e
                                        ELSE IF expired(s[i], clock) THEN f[i - 1]
                                        ELSE Append(f[i - 1], s[i])])[n]
    BY DEF LiveOf
  <2> QED
    BY <2>1
<1> HIDE DEF n, V, S, e
<1>5. G \in [1..n -> [S -> S]]
  BY <1>3
<1>6. PICK f \in [0..n -> S] : DefinedBy(f, n, e, G)
  <2> HIDE DEF G
  <2> QED
    BY <1>1, <1>2, <1>5, Recursion, Zenon
<1>7. ASSUME NEW i \in 1..n PROVE f[i] = V(i, f[i - 1])
  <2>1. i - 1 \in 0..n
    BY <1>1
  <2>2. f[i - 1] \in S
    BY <2>1
  <2> QED
    BY <1>6, <2>2 DEF DefinedBy
<1>8. Rec(f)
  <2>1. ASSUME NEW i \in 0..n PROVE f[i] = IF i = 0 THEN e ELSE V(i, f[i - 1])
    <3>1. CASE i = 0
      BY <1>6, <3>1 DEF DefinedBy
    <3>2. CASE i # 0
      <4>1. i \in 1..n
        BY <1>1, <3>2
      <4> QED
        BY <1>7, <3>2, <4>1
    <3> QED
      BY <3>1, <3>2
  <2> QED
    BY <2>1
<1>9. Rec(live)
  <2> HIDE DEF Rec
  <2> QED
    BY <1>8
<1> HIDE DEF live
<1>10. live[0] = e
  BY <1>1, <1>9
<1>11. ASSUME NEW i \in 1..n PROVE live[i] = V(i, live[i - 1])
  <2>1. i \in 0..n /\ i # 0
    BY <1>1
  <2> QED
    BY <1>9, <2>1
<1>12. \A i \in 0..n : live[i] \in S
  <2>1. ASSUME NEW i \in 1..n, live[i - 1] \in S PROVE live[i] \in S
    BY <1>3, <1>11, <2>1
  <2> QED
    BY <1>1, <1>2, <1>10, <2>1, StaysIn
<1>13. live \in [0..n -> S]
  BY <1>9, <1>12
<1> QED
  BY <1>4, <1>10, <1>11, <1>13 DEF IsLive, n, V, S, e

(* A new entry comes last among the live ones. *)
LEMMA LiveAppend ==
  ASSUME NEW s \in Seq(SemanticEntry), NEW e \in SemanticEntry
  PROVE  /\ LiveOf(s) \in Seq(SemanticEntry)
         /\ LiveOf(Append(s, e)) = IF expired(e, clock) THEN LiveOf(s) ELSE Append(LiveOf(s), e)
<1> DEFINE t == Append(s, e)
           n == Len(s)
<1>1. /\ t \in Seq(SemanticEntry) /\ n \in Nat /\ Len(t) = n + 1 /\ t[n + 1] = e
      /\ \A i \in 1..n : t[i] = s[i]
  OBVIOUS
<1> HIDE DEF t
<1>2. PICK f : IsLive(f, s)
  BY LivePasses
<1>3. PICK g : IsLive(g, t)
  BY <1>1, LivePasses
<1> DEFINE T == {i \in 0..n : f[i] = g[i]}
<1>4. 0 \in T
  BY <1>1, <1>2, <1>3 DEF IsLive
<1>5. ASSUME NEW i \in 0..(n - 1), i \in T PROVE i + 1 \in T
  <2>1. i + 1 \in 1..n /\ i + 1 \in 1..Len(t) /\ (i + 1) - 1 = i /\ i + 1 \in 0..n
    BY <1>1
  <2>2. f[i + 1] = IF expired(s[i + 1], clock) THEN f[i] ELSE Append(f[i], s[i + 1])
    BY <1>2, <2>1 DEF IsLive
  <2>3. g[i + 1] = IF expired(t[i + 1], clock) THEN g[i] ELSE Append(g[i], t[i + 1])
    BY <1>3, <2>1 DEF IsLive
  <2> QED
    BY <1>1, <1>5, <2>1, <2>2, <2>3
<1>6. 0..n \subseteq T
  <2> HIDE DEF T, n
  <2> QED
    BY <1>1, <1>4, <1>5, UpTo
<1>7. n \in 0..n /\ n + 1 \in 1..Len(t) /\ (n + 1) - 1 = n
  BY <1>1
<1>8. f[n] = g[n] /\ f[n] = LiveOf(s) /\ f[n] \in Seq(SemanticEntry)
  BY <1>2, <1>6, <1>7 DEF IsLive
<1>9. g[n + 1] = LiveOf(t)
  BY <1>1, <1>3 DEF IsLive
<1>10. g[n + 1] = IF expired(t[n + 1], clock) THEN g[n] ELSE Append(g[n], t[n + 1])
  BY <1>3, <1>7 DEF IsLive
<1> QED
  BY <1>1, <1>8, <1>9, <1>10 DEF t

(* The pass drops no live entry and leaves them in their order. *)
LEMMA ScanKeepsLive ==
  ASSUME NEW x \in Prompts, NEW entries \in Seq(SemanticEntry), NEW now \in Nat,
         clock \in Nat, now <= clock
  PROVE  LiveOf(scan(x, entries, now).kept) = LiveOf(entries)
<1>1. PICK p : IsPass(p, x, entries, now)
  BY ScanPasses
<1>2. PICK f : IsLive(f, entries)
  BY LivePasses
<1> DEFINE n == Len(entries)
           T == {i \in 0..n : LiveOf(p[i].kept) = f[i]}
<1>3. n \in Nat /\ \A i \in 1..n : entries[i] \in SemanticEntry
  OBVIOUS
<1>4. 0 \in T
  <2> DEFINE e == <<>>
  <2>1. e \in Seq(SemanticEntry) /\ Len(e) = 0
    OBVIOUS
  <2>2. p[0].kept = e /\ f[0] = e
    BY <1>1, <1>2 DEF IsPass, IsLive, NothingYet
  <2>3. \E g : IsLive(g, e)
    <3> HIDE DEF e
    <3> QED
      BY <2>1, LivePasses
  <2>4. LiveOf(e) = e
    BY <2>1, <2>3 DEF IsLive
  <2> QED
    BY <1>3, <2>2, <2>4
<1>5. ASSUME NEW i \in 0..(n - 1), i \in T PROVE i + 1 \in T
  <2> DEFINE e == entries[i + 1]
             q == p[i].kept
  <2>1. i \in 0..n /\ i + 1 \in 1..n /\ i + 1 \in 0..n /\ (i + 1) - 1 = i
    BY <1>3
  <2>2. p[i] \in Passes /\ p[i + 1] = Visit(x, e, now, p[i])
    BY <1>1, <2>1 DEF IsPass
  <2>3. f[i + 1] = IF expired(e, clock) THEN f[i] ELSE Append(f[i], e)
    BY <1>2, <2>1 DEF IsLive
  <2>4. e \in SemanticEntry
    BY <1>3, <2>1
  <2>5. q \in Seq(SemanticEntry) /\ LiveOf(q) = f[i]
    BY <1>5, <2>2 DEF Passes
  <2> HIDE DEF e, q
  <2>6. CASE expired(e, now)
    <3>1. expired(e, clock)
      BY <2>4, <2>6, ExpiryGrows
    <3>2. p[i + 1].kept = q
      BY <2>2, <2>6 DEF Visit, q
    <3> QED
      BY <2>1, <2>3, <2>5, <3>1, <3>2
  <2>7. CASE ~expired(e, now)
    <3>1. p[i + 1].kept = Append(q, e)
      BY <2>2, <2>7 DEF Visit, q
    <3>2. LiveOf(Append(q, e)) = IF expired(e, clock) THEN LiveOf(q) ELSE Append(LiveOf(q), e)
      BY <2>4, <2>5, LiveAppend
    <3> QED
      BY <2>1, <2>3, <2>5, <3>1, <3>2
  <2> QED
    BY <2>6, <2>7
<1>6. 0..n \subseteq T
  <2> HIDE DEF T, n
  <2> QED
    BY <1>3, <1>4, <1>5, UpTo
<1>7. n \in T
  BY <1>3, <1>6
<1> QED
  BY <1>1, <1>2, <1>7 DEF IsPass, IsLive

-----------------------------------------------------------------------------
(* The inductive invariant. *)

(* What the caches hold. *)
ContentInv ==
  /\ clock \in Nat
  /\ tool \in [Keys -> Stored \cup {None}]
  /\ prompt \in [PromptKeys -> PromptEntry \cup {None}]
  /\ semantic \in [Partitions -> Seq(SemanticEntry)]

(* What a call carries, in each of its steps, at time t. *)
CallOK(v, t) ==
  /\ v.pc = "store" /\ v.name = "ToolSet" => v.key \in Keys /\ v.entry \in Stored
  /\ v.pc = "store" /\ v.name = "PromptSet" => v.key \in PromptKeys /\ v.entry \in PromptEntry
  /\ v.pc = "store" /\ v.name = "SemanticSet" => v.key \in Partitions /\ v.entry \in SemanticEntry
  /\ v.pc = "evict" => v.key \in Keys
  /\ v.pc = "embed" => v.key \in Partitions /\ v.name \in {"SemanticSet", "SemanticGet"}
  /\ v.pc = "embed" /\ v.name = "SemanticSet" => v.entry \in SemanticEntry /\ v.entry.expiresAt \in Nat
  /\ v.pc = "embed" /\ v.name = "SemanticGet" => v.entry.text \in Prompts /\ v.entry.threshold \in Int \cup {NaN}
  /\ v.pc = "scan" => /\ v.key \in Partitions /\ v.now \in Nat /\ v.now <= t
                      /\ v.entry.text \in Prompts /\ v.entry.threshold \in Int \cup {NaN}
  /\ v.pc = "hit" => v.name \in {"ToolGet", "PromptGet", "SemanticGet"}
  /\ v.pc = "hit" /\ v.name = "PromptGet" => v.key \in Templates /\ v.entry \in PromptEntry
  /\ v.pc = "hit" /\ v.name = "SemanticGet" => v.key \in Prompts /\ v.entry \in SemanticEntry

CallsInv == DOMAIN op = Clients /\ \A c \in Clients : CallOK(op[c], clock)

Inv == ContentInv /\ CallsInv /\ TrackerInv

LEMMA EntryTypes ==
  ASSUME NEW r \in Responses, NEW t \in Nat \cup {None}
  PROVE  /\ Entry(None, r, 0, t) \in Stored
         /\ \A x \in Templates, c \in Costs : Entry(x, r, c, t) \in PromptEntry
         /\ \A x \in Prompts, c \in Costs : Entry(x, r, c, t) \in SemanticEntry
BY DEF Entry, Stored, PromptEntry, SemanticEntry

LEMMA ExpiresAtType ==
  ASSUME clock \in Nat, NEW t \in Nat
  PROVE  ExpiresAt(t) \in Nat \cup {None}
BY DEF ExpiresAt

LEMMA NoneStored == None \notin Stored /\ None \notin PromptEntry
<1>1. PromptEntry \subseteq Stored
  BY DEF PromptEntry, Stored
<1> QED
  BY <1>1, CachesAssumption

LEMMA IdleOK == ASSUME NEW t PROVE CallOK(Idle, t)
BY DEF CallOK, Idle, Call

(* One call moves on. *)
LEMMA CallStep ==
  ASSUME CallsInv, NEW c \in Clients, NEW v, CallOK(v, clock),
         op' = [op EXCEPT ![c] = v], clock' = clock
  PROVE  CallsInv' /\ op'[c] = v /\ \A d \in Clients \ {c} : op'[d] = op[d]
<1>1. DOMAIN op = Clients /\ \A d \in Clients : CallOK(op[d], clock)
  BY DEF CallsInv
<1>2. DOMAIN op' = Clients /\ op'[c] = v /\ \A d \in Clients \ {c} : op'[d] = op[d]
  BY <1>1
<1>3. ASSUME NEW d \in Clients PROVE CallOK(op'[d], clock')
  BY <1>1, <1>2
<1> QED
  BY <1>2, <1>3 DEF CallsInv

(* The tracker only changes when a hit is reported. *)
SameTracker == saved' = saved /\ top' = top /\ hits' = hits

LEMMA TrackerSame == ASSUME TrackerInv, SameTracker PROVE TrackerInv'
BY DEF SameTracker, TrackerInv, Listed

(* A step that only moves one call on. *)
LEMMA MovesOn ==
  ASSUME Inv, NEW c \in Clients, NEW v, CallOK(v, clock), op' = [op EXCEPT ![c] = v],
         UNCHANGED <<saved, top, hits, tool, prompt, semantic, clock>>
  PROVE  Inv'
<1>1. ContentInv /\ CallsInv /\ TrackerInv
  BY DEF Inv
<1>2. ContentInv'
  BY <1>1 DEF ContentInv
<1>3. CallsInv'
  BY <1>1, CallStep
<1>4. TrackerInv'
  BY <1>1, TrackerSame DEF SameTracker
<1> QED
  BY <1>2, <1>3, <1>4 DEF Inv

LEMMA ToolSteps ==
  ASSUME Inv, NEW c \in Clients,
         ToolSet(c) \/ ToolStore(c) \/ ToolGet(c) \/ ToolEvict(c) \/ ToolReturns(c)
  PROVE  Inv'
<1>0. ContentInv /\ CallsInv /\ TrackerInv /\ clock \in Nat /\ CallOK(op[c], clock)
  BY DEF Inv, ContentInv, CallsInv
<1>1. CASE ToolSet(c)
  <2>1. PICK n \in ToolArgs, r \in Responses, t \in TTLs :
          op' = [op EXCEPT ![c] = Call("store", "ToolSet", canonical(n),
                                       Entry(None, r, 0, ExpiresAt(t)), 0)]
    BY <1>1 DEF ToolSet
  <2> DEFINE k == canonical(n)
             e == Entry(None, r, 0, ExpiresAt(t))
             v == Call("store", "ToolSet", k, e, 0)
  <2>2. k \in Keys
    BY DEF Keys
  <2>3. e \in Stored
    <3>1. ExpiresAt(t) \in Nat \cup {None}
      BY <1>0, CachesAssumption, ExpiresAtType
    <3> QED
      BY <3>1, EntryTypes
  <2>4. op' = [op EXCEPT ![c] = v]
    BY <2>1
  <2> HIDE DEF k, e
  <2>5. CallOK(v, clock)
    BY <2>2, <2>3 DEF CallOK, Call
  <2> HIDE DEF v
  <2> QED
    BY <1>1, <2>4, <2>5, MovesOn DEF ToolSet, Calls
<1>2. CASE ToolStore(c)
  <2>1. op[c].key \in Keys /\ op[c].entry \in Stored
    BY <1>0, <1>2 DEF ToolStore, CallOK
  <2>2. ContentInv'
    BY <1>0, <1>2, <2>1 DEF ToolStore, ContentInv
  <2>3. CallsInv'
    BY <1>0, <1>2, IdleOK, CallStep DEF ToolStore
  <2>4. TrackerInv'
    BY <1>0, <1>2, TrackerSame DEF ToolStore, SameTracker
  <2> QED
    BY <2>2, <2>3, <2>4 DEF Inv
<1>3. CASE ToolGet(c)
  <2>1. PICK n \in ToolArgs :
          op' = [op EXCEPT ![c] =
                   IF tool[canonical(n)] = None THEN Idle
                   ELSE IF expired(tool[canonical(n)], clock)
                        THEN Call("evict", "ToolGet", canonical(n), None, 0)
                   ELSE Call("hit", "ToolGet", canonical(n), tool[canonical(n)], 0)]
    BY <1>3 DEF ToolGet
  <2> DEFINE k == canonical(n)
             v == IF tool[k] = None THEN Idle
                  ELSE IF expired(tool[k], clock) THEN Call("evict", "ToolGet", k, None, 0)
                  ELSE Call("hit", "ToolGet", k, tool[k], 0)
  <2>2. k \in Keys
    BY DEF Keys
  <2>3. op' = [op EXCEPT ![c] = v]
    BY <2>1
  <2> HIDE DEF k
  <2>4. CallOK(Call("evict", "ToolGet", k, None, 0), clock)
    BY <2>2 DEF CallOK, Call
  <2>5. CallOK(Call("hit", "ToolGet", k, tool[k], 0), clock)
    BY DEF CallOK, Call
  <2>6. CallOK(v, clock)
    BY <2>4, <2>5, IdleOK
  <2> HIDE DEF v
  <2> QED
    BY <1>3, <2>3, <2>6, MovesOn DEF ToolGet, Calls
<1>4. CASE ToolEvict(c)
  <2>1. op[c].key \in Keys
    BY <1>0, <1>4 DEF ToolEvict, CallOK
  <2>2. ContentInv'
    BY <1>0, <1>4, <2>1 DEF ToolEvict, ContentInv
  <2>3. CallsInv'
    BY <1>0, <1>4, IdleOK, CallStep DEF ToolEvict
  <2>4. TrackerInv'
    BY <1>0, <1>4, TrackerSame DEF ToolEvict, SameTracker
  <2> QED
    BY <2>2, <2>3, <2>4 DEF Inv
<1>5. CASE ToolReturns(c)
  BY <1>5, IdleOK, MovesOn DEF ToolReturns, Goto
<1> QED
  BY <1>1, <1>2, <1>3, <1>4, <1>5

LEMMA PromptSteps ==
  ASSUME Inv, NEW c \in Clients, PromptSet(c) \/ PromptStore(c) \/ PromptGet(c)
  PROVE  Inv'
<1>0. ContentInv /\ CallsInv /\ TrackerInv /\ clock \in Nat /\ CallOK(op[c], clock)
  BY DEF Inv, ContentInv, CallsInv
<1>1. CASE PromptSet(c)
  <2>1. PICK k \in PromptKeys, r \in Responses, t \in TTLs, cost \in Costs :
          op' = [op EXCEPT ![c] = Call("store", "PromptSet", k,
                                       Entry(k[1], r, cost, ExpiresAt(t)), 0)]
    BY <1>1 DEF PromptSet
  <2> DEFINE e == Entry(k[1], r, cost, ExpiresAt(t))
             v == Call("store", "PromptSet", k, e, 0)
  <2>2. e \in PromptEntry
    <3>1. ExpiresAt(t) \in Nat \cup {None}
      BY <1>0, CachesAssumption, ExpiresAtType
    <3>2. k[1] \in Templates
      BY DEF PromptKeys
    <3> QED
      BY <3>1, <3>2, EntryTypes
  <2>3. op' = [op EXCEPT ![c] = v]
    BY <2>1
  <2> HIDE DEF e
  <2>4. CallOK(v, clock)
    BY <2>2 DEF CallOK, Call
  <2> HIDE DEF v
  <2> QED
    BY <1>1, <2>3, <2>4, MovesOn DEF PromptSet, Calls
<1>2. CASE PromptStore(c)
  <2>1. op[c].key \in PromptKeys /\ op[c].entry \in PromptEntry
    BY <1>0, <1>2 DEF PromptStore, CallOK
  <2>2. ContentInv'
    BY <1>0, <1>2, <2>1 DEF PromptStore, ContentInv
  <2>3. CallsInv'
    BY <1>0, <1>2, IdleOK, CallStep DEF PromptStore
  <2>4. TrackerInv'
    BY <1>0, <1>2, TrackerSame DEF PromptStore, SameTracker
  <2> QED
    BY <2>2, <2>3, <2>4 DEF Inv
<1>3. CASE PromptGet(c)
  <2>1. PICK k \in PromptKeys :
          LET e == prompt[k]
              gone == e = None \/ expired(e, clock)
          IN  /\ prompt' = IF gone THEN [prompt EXCEPT ![k] = None] ELSE prompt
              /\ op' = [op EXCEPT ![c] = IF gone THEN Idle ELSE Call("hit", "PromptGet", e.text, e, 0)]
    BY <1>3 DEF PromptGet
  <2> DEFINE e == prompt[k]
             gone == e = None \/ expired(e, clock)
             v == IF gone THEN Idle ELSE Call("hit", "PromptGet", e.text, e, 0)
  <2>2. e \in PromptEntry \cup {None}
    BY <1>0 DEF ContentInv
  <2>3. op' = [op EXCEPT ![c] = v] /\ prompt' = IF gone THEN [prompt EXCEPT ![k] = None] ELSE prompt
    BY <2>1
  <2>4. gone \/ e # None
    OBVIOUS
  <2> HIDE DEF e, gone
  <2>5. CallOK(v, clock)
    <3>1. CASE gone
      BY <3>1, IdleOK
    <3>2. CASE ~gone
      <4>1. e \in PromptEntry
        BY <2>2, <2>4, <3>2
      <4>2. e.text \in Templates
        BY <4>1 DEF PromptEntry
      <4> QED
        BY <3>2, <4>1, <4>2 DEF CallOK, Call
    <3> QED
      BY <3>1, <3>2
  <2> HIDE DEF v
  <2>6. ContentInv'
    BY <1>0, <1>3, <2>3 DEF PromptGet, ContentInv
  <2>7. CallsInv'
    BY <1>0, <1>3, <2>3, <2>5, CallStep DEF PromptGet
  <2>8. TrackerInv'
    BY <1>0, <1>3, TrackerSame DEF PromptGet, SameTracker
  <2> QED
    BY <2>6, <2>7, <2>8 DEF Inv
<1> QED
  BY <1>1, <1>2, <1>3

(* What a lookup leaves in its partition, and what it answers. *)
LEMMA ScanStep ==
  ASSUME Inv, NEW c \in Clients, SemanticScan(c)
  PROVE  /\ op[c].pc = "scan" /\ op[c].key \in Partitions /\ semantic[op[c].key] \in Seq(SemanticEntry)
         /\ op[c].entry.text \in Prompts /\ op[c].entry.threshold \in Int \cup {NaN}
         /\ op[c].now \in Nat /\ op[c].now <= clock
         /\ \E r \in Passes :
              /\ r = scan(op[c].entry.text, semantic[op[c].key], op[c].now)
              /\ PassRight(r, op[c].entry.text, semantic[op[c].key], op[c].now, Len(semantic[op[c].key]))
              /\ semantic' = [semantic EXCEPT ![op[c].key] = r.kept]
              /\ op' = [op EXCEPT ![c] =
                          IF r.best # 0 /\ Clears(r.bestScore, op[c].entry.threshold)
                          THEN Call("hit", "SemanticGet", op[c].entry.text, r.kept[r.best], 0)
                          ELSE Idle]
<1>1. CallOK(op[c], clock) /\ op[c].pc = "scan"
  BY DEF Inv, CallsInv, SemanticScan
<1>2. /\ op[c].key \in Partitions /\ op[c].entry.text \in Prompts /\ op[c].entry.threshold \in Int \cup {NaN}
      /\ op[c].now \in Nat /\ op[c].now <= clock
  BY <1>1 DEF CallOK
<1> DEFINE x == op[c].entry.text
           s == semantic[op[c].key]
           now == op[c].now
           r == scan(x, s, now)
<1>3. s \in Seq(SemanticEntry)
  BY <1>2 DEF Inv, ContentInv
<1>4. /\ semantic' = [semantic EXCEPT ![op[c].key] = r.kept]
      /\ op' = [op EXCEPT ![c] =
                  IF r.best # 0 /\ Clears(r.bestScore, op[c].entry.threshold)
                  THEN Call("hit", "SemanticGet", x, r.kept[r.best], 0)
                  ELSE Idle]
  BY DEF SemanticScan
<1>5. r \in Passes /\ PassRight(r, x, s, now, Len(s))
  BY <1>2, <1>3, ScanFinds
<1> HIDE DEF r
<1>6. r = scan(x, s, now)
  BY DEF r
<1> QED
  BY <1>1, <1>2, <1>3, <1>4, <1>5, <1>6

LEMMA SemanticSteps ==
  ASSUME Inv, NEW c \in Clients,
         SemanticCall(c) \/ EmbedFails(c) \/ Embedded(c) \/ SemanticStore(c) \/ SemanticScan(c)
  PROVE  Inv'
<1>0. ContentInv /\ CallsInv /\ TrackerInv /\ clock \in Nat /\ CallOK(op[c], clock)
  BY DEF Inv, ContentInv, CallsInv
<1>1. CASE SemanticCall(c)
  <2>1. CASE Calls(c, "SemanticSet") /\
             \E p \in Partitions, x \in Prompts, r \in Responses, t \in TTLs, cost \in Costs :
               op' = [op EXCEPT ![c] = Call("embed", "SemanticSet", p, Entry(x, r, cost, t), 0)]
    <3>1. PICK p \in Partitions, x \in Prompts, r \in Responses, t \in TTLs, cost \in Costs :
            op' = [op EXCEPT ![c] = Call("embed", "SemanticSet", p, Entry(x, r, cost, t), 0)]
      BY <2>1
    <3> DEFINE e == Entry(x, r, cost, t)
               v == Call("embed", "SemanticSet", p, e, 0)
    <3>2. t \in Nat
      BY CachesAssumption
    <3>3. e \in SemanticEntry /\ e.expiresAt \in Nat
      BY <3>2, EntryTypes DEF Entry
    <3>4. op' = [op EXCEPT ![c] = v]
      BY <3>1
    <3> HIDE DEF e
    <3>5. CallOK(v, clock)
      BY <3>3 DEF CallOK, Call
    <3> HIDE DEF v
    <3> QED
      BY <2>1, <3>4, <3>5, MovesOn DEF Calls
  <2>2. CASE Calls(c, "SemanticGet") /\
             \E p \in Partitions, x \in Prompts, th \in Thresholds :
               op' = [op EXCEPT ![c] = Call("embed", "SemanticGet", p, [text |-> x, threshold |-> th], 0)]
    <3>1. PICK p \in Partitions, x \in Prompts, th \in Thresholds :
            op' = [op EXCEPT ![c] = Call("embed", "SemanticGet", p, [text |-> x, threshold |-> th], 0)]
      BY <2>2
    <3> DEFINE e == [text |-> x, threshold |-> th]
               v == Call("embed", "SemanticGet", p, e, 0)
    <3>2. e.text \in Prompts /\ e.threshold \in Int \cup {NaN}
      BY CachesAssumption
    <3>3. op' = [op EXCEPT ![c] = v]
      BY <3>1
    <3> HIDE DEF e
    <3>4. CallOK(v, clock)
      BY <3>2 DEF CallOK, Call
    <3> HIDE DEF v
    <3> QED
      BY <2>2, <3>3, <3>4, MovesOn DEF Calls
  <2> QED
    BY <1>1, <2>1, <2>2 DEF SemanticCall
<1>2. CASE EmbedFails(c)
  BY <1>2, IdleOK, MovesOn DEF EmbedFails, Goto
<1>3. CASE Embedded(c)
  <2> DEFINE e == op[c].entry
             d == Entry(e.text, e.response, e.cost, ExpiresAt(e.expiresAt))
             v == IF op[c].name = "SemanticSet" THEN Call("store", "SemanticSet", op[c].key, d, 0)
                  ELSE Call("scan", "SemanticGet", op[c].key, e, clock)
  <2>1. op[c].pc = "embed" /\ Goto(c, v)
    BY <1>3 DEF Embedded
  <2>2. op[c].key \in Partitions /\ op[c].name \in {"SemanticSet", "SemanticGet"}
    BY <1>0, <2>1 DEF CallOK
  <2>3. CallOK(v, clock)
    <3>1. CASE op[c].name = "SemanticSet"
      <4>1. e \in SemanticEntry /\ e.expiresAt \in Nat
        BY <1>0, <2>1, <3>1 DEF CallOK
      <4>2. e.text \in Prompts /\ e.response \in Responses /\ e.cost \in Costs
        BY <4>1 DEF SemanticEntry
      <4>3. ExpiresAt(e.expiresAt) \in Nat \cup {None}
        BY <1>0, <4>1, ExpiresAtType
      <4>4. d \in SemanticEntry
        BY <4>2, <4>3, EntryTypes
      <4>5. v = Call("store", "SemanticSet", op[c].key, d, 0)
        BY <3>1
      <4> HIDE DEF d, v
      <4> QED
        BY <2>2, <4>4, <4>5 DEF CallOK, Call
    <3>2. CASE op[c].name # "SemanticSet"
      <4>1. e.text \in Prompts /\ e.threshold \in Int \cup {NaN}
        BY <1>0, <2>1, <2>2, <3>2 DEF CallOK
      <4>2. v = Call("scan", "SemanticGet", op[c].key, e, clock)
        BY <3>2
      <4> HIDE DEF v, e
      <4> QED
        BY <1>0, <2>2, <4>1, <4>2 DEF CallOK, Call
    <3> QED
      BY <3>1, <3>2
  <2> HIDE DEF v
  <2> QED
    BY <2>1, <2>3, MovesOn DEF Goto
<1>4. CASE SemanticStore(c)
  <2>1. op[c].key \in Partitions /\ op[c].entry \in SemanticEntry
    BY <1>0, <1>4 DEF SemanticStore, CallOK
  <2> DEFINE s == Append(semantic[op[c].key], op[c].entry)
  <2>2. s \in Seq(SemanticEntry)
    BY <1>0, <2>1 DEF ContentInv
  <2>3. semantic' = [semantic EXCEPT ![op[c].key] = s]
    BY <1>4 DEF SemanticStore
  <2> HIDE DEF s
  <2>4. ContentInv'
    BY <1>0, <1>4, <2>1, <2>2, <2>3 DEF SemanticStore, ContentInv
  <2>5. CallsInv'
    BY <1>0, <1>4, IdleOK, CallStep DEF SemanticStore
  <2>6. TrackerInv'
    BY <1>0, <1>4, TrackerSame DEF SemanticStore, SameTracker
  <2> QED
    BY <2>4, <2>5, <2>6 DEF Inv
<1>5. CASE SemanticScan(c)
  <2> DEFINE x == op[c].entry.text
             s == semantic[op[c].key]
  <2>1. /\ op[c].key \in Partitions /\ s \in Seq(SemanticEntry) /\ x \in Prompts
    BY <1>5, ScanStep
  <2>2. PICK r \in Passes :
          /\ PassRight(r, x, s, op[c].now, Len(s))
          /\ semantic' = [semantic EXCEPT ![op[c].key] = r.kept]
          /\ op' = [op EXCEPT ![c] =
                      IF r.best # 0 /\ Clears(r.bestScore, op[c].entry.threshold)
                      THEN Call("hit", "SemanticGet", x, r.kept[r.best], 0)
                      ELSE Idle]
    BY <1>5, ScanStep
  <2> HIDE DEF x, s
  <2>3. r.kept \in Seq(SemanticEntry)
    BY DEF Passes
  <2>4. r.best # 0 => r.kept[r.best] \in SemanticEntry
    BY <2>2, <2>3 DEF PassRight
  <2> DEFINE e == r.kept[r.best]
             found == r.best # 0 /\ Clears(r.bestScore, op[c].entry.threshold)
             v == IF found THEN Call("hit", "SemanticGet", x, e, 0) ELSE Idle
  <2>5. op' = [op EXCEPT ![c] = v] /\ (found => e \in SemanticEntry)
    BY <2>2, <2>4
  <2> HIDE DEF e, found
  <2>6. CallOK(v, clock)
    <3>1. CASE found
      BY <2>1, <2>5, <3>1 DEF CallOK, Call
    <3>2. CASE ~found
      BY <3>2, IdleOK
    <3> QED
      BY <3>1, <3>2
  <2> HIDE DEF v
  <2>7. ContentInv'
    BY <1>0, <1>5, <2>1, <2>2, <2>3 DEF SemanticScan, ContentInv
  <2>8. CallsInv'
    BY <1>0, <1>5, <2>5, <2>6, CallStep DEF SemanticScan
  <2>9. TrackerInv'
    BY <1>0, <1>5, TrackerSame DEF SemanticScan, SameTracker
  <2> QED
    BY <2>7, <2>8, <2>9 DEF Inv
<1> QED
  BY <1>1, <1>2, <1>3, <1>4, <1>5

LEMMA OtherSteps ==
  ASSUME Inv, (\E c \in Clients : HitReturns(c)) \/ Tick \/ UNCHANGED vars
  PROVE  Inv'
<1>0. ContentInv /\ CallsInv /\ TrackerInv /\ clock \in Nat
  BY DEF Inv, ContentInv
<1>1. CASE \E c \in Clients : HitReturns(c)
  <2>1. PICK c \in Clients : HitReturns(c)
    BY <1>1
  <2> DEFINE x == <<IF op[c].name = "PromptGet" THEN "prompt" ELSE "semantic", op[c].key>>
             cost == op[c].entry.cost
  <2>2. CallOK(op[c], clock) /\ op[c].pc = "hit" /\ op[c].name # "ToolGet"
        /\ RecordCacheHitSavings(x, cost)
    BY <1>0, <2>1 DEF CallsInv, HitReturns
  <2>3. x \in Entries /\ cost \in Int
    <3>1. CASE op[c].name = "PromptGet"
      <4>1. op[c].key \in Templates /\ op[c].entry \in PromptEntry
        BY <2>2, <3>1 DEF CallOK
      <4>2. cost \in Costs /\ x = <<"prompt", op[c].key>>
        BY <3>1, <4>1 DEF PromptEntry
      <4>3. <<"prompt", op[c].key>> \in {"prompt"} \X Templates
        BY <4>1
      <4> QED
        BY <4>2, <4>3, CachesAssumption, TrackerAssumption
    <3>2. CASE op[c].name # "PromptGet"
      <4>1. op[c].key \in Prompts /\ op[c].entry \in SemanticEntry
        BY <2>2, <3>2 DEF CallOK
      <4>2. cost \in Costs /\ x = <<"semantic", op[c].key>>
        BY <3>2, <4>1 DEF SemanticEntry
      <4>3. <<"semantic", op[c].key>> \in {"semantic"} \X Prompts
        BY <4>1
      <4> QED
        BY <4>2, <4>3, CachesAssumption, TrackerAssumption
    <3> QED
      BY <3>1, <3>2
  <2> HIDE DEF x, cost
  <2>4. TrackerInv'
    BY <1>0, <2>2, <2>3, TrackerStep
  <2>5. ContentInv'
    BY <1>0, <2>1 DEF HitReturns, ContentInv
  <2>6. CallsInv'
    BY <1>0, <2>1, IdleOK, CallStep DEF HitReturns
  <2> QED
    BY <2>4, <2>5, <2>6 DEF Inv
<1>2. CASE Tick
  <2>1. ContentInv'
    BY <1>0, <1>2 DEF Tick, ContentInv
  <2>2. ASSUME NEW c \in Clients PROVE CallOK(op'[c], clock')
    <3>1. CallOK(op[c], clock) /\ op'[c] = op[c] /\ clock' = clock + 1
      BY <1>0, <1>2 DEF Tick, CallsInv
    <3>2. op[c].now \in Nat /\ op[c].now <= clock => op[c].now <= clock'
      BY <1>0, <3>1
    <3> QED
      BY <3>1, <3>2 DEF CallOK
  <2>3. CallsInv'
    BY <1>0, <1>2, <2>2 DEF Tick, CallsInv
  <2>4. TrackerInv'
    BY <1>0, <1>2, TrackerSame DEF Tick, SameTracker
  <2> QED
    BY <2>1, <2>3, <2>4 DEF Inv
<1>3. CASE UNCHANGED vars
  <2>1. ContentInv' /\ CallsInv'
    BY <1>0, <1>3 DEF vars, ContentInv, CallsInv
  <2>2. TrackerInv'
    BY <1>0, <1>3, TrackerSame DEF vars, SameTracker
  <2> QED
    BY <2>1, <2>2 DEF Inv
<1> QED
  BY <1>1, <1>2, <1>3

LEMMA InvInit == Init => Inv
<1> SUFFICES ASSUME Init PROVE Inv
  OBVIOUS
<1>1. ContentInv
  <2> DEFINE e == <<>>
  <2>1. e \in Seq(SemanticEntry)
    OBVIOUS
  <2>2. semantic = [p \in Partitions |-> e]
    BY DEF Init
  <2> HIDE DEF e
  <2> QED
    BY <2>1, <2>2 DEF Init, ContentInv
<1>2. CallsInv
  <2>1. op = [c \in Clients |-> Idle]
    BY DEF Init
  <2> QED
    BY <2>1, IdleOK DEF CallsInv
<1>3. TrackerInv
  <2> DEFINE e == <<>>
  <2>1. e \in Seq(Int) /\ e \in Seq(Row) /\ Len(e) = 0
    OBVIOUS
  <2>2. hits = [x \in Entries |-> e] /\ top = e
    BY DEF Init, TrackerInit
  <2>3. \A x \in Entries : NotDearer(hits[x], top)
    BY <2>2 DEF NotDearer
  <2> HIDE DEF e
  <2> QED
    BY <2>1, <2>2, <2>3, TrackerAssumption DEF TrackerInv
<1> QED
  BY <1>1, <1>2, <1>3 DEF Inv

LEMMA InvNext == Inv /\ [Next]_vars => Inv'
<1> SUFFICES ASSUME Inv, [Next]_vars PROVE Inv'
  OBVIOUS
<1>1. CASE \E c \in Clients : ToolSet(c) \/ ToolStore(c) \/ ToolGet(c) \/ ToolEvict(c) \/ ToolReturns(c)
  BY <1>1, ToolSteps
<1>2. CASE \E c \in Clients : PromptSet(c) \/ PromptStore(c) \/ PromptGet(c)
  BY <1>2, PromptSteps
<1>3. CASE \E c \in Clients : \/ SemanticCall(c) \/ EmbedFails(c) \/ Embedded(c)
                              \/ SemanticStore(c) \/ SemanticScan(c)
  BY <1>3, SemanticSteps
<1>4. CASE (\E c \in Clients : HitReturns(c)) \/ Tick \/ UNCHANGED vars
  BY <1>4, OtherSteps
<1> QED
  BY <1>1, <1>2, <1>3, <1>4 DEF Next, Silent

(* Everything the caches hold, and everything a call carries from one lock *)
(* to the next, is what its step expects, and the list of the dearest hits *)
(* agrees with the history of the hits.                                    *)
THEOREM Invariance == Spec => []Inv
<1> QED
  BY InvInit, InvNext, PTL DEF Spec

(* RecordCacheHitSavings keeps, in a list of any bounded length, the       *)
(* dearest of all entries ever hit, each at the highest cost it was hit    *)
(* at, whichever calls of whichever clients the hits come from.            *)
THEOREM TopCorrect == Spec => []TopHoldsDearest
<1>1. Inv => TopHoldsDearest
  BY TrackerInvSuffices DEF Inv
<1> QED
  BY <1>1, Invariance, PTL

-----------------------------------------------------------------------------
(* What a lookup answers. *)

(* Only SemanticScan ends a scan. *)
LEMMA ScanEnds ==
  ASSUME Inv, Next, NEW c \in Clients, op[c].pc = "scan", op'[c].pc # "scan"
  PROVE  SemanticScan(c)
<1>0. DOMAIN op = Clients
  BY DEF Inv, CallsInv
<1>1. ASSUME NEW e \in Clients \ {c}, NEW v, op' = [op EXCEPT ![e] = v] PROVE FALSE
  BY <1>0, <1>1
<1>2. ASSUME UNCHANGED op PROVE FALSE
  BY <1>2
<1>3. ~Tick /\ ~Silent
  BY <1>2 DEF Tick, Silent, vars
<1>4. PICK e \in Clients :
       \/ ToolSet(e) \/ ToolStore(e) \/ ToolGet(e) \/ ToolEvict(e) \/ ToolReturns(e)
       \/ PromptSet(e) \/ PromptStore(e) \/ PromptGet(e)
       \/ SemanticCall(e) \/ EmbedFails(e) \/ Embedded(e) \/ SemanticStore(e) \/ SemanticScan(e)
       \/ HitReturns(e)
  BY <1>3 DEF Next
<1>5. \E v : op' = [op EXCEPT ![e] = v]
  <2>1. CASE ToolSet(e) \/ ToolStore(e) \/ ToolGet(e) \/ ToolEvict(e) \/ ToolReturns(e)
    BY <2>1, Zenon DEF ToolSet, ToolStore, ToolGet, ToolEvict, ToolReturns, Goto
  <2>2. CASE PromptSet(e) \/ PromptStore(e) \/ PromptGet(e)
    BY <2>2, Zenon DEF PromptSet, PromptStore, PromptGet
  <2>3. CASE SemanticCall(e) \/ EmbedFails(e) \/ Embedded(e)
    BY <2>3, Zenon DEF SemanticCall, EmbedFails, Embedded, Goto
  <2>4. CASE SemanticStore(e) \/ SemanticScan(e) \/ HitReturns(e)
    BY <2>4, Zenon DEF SemanticStore, SemanticScan, HitReturns
  <2> QED
    BY <1>4, <2>1, <2>2, <2>3, <2>4
<1>6. e = c
  BY <1>1, <1>5
<1>7. ~ToolSet(c) /\ ~ToolStore(c) /\ ~ToolGet(c) /\ ~ToolEvict(c) /\ ~ToolReturns(c)
  BY DEF ToolSet, ToolStore, ToolGet, ToolEvict, ToolReturns, Calls
<1>8. ~PromptSet(c) /\ ~PromptStore(c) /\ ~PromptGet(c)
  BY DEF PromptSet, PromptStore, PromptGet, Calls
<1>9. ~SemanticCall(c) /\ ~EmbedFails(c) /\ ~Embedded(c) /\ ~SemanticStore(c) /\ ~HitReturns(c)
  BY DEF SemanticCall, EmbedFails, Embedded, SemanticStore, HitReturns, Calls
<1> QED
  BY <1>4, <1>6, <1>7, <1>8, <1>9

LEMMA ScanAnswers ==
  ASSUME Inv, NEW c \in Clients, SemanticScan(c)
  PROVE  AnswersBest(c)
<1> DEFINE x == op[c].entry.text
           s == semantic[op[c].key]
           now == op[c].now
           th == op[c].entry.threshold
           n == Len(s)
           S(i) == Score(x, s[i])
           J == Candidates(x, s, now, n)
           good == {i \in 1..n : ~expired(s[i], now) /\ S(i) # NaN /\ Clears(S(i), th)}
<1>1. x \in Prompts /\ s \in Seq(SemanticEntry) /\ th \in Int \cup {NaN} /\ n \in Nat
  BY ScanStep
<1>2. PICK r \in Passes :
        /\ PassRight(r, x, s, now, n)
        /\ op' = [op EXCEPT ![c] = IF r.best # 0 /\ Clears(r.bestScore, th)
                                   THEN Call("hit", "SemanticGet", x, r.kept[r.best], 0)
                                   ELSE Idle]
  BY ScanStep
<1>3. op'[c] = IF r.best # 0 /\ Clears(r.bestScore, th)
               THEN Call("hit", "SemanticGet", x, r.kept[r.best], 0) ELSE Idle
  BY <1>2 DEF Inv, CallsInv
<1>4. good = {i \in J : Clears(S(i), th)}
  BY DEF Candidates
<1>5. \A i \in J : S(i) \in Int
  <2>1. \A i \in 1..n : S(i) \in Int \cup {NaN}
    <3>1. \A i \in 1..n : s[i] \in SemanticEntry
      BY <1>1
    <3> QED
      BY <1>1, <3>1, ScoreType
  <2> QED
    BY <2>1 DEF Candidates
<1>6. AnswersBest(c) <=>
        (op[c].pc = "scan" /\ op'[c].pc # "scan" =>
           IF op'[c].pc = "idle" THEN good = {}
           ELSE \E i \in good : /\ op'[c].entry = s[i]
                                /\ \A j \in good : S(j) < S(i) \/ (S(j) = S(i) /\ i <= j))
  BY DEF AnswersBest
<1>7. IF r.best = 0 THEN J = {}
      ELSE \E j \in J : /\ j \in J
                        /\ \A l \in J : S(l) < S(j) \/ (S(l) = S(j) /\ j <= l)
                        /\ r.kept[r.best] = s[j] /\ r.bestScore = S(j)
  BY <1>2 DEF PassRight, IsClosest
<1> HIDE DEF x, s, now, th, n, S, J, good
<1>8. CASE r.best # 0 /\ Clears(r.bestScore, th)
  <2>1. op'[c].pc = "hit" /\ op'[c].entry = r.kept[r.best]
    BY <1>3, <1>8 DEF Call
  <2>2. PICK j \in J : /\ \A l \in J : S(l) < S(j) \/ (S(l) = S(j) /\ j <= l)
                       /\ r.kept[r.best] = s[j] /\ r.bestScore = S(j)
    BY <1>7, <1>8
  <2>3. j \in good
    BY <1>4, <1>8, <2>2
  <2>4. \A l \in good : l \in J
    BY <1>4
  <2> QED
    BY <1>6, <2>1, <2>2, <2>3, <2>4
<1>9. CASE ~(r.best # 0 /\ Clears(r.bestScore, th))
  <2>1. op'[c].pc = "idle"
    BY <1>3, <1>9 DEF Idle, Call
  <2>2. good = {}
    <3>1. CASE r.best = 0
      BY <1>4, <1>7, <3>1
    <3>2. CASE r.best # 0
      <4>1. PICK j \in J : /\ \A l \in J : S(l) < S(j) \/ (S(l) = S(j) /\ j <= l)
                           /\ r.bestScore = S(j)
        BY <1>7, <3>2
      <4>2. S(j) \in Int /\ ~Clears(S(j), th)
        BY <1>5, <1>9, <3>2, <4>1
      <4>3. ASSUME NEW l \in J PROVE ~Clears(S(l), th)
        <5>1. S(l) \in Int /\ (S(l) < S(j) \/ S(l) = S(j))
          BY <1>5, <4>1
        <5> QED
          BY <1>1, <4>2, <5>1 DEF Clears
      <4> QED
        BY <1>4, <4>3
    <3> QED
      BY <3>1, <3>2
  <2> QED
    BY <1>6, <2>1, <2>2
<1> QED
  BY <1>8, <1>9

(* CACHE.SEMANTIC GET answers with the oldest of the closest live entries  *)
(* that are similar enough, and misses only if there is none: the loop of  *)
(* Get is right for every partition, however many stores and compactions   *)
(* came between the embedding of the prompt and the lock.                  *)
THEOREM AnswersRight == Spec => SemanticBest
<1>1. Inv /\ [Next]_vars => [\A c \in Clients : AnswersBest(c)]_vars
  <2> SUFFICES ASSUME Inv, Next PROVE \A c \in Clients : AnswersBest(c)
    OBVIOUS
  <2>1. ASSUME NEW c \in Clients PROVE AnswersBest(c)
    <3>1. CASE op[c].pc = "scan" /\ op'[c].pc # "scan"
      BY <3>1, ScanEnds, ScanAnswers
    <3>2. CASE ~(op[c].pc = "scan" /\ op'[c].pc # "scan")
      BY <3>2 DEF AnswersBest
    <3> QED
      BY <3>1, <3>2
  <2> QED
    BY <2>1
<1> QED
  BY <1>1, Invariance, PTL DEF Spec, SemanticBest

-----------------------------------------------------------------------------
(* What no step throws away. *)

LEMMA LiveStaySame ==
  ASSUME NEW s \in Seq(SemanticEntry), NEW t, LiveOf(t) = LiveOf(s) PROVE LiveStay(s, t)
<1> DEFINE b == LiveOf(s)
<1>1. PICK f : IsLive(f, s)
  BY LivePasses
<1>2. Len(s) \in 0..Len(s)
  OBVIOUS
<1>3. b \in Seq(SemanticEntry)
  BY <1>1, <1>2 DEF IsLive
<1> HIDE DEF b
<1>4. Len(b) <= Len(b) /\ b = SubSeq(b, 1, Len(b))
  BY <1>3
<1>5. b = LiveOf(s) /\ b = LiveOf(t)
  BY DEF b
<1> QED
  BY <1>4, <1>5 DEF LiveStay

LEMMA LiveStayAppend ==
  ASSUME NEW s \in Seq(SemanticEntry), NEW e \in SemanticEntry PROVE LiveStay(s, Append(s, e))
<1>1. CASE expired(e, clock)
  <2>1. LiveOf(Append(s, e)) = LiveOf(s)
    BY <1>1, LiveAppend
  <2> QED
    BY <2>1, LiveStaySame
<1>2. CASE ~expired(e, clock)
  <2> DEFINE b == LiveOf(s)
             a == LiveOf(Append(s, e))
  <2>1. b \in Seq(SemanticEntry) /\ a = Append(b, e)
    BY <1>2, LiveAppend
  <2>2. b = LiveOf(s) /\ a = LiveOf(Append(s, e))
    OBVIOUS
  <2> HIDE DEF a, b
  <2>3. Len(b) <= Len(a) /\ b = SubSeq(a, 1, Len(b))
    BY <2>1
  <2> QED
    BY <2>2, <2>3 DEF LiveStay
<1> QED
  BY <1>1, <1>2

LEMMA ToolKept ==
  ASSUME Inv, [Next]_vars, NEW k \in Keys, LiveAt(tool[k]) PROVE tool'[k] # None
<1>1. ContentInv /\ CallsInv
  BY DEF Inv
<1>2. CASE tool' = tool
  BY <1>2 DEF LiveAt
<1>3. ASSUME NEW c \in Clients, ToolStore(c) PROVE tool'[k] # None
  <2>1. op[c].key \in Keys /\ op[c].entry \in Stored
    BY <1>1, <1>3 DEF ToolStore, CallsInv, CallOK
  <2>2. op[c].entry # None
    BY <2>1, NoneStored
  <2> QED
    BY <1>1, <1>3, <2>1, <2>2 DEF ToolStore, ContentInv, LiveAt
<1>4. ASSUME NEW c \in Clients, ToolEvict(c) PROVE tool'[k] # None
  BY <1>1, <1>4 DEF ToolEvict, ContentInv, LiveAt
<1>5. (\E c \in Clients : ToolStore(c) \/ ToolEvict(c)) \/ tool' = tool
  <2>1. ASSUME NEW c \in Clients
        PROVE  (\/ ToolSet(c) \/ ToolGet(c) \/ ToolReturns(c)
                \/ PromptSet(c) \/ PromptStore(c) \/ PromptGet(c)
                \/ SemanticCall(c) \/ EmbedFails(c) \/ Embedded(c) \/ SemanticStore(c) \/ SemanticScan(c)
                \/ HitReturns(c)) => tool' = tool
    BY DEF ToolSet, ToolGet, ToolReturns, PromptSet, PromptStore, PromptGet, SemanticCall, EmbedFails,
           Embedded, SemanticStore, SemanticScan, HitReturns, Calls, Goto
  <2> QED
    BY <2>1 DEF Next, Tick, Silent, vars
<1> QED
  BY <1>2, <1>3, <1>4, <1>5

LEMMA PromptKept ==
  ASSUME Inv, [Next]_vars, NEW k \in PromptKeys, LiveAt(prompt[k]) PROVE prompt'[k] # None
<1>1. ContentInv /\ CallsInv
  BY DEF Inv
<1>2. CASE prompt' = prompt
  BY <1>2 DEF LiveAt
<1>3. ASSUME NEW c \in Clients, PromptStore(c) PROVE prompt'[k] # None
  <2>1. op[c].key \in PromptKeys /\ op[c].entry \in PromptEntry
    BY <1>1, <1>3 DEF PromptStore, CallsInv, CallOK
  <2>2. op[c].entry # None
    BY <2>1, NoneStored
  <2> QED
    BY <1>1, <1>3, <2>1, <2>2 DEF PromptStore, ContentInv, LiveAt
<1>4. ASSUME NEW c \in Clients, PromptGet(c) PROVE prompt'[k] # None
  <2>1. PICK l \in PromptKeys :
          prompt' = IF prompt[l] = None \/ expired(prompt[l], clock)
                    THEN [prompt EXCEPT ![l] = None] ELSE prompt
    BY <1>4 DEF PromptGet
  <2> QED
    BY <1>1, <2>1 DEF ContentInv, LiveAt
<1>5. (\E c \in Clients : PromptStore(c) \/ PromptGet(c)) \/ prompt' = prompt
  <2>1. ASSUME NEW c \in Clients
        PROVE  (\/ ToolSet(c) \/ ToolStore(c) \/ ToolGet(c) \/ ToolEvict(c) \/ ToolReturns(c)
                \/ PromptSet(c)
                \/ SemanticCall(c) \/ EmbedFails(c) \/ Embedded(c) \/ SemanticStore(c) \/ SemanticScan(c)
                \/ HitReturns(c)) => prompt' = prompt
    BY DEF ToolSet, ToolStore, ToolGet, ToolEvict, ToolReturns, PromptSet, SemanticCall, EmbedFails,
           Embedded, SemanticStore, SemanticScan, HitReturns, Calls, Goto
  <2> QED
    BY <2>1 DEF Next, Tick, Silent, vars
<1> QED
  BY <1>2, <1>3, <1>4, <1>5

LEMMA SemanticKept ==
  ASSUME Inv, [Next]_vars, NEW p \in Partitions PROVE LiveStay(semantic[p], semantic'[p])
<1>1. ContentInv /\ CallsInv /\ clock \in Nat /\ semantic[p] \in Seq(SemanticEntry)
  BY DEF Inv, ContentInv
<1>2. CASE semantic'[p] = semantic[p]
  BY <1>1, <1>2, LiveStaySame
<1>3. ASSUME NEW c \in Clients, SemanticStore(c) PROVE LiveStay(semantic[p], semantic'[p])
  <2>1. op[c].key \in Partitions /\ op[c].entry \in SemanticEntry
    BY <1>1, <1>3 DEF SemanticStore, CallsInv, CallOK
  <2>2. CASE p = op[c].key
    <3>1. semantic'[p] = Append(semantic[p], op[c].entry)
      BY <1>1, <1>3, <2>1, <2>2 DEF SemanticStore, ContentInv
    <3> QED
      BY <1>1, <2>1, <3>1, LiveStayAppend
  <2>3. CASE p # op[c].key
    <3>1. semantic'[p] = semantic[p]
      BY <1>1, <1>3, <2>1, <2>3 DEF SemanticStore, ContentInv
    <3> QED
      BY <1>2, <3>1
  <2> QED
    BY <2>2, <2>3
<1>4. ASSUME NEW c \in Clients, SemanticScan(c) PROVE LiveStay(semantic[p], semantic'[p])
  <2> DEFINE x == op[c].entry.text
             now == op[c].now
             q == op[c].key
             r == scan(x, semantic[q], now)
  <2>1. /\ q \in Partitions /\ x \in Prompts /\ now \in Nat /\ now <= clock
        /\ semantic[q] \in Seq(SemanticEntry)
        /\ semantic' = [semantic EXCEPT ![q] = r.kept]
    BY <1>4, ScanStep
  <2>2. LiveOf(r.kept) = LiveOf(semantic[q])
    BY <1>1, <2>1, ScanKeepsLive
  <2> HIDE DEF x, now, q, r
  <2>3. CASE p = q
    <3>1. semantic'[p] = r.kept
      BY <1>1, <2>1, <2>3 DEF ContentInv
    <3>2. LiveOf(semantic'[p]) = LiveOf(semantic[p])
      BY <2>2, <2>3, <3>1
    <3> QED
      BY <1>1, <3>2, LiveStaySame
  <2>4. CASE p # q
    <3>1. semantic'[p] = semantic[p]
      BY <1>1, <2>1, <2>4 DEF ContentInv
    <3> QED
      BY <1>2, <3>1
  <2> QED
    BY <2>3, <2>4
<1>5. (\E c \in Clients : SemanticStore(c) \/ SemanticScan(c)) \/ semantic' = semantic
  <2>1. ASSUME NEW c \in Clients
        PROVE  (\/ ToolSet(c) \/ ToolStore(c) \/ ToolGet(c) \/ ToolEvict(c) \/ ToolReturns(c)
                \/ PromptSet(c) \/ PromptStore(c) \/ PromptGet(c)
                \/ SemanticCall(c) \/ EmbedFails(c) \/ Embedded(c) \/ HitReturns(c)) =>
               semantic' = semantic
    BY DEF ToolSet, ToolStore, ToolGet, ToolEvict, ToolReturns, PromptSet, PromptStore, PromptGet,
           SemanticCall, EmbedFails, Embedded, HitReturns, Calls, Goto
  <2> QED
    BY <2>1 DEF Next, Tick, Silent, vars
<1> QED
  BY <1>2, <1>3, <1>4, <1>5

(* No reader of the caches throws away a live entry, however its reads of  *)
(* the clock, its two locks and the stores of others interleave; and a     *)
(* lookup of the semantic cache, which compacts the partition by the time  *)
(* it read before it took the lock, keeps the live entries in their order. *)
THEOREM LiveKept == Spec => NothingLiveLost
<1>1. Inv /\ [Next]_vars =>
        [/\ \A k \in Keys : LiveAt(tool[k]) => tool'[k] # None
         /\ \A k \in PromptKeys : LiveAt(prompt[k]) => prompt'[k] # None
         /\ \A p \in Partitions : LiveStay(semantic[p], semantic'[p])]_vars
  BY ToolKept, PromptKept, SemanticKept
<1> QED
  BY <1>1, Invariance, PTL DEF Spec, NothingLiveLost
=============================================================================
