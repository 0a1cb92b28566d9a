-------------------------------- MODULE Vector --------------------------------
(***************************************************************************)
(* The vector store (internal/vector) with the metrics of                  *)
(* embed/similarity.go.  One mutex guards the store; Search copies the     *)
(* entries of a namespace under it and scores them afterwards, so a search *)
(* is a function of one namespace.                                         *)
(*                                                                         *)
(* Scores are exact fractions; instances use vectors whose lengths and     *)
(* distances are integers.  A text is the set of its lower-case words.     *)
(***************************************************************************)
EXTENDS Integers, FiniteSets, Sequences

CONSTANTS
  Namespaces,
  VectorIds,   \* integers, in the order of the ids they stand for
  Entries      \* what clients store: [vector, metadata, text]

VARIABLE namespaces   \* namespaces[n]: a function from ids to entries

VectorInit == namespaces = [n \in Namespaces |-> <<>>]

Upsert(n, id, e) ==
  namespaces' = [namespaces EXCEPT ![n] =
                   [i \in DOMAIN @ \cup {id} |-> IF i = id THEN e ELSE @[i]]]

Delete(n, id) ==
  /\ id \in DOMAIN namespaces[n]
  /\ namespaces' = [namespaces EXCEPT ![n] = [i \in DOMAIN @ \ {id} |-> @[i]]]

VectorNext ==
  \E n \in Namespaces, id \in VectorIds :
    Delete(n, id) \/ \E e \in Entries : Upsert(n, id, e)

VectorSpec == VectorInit /\ [][VectorNext]_namespaces

-----------------------------------------------------------------------------
Fraction(num, den) == [num |-> num, den |-> den]
Less(x, y) == x.num * y.den < y.num * x.den
Equal(x, y) == x.num * y.den = y.num * x.den

Total(s) ==
  LET sum[i \in 0..Len(s)] == IF i = 0 THEN 0 ELSE sum[i - 1] + s[i] IN sum[Len(s)]

Sqrt(x) == CHOOSE r \in 0..x : r * r = x

Dot(a, b) == Total([i \in 1..Len(a) |-> a[i] * b[i]])

SquaredDistance(a, b) == Total([i \in 1..Len(a) |-> (a[i] - b[i]) * (a[i] - b[i])])

Euclidean(a, b) == Sqrt(SquaredDistance(a, b))

IsSquare(x) == \E r \in 0..x : r * r = x

(* Lengths and distances are integers, so that scores are exact.           *)
ASSUME VectorAssumption ==
  /\ VectorIds \subseteq Int
  /\ \A e \in Entries : e.vector \in Seq(Int) /\ IsFiniteSet(e.text)
  /\ \A d, e \in Entries :
       Len(d.vector) = Len(e.vector) =>
         IsSquare(Dot(d.vector, d.vector)) /\ IsSquare(SquaredDistance(d.vector, e.vector))

(* Undefined ({}, NaN in the code) for a vector without length. *)
Cosine(a, b) ==
  IF Dot(a, a) = 0 \/ Dot(b, b) = 0 THEN {}
  ELSE {Fraction(Dot(a, b), Sqrt(Dot(a, a)) * Sqrt(Dot(b, b)))}

(* The score of b for the query a, if it has one. *)
rawScore(a, b, metric) ==
  CASE a = <<>> \/ Len(a) # Len(b) -> {}
    [] a # <<>> /\ Len(a) = Len(b) /\ metric = "dot" -> {Fraction(Dot(a, b), 1)}
    [] a # <<>> /\ Len(a) = Len(b) /\ metric = "euclidean" -> {Fraction(Euclidean(a, b), 1)}
    [] OTHER -> Cosine(a, b)

normalizeForBlend(x, metric) ==
  IF metric = "euclidean" THEN Fraction(x.den, x.den + x.num) ELSE x

matchesFilter(metadata, filter) ==
  \A f \in DOMAIN filter : f \in DOMAIN metadata /\ metadata[f] = filter[f]

keywordScore(query, text) ==
  IF query = {} \/ text = {} THEN Fraction(0, 1)
  ELSE Fraction(Cardinality(query \cap text), Cardinality(query))

Blend(alpha, x, y) ==
  Fraction(alpha.num * x.num * y.den + (alpha.den - alpha.num) * y.num * x.den,
           alpha.den * x.den * y.den)

(* A search for q.vector; q.hybrid is {} or holds words and an alpha. *)
Scores(ns, q, metric) ==
  [id \in {i \in DOMAIN ns :
             /\ matchesFilter(ns[i].metadata, q.filter)
             /\ Len(ns[i].vector) = Len(q.vector)
             /\ rawScore(q.vector, ns[i].vector, metric) # {}} |->
     LET raw == CHOOSE x \in rawScore(q.vector, ns[id].vector, metric) : TRUE
     IN  IF q.hybrid = {} THEN raw
         ELSE LET h == CHOOSE h \in q.hybrid : TRUE
              IN  Blend(h.alpha, normalizeForBlend(raw, metric), keywordScore(h.words, ns[id].text))]

(* Fault: a hybrid search keeps the order of the metric. *)
HigherUnlessEuclidean(q, metric) == metric # "euclidean"

HigherIsBetter(q, metric) == q.hybrid # {} \/ metric # "euclidean"

Precedes(scores, higher, i, j) ==
  \/ IF higher THEN Less(scores[j], scores[i]) ELSE Less(scores[i], scores[j])
  \/ Equal(scores[i], scores[j]) /\ i < j

Smaller(x, y) == IF x < y THEN x ELSE y

(* The ids of the best k, best first. *)
Search(ns, q, k, metric) ==
  LET scores == Scores(ns, q, metric)
      Rank(i) == 1 + Cardinality({j \in DOMAIN scores :
                                    Precedes(scores, HigherIsBetter(q, metric), j, i)})
      n == Cardinality(DOMAIN scores)
  IN  IF k <= 0 THEN <<>>
      ELSE [r \in 1..Smaller(k, n) |-> CHOOSE i \in DOMAIN scores : Rank(i) = r]

-----------------------------------------------------------------------------
Metrics == {"cosine", "dot", "euclidean"}
QueryVectors == {e.vector : e \in Entries}
Filters == {e.metadata : e \in Entries}
Words == {e.text : e \in Entries}

Query(v, filter, hybrid) == [vector |-> v, filter |-> filter, hybrid |-> hybrid]
Weighing(words, alpha) == {[words |-> words, alpha |-> Fraction(alpha, 2)]}

(* How the searches of one namespace agree, for one query. *)
SearchesAgree(ns, v, f, w, m) ==
  LET all   == Cardinality(DOMAIN ns)
      pure  == Search(ns, Query(v, f, {}), all, m)
      words == Query(v, f, Weighing(w, 0))
      half  == Query(v, f, Weighing(w, 1))
      whole == Search(ns, half, all, m)
      only  == [i \in {j \in DOMAIN ns : matchesFilter(ns[j].metadata, f)} |-> ns[i]]
  IN  /\ Search(ns, Query(v, f, Weighing(w, 2)), all, m) = pure
      /\ Search(ns, words, all, "dot") = Search(ns, words, all, "euclidean")
      /\ \A k \in -1..all :
           Search(ns, half, k, m) = SubSeq(whole, 1, Smaller(k, Len(whole)))
      /\ whole = Search(only, [half EXCEPT !.filter = <<>>], all, m)
      /\ \A i, j \in 1..Len(pure) :
           m # "dot" /\ i < j /\ ns[pure[j]].vector = v =>
             \E x \in rawScore(v, ns[pure[i]].vector, m), y \in rawScore(v, v, m) : Equal(x, y)

(* Searches agree with one another, whatever is stored: a hybrid search    *)
(* that gives the words no weight ranks as the pure one does, for          *)
(* distances (smaller is better) as for similarities; one that gives only  *)
(* the words weight ranks by words under any metric; asking for fewer      *)
(* results cuts the list short; a filter searches the entries that carry   *)
(* it as if they were alone; and nothing is ranked before an exact copy of *)
(* the query but another one.                                              *)
VectorRight ==
  \A n \in {n \in Namespaces : namespaces[n] # <<>>},
     v \in QueryVectors, f \in Filters, w \in Words, m \in Metrics :
    SearchesAgree(namespaces[n], v, f, w, m)
=============================================================================
