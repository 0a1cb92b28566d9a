-------------------------------- MODULE Queries --------------------------------
(***************************************************************************)
(* What the list and sorted-set commands of Containers are to compute, by  *)
(* reference definitions that name positions instead of computing them;    *)
(* and what the matchers of Glob are to accept.                            *)
(***************************************************************************)
EXTENDS Containers, Glob

CONSTANTS
  Args,      \* indices and counts clients give
  ZScores,   \* scores, and ends of score intervals
  Members,   \* members of sorted sets, elements of lists
  Texts      \* texts to match, with all their parts

VARIABLE input   \* what is looked at: input.value is a list, a sorted set or a pattern

ASSUME QueryAssumption == Args \subseteq Int /\ ZScores \subseteq Int /\ Members \subseteq Int

ASSUME TextsAssumption ==
  /\ Texts \subseteq Seq(Int) /\ <<>> \in Texts
  /\ \A t \in Texts : \A i, j \in 0..Len(t) : SubSeq(t, i + 1, j) \in Texts

(* Position p of list s (from 1), as a client counts it, is start..stop.   *)
Selected(s, start, stop) ==
  LET At(i) == IF i < 0 THEN Len(s) + i ELSE i
  IN  {p \in 1..Len(s) : At(start) <= p - 1 /\ p - 1 <= At(stop)}

(* out is s without everything but the positions in P. *)
IsSubsequence(out, s, P) ==
  /\ Len(out) = Cardinality(P)
  /\ \A p \in P : out[Cardinality({q \in P : q <= p})] = s[p]

(* The positions LREM is to empty: the first |c| matches, seen from the    *)
(* head for a positive and from the tail for a negative c, all for zero.   *)
Removed(l, v, c) ==
  {p \in 1..Len(l) :
     /\ l[p] = v
     /\ \/ c = 0
        \/ c > 0 /\ Cardinality({q \in 1..p : l[q] = v}) <= c
        \/ c < 0 /\ Cardinality({q \in p..Len(l) : l[q] = v}) <= -c}

(* LRANGE returns exactly the elements whose positions lie between start   *)
(* and stop, for any mixture of negative and too large indices; LREM       *)
(* removes what it should, reports how many, and keeps everything else in  *)
(* order.                                                                  *)
ListRight(l) ==
  /\ \A i, j \in Args : IsSubsequence(RangeOf(l, i, j), l, Selected(l, i, j))
  /\ \A v \in Members, c \in Args :
       LET r == LRem(l, c, v)
       IN  /\ r.removed = Cardinality(Removed(l, v, c))
           /\ IsSubsequence(r.out, l, (1..Len(l)) \ Removed(l, v, c))

(* The sorted-set queries agree with one another: every member is where    *)
(* its rank says, ranks follow the scores, ZREVRANGE is ZRANGE backwards,  *)
(* and a score interval selects what is within it, in order.               *)
ZSetRight(z) ==
  LET all == ZRange(z, 0, -1)
  IN  /\ Len(all) = Cardinality(DOMAIN z)
      /\ \A m \in DOMAIN z : all[ZRank(z, m) + 1] = m
      /\ \A m, k \in DOMAIN z : z[m] < z[k] => ZRank(z, m) < ZRank(z, k)
      /\ ZRevRange(z, 0, -1) = Reversed(all)
      /\ \A lo, hi \in ZScores :
           IsSubsequence(ZRangeByScore(z, lo, hi), all,
                         {p \in 1..Len(all) : lo <= z[all[p]] /\ z[all[p]] <= hi})

(* LRANGE and LREM, ZRANGE, ZRANK and ZRANGEBYSCORE compute what their     *)
(* index and score arithmetic is to compute, for every small list, sorted  *)
(* set and argument.                                                       *)
ContainersRight ==
  /\ input.about = "list" => ListRight(input.value)
  /\ input.about = "zset" => ZSetRight(input.value)

(* KEYS, SCAN MATCH and PSUBSCRIBE match exactly what a pattern stands     *)
(* for, whatever stars, classes, ranges, unclosed brackets and escapes it  *)
(* is made of.                                                             *)
GlobRight == input.about = "glob" => GlobMatchesLanguage(input.value, Texts)
=============================================================================
