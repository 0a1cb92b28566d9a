------------------------------ MODULE Containers ------------------------------
(***************************************************************************)
(* What is stored under a key, and what the data-type commands compute on  *)
(* it (internal/storage/memstore/store.go, types.go).                      *)
(*                                                                         *)
(* An Entry holds exactly one value, selected by its Kind.  Every value is *)
(* a function, as in the code, where all of them are slices or maps:       *)
(*   string  a one-element sequence <<v>>      hash  field  |-> value      *)
(*   list    a sequence of values              set   member |-> 0          *)
(*                                             zset  member |-> score      *)
(* Payloads, fields, members and scores are integers; Unparsable stands    *)
(* for any payload strconv.ParseInt rejects.                               *)
(***************************************************************************)
EXTENDS Integers, Sequences, FiniteSets

CONSTANTS
  IntMax,       \* math.MaxInt64, the largest value HIncrBy can hold
  Unparsable    \* a payload that is not the decimal text of an int64

ASSUME IntWidthAssumption ==
  /\ IntMax \in Nat
  /\ Unparsable \in Int
  /\ Unparsable > IntMax

Empty == <<>>

-----------------------------------------------------------------------------
(* Maps: hashes, sets and sorted sets. *)

MapPut(m, x, v) == [y \in DOMAIN m \cup {x} |-> IF y = x THEN v ELSE m[y]]

MapDel(m, x) == [y \in DOMAIN m \ {x} |-> m[y]]

(* int64 addition wraps around: HIncrBy does cur += delta unchecked. *)
AddInt64(a, b) ==
  LET s == a + b
  IN  IF s > IntMax THEN s - 2 * (IntMax + 1)
      ELSE IF s < -(IntMax + 1) THEN s + 2 * (IntMax + 1)
      ELSE s

HIncrOK(h, f) == f \in DOMAIN h => h[f] # Unparsable

HIncrBy(h, f, delta) ==
  MapPut(h, f, AddInt64(IF f \in DOMAIN h THEN h[f] ELSE 0, delta))

ZIncrBy(z, m, delta) ==
  MapPut(z, m, (IF m \in DOMAIN z THEN z[m] ELSE 0) + delta)

-----------------------------------------------------------------------------
(* Lists. *)

Reversed(l) == [i \in 1..Len(l) |-> l[Len(l) + 1 - i]]

(* Each pushed value goes in front of all before it. *)
LPush(l, vals) == Reversed(vals) \o l

RPush(l, vals) == l \o vals

LPop(l) == Tail(l)

RPop(l) == SubSeq(l, 1, Len(l) - 1)

(* Indices are the client's: 0-based, negative ones count from the end. *)
normalizeIndex(idx, n) == IF idx < 0 THEN n + idx ELSE idx

InRange(l, index) == normalizeIndex(index, Len(l)) \in 0..(Len(l) - 1)

LIndex(l, index) == l[normalizeIndex(index, Len(l)) + 1]

LSet(l, index, v) == [l EXCEPT ![normalizeIndex(index, Len(l)) + 1] = v]

(* The clamping shared by LRange, ZRange and ZRevRange. *)
RangeOf(s, start, stop) ==
  LET n  == Len(s)
      lo == normalizeIndex(start, n)
      hi == normalizeIndex(stop, n)
      a  == IF lo < 0 THEN 0 ELSE lo
      b  == IF hi >= n THEN n - 1 ELSE hi
  IN  IF a > b \/ n = 0 THEN <<>> ELSE SubSeq(s, a + 1, b + 1)

(* One pass of LRem over l: drop matches until `limit' are gone (0: all).  *)
DropMatches(l, limit, v) ==
  LET pass[i \in 0..Len(l)] ==
        IF i = 0 THEN [out |-> <<>>, removed |-> 0]
        ELSE LET p == pass[i - 1]
             IN  IF l[i] = v /\ (limit = 0 \/ p.removed < limit)
                 THEN [out |-> p.out, removed |-> p.removed + 1]
                 ELSE [out |-> Append(p.out, l[i]), removed |-> p.removed]
  IN  pass[Len(l)]

(* Fault: a negative count is served from the head. *)
LRemFromHead(l, count, v) == DropMatches(l, IF count < 0 THEN -count ELSE count, v)

LRem(l, count, v) ==
  IF count >= 0
  THEN DropMatches(l, count, v)
  ELSE LET r == DropMatches(Reversed(l), -count, v)
       IN  [out |-> Reversed(r.out), removed |-> r.removed]

-----------------------------------------------------------------------------
(* Sorted sets and key listings. *)

Before(z, x, y) == z[x] < z[y] \/ (z[x] = z[y] /\ x < y)

(* sort.Slice by score, ties broken by member. *)
sortedMembers(z) ==
  [i \in 1..Cardinality(DOMAIN z) |->
     CHOOSE x \in DOMAIN z :
       Cardinality({y \in DOMAIN z : Before(z, y, x)}) = i - 1]

ZRange(z, start, stop) == RangeOf(sortedMembers(z), start, stop)

ZRevRange(z, start, stop) == RangeOf(Reversed(sortedMembers(z)), start, stop)

ZRank(z, m) == (CHOOSE i \in 1..Cardinality(DOMAIN z) : sortedMembers(z)[i] = m) - 1

ZRangeByScore(z, min, max) ==
  LET all == sortedMembers(z)
      out[i \in 0..Len(all)] ==
        IF i = 0 THEN <<>>
        ELSE IF z[all[i]] >= min /\ z[all[i]] <= max THEN Append(out[i - 1], all[i])
        ELSE out[i - 1]
  IN  out[Len(all)]

(* Fault: the next page starts one key late. *)
ScanSkipsOne(all, cursor, count) ==
  LET n   == Len(all)
      c   == IF count <= 0 THEN 10 ELSE count
      end == IF cursor + c > n THEN n ELSE cursor + c
  IN  IF cursor >= n THEN [next |-> 0, page |-> <<>>]
      ELSE [next |-> IF end + 1 >= n THEN 0 ELSE end + 1, page |-> SubSeq(all, cursor + 1, end)]

(* The page of the sorted key list `all' that SCAN returns for a cursor.   *)
(* The cursor is a position in that list; 0 ends the iteration.            *)
ScanPage(all, cursor, count) ==
  LET n   == Len(all)
      c   == IF count <= 0 THEN 10 ELSE count
      end == IF cursor + c > n THEN n ELSE cursor + c
  IN  IF cursor >= n
      THEN [next |-> 0, page |-> <<>>]
      ELSE [next |-> IF end >= n THEN 0 ELSE end,
            page |-> SubSeq(all, cursor + 1, end)]
=============================================================================
