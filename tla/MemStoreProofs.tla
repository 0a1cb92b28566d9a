---------------------------- MODULE MemStoreProofs ----------------------------
(***************************************************************************)
(* Proofs about the engine, for any number of clients, keys and shards,    *)
(* any cap, sample sizes and bounds.                                       *)
(*                                                                         *)
(* The shard primitives are functions from stores to stores, so the        *)
(* argument is made once per primitive (Good, below) and carried to the    *)
(* actions by composition.  At the end, the list, sorted-set and pattern   *)
(* algorithms, against the references of Queries.                          *)
(***************************************************************************)
EXTENDS MemStore, Queries, Induction, FiniteSetTheorems, TLAPS

PresentKeys(st) == {k \in Keys : Present(st, k)}

(* What holds of the store whenever no lock is held across it. *)
StoreOK(st) ==
  /\ st.data = [k \in Keys |-> st.data[k]]
  /\ \A k \in Keys : EntryOK(st.data[k])
  /\ st.versions \in [Keys -> Nat]
  /\ st.ttlKeys = {k \in Keys : Present(st, k) /\ st.data[k].expiresAt # NoTTL}
  /\ st.entryCount = Cardinality(PresentKeys(st))

(* The relation of WatchSpec!Modify between two stores. *)
Evolves(s, t) ==
  \A k \in Keys :
    \/ t.versions[k] > s.versions[k]
    \/ t.versions[k] = s.versions[k] /\ Visible(t.data[k]) = Visible(s.data[k])

(* t is a correct successor of s in which only keys of S may have appeared.*)
Good(s, t, S) ==
  /\ StoreOK(t)
  /\ Evolves(s, t)
  /\ PresentKeys(t) \subseteq PresentKeys(s) \cup S

-----------------------------------------------------------------------------
(* Successors compose. *)
LEMMA GoodTrans ==
  ASSUME NEW s, NEW t, NEW u, NEW S, NEW T,
         StoreOK(s), Good(s, t, S), Good(t, u, T)
  PROVE  Good(s, u, S \cup T)
<1>1. /\ s.versions \in [Keys -> Nat] /\ t.versions \in [Keys -> Nat]
      /\ u.versions \in [Keys -> Nat]
  BY DEF Good, StoreOK
<1>2. Evolves(s, u)
  BY <1>1 DEF Good, Evolves
<1> QED
  BY <1>2 DEF Good

LEMMA GoodRefl ==
  ASSUME NEW s, StoreOK(s)
  PROVE  Good(s, s, {})
  BY DEF Good, StoreOK, Evolves

(* The keys present in a store are finitely many. *)
LEMMA PresentFinite ==
  ASSUME NEW s
  PROVE  /\ IsFiniteSet(PresentKeys(s))
         /\ Cardinality(PresentKeys(s)) \in Nat
  BY FS_Subset, FS_CardinalityType, SizeAssumption DEF PresentKeys

(* Deleting a key and bumping its version: DEL, lazy expiry, eviction.     *)
LEMMA RemoveGood ==
  ASSUME NEW s, StoreOK(s), NEW k \in Keys
  PROVE  /\ Good(s, Remove(s, k), {})
         /\ ~Present(Remove(s, k), k)
<1> DEFINE t == Remove(s, k)
<1>1. /\ t.data = [s.data EXCEPT ![k] = NoEntry]
      /\ t.ttlKeys = s.ttlKeys \ {k}
      /\ t.versions = [s.versions EXCEPT ![k] = @ + 1]
      /\ t.entryCount = IF Present(s, k) THEN s.entryCount - 1 ELSE s.entryCount
  BY DEF Remove, bumpVersionLocked, deleteEntryLocked, Store
<1>2. /\ t.data[k] = NoEntry
      /\ \A x \in Keys \ {k} : t.data[x] = s.data[x]
      /\ t.data = [x \in Keys |-> t.data[x]]
  BY <1>1 DEF StoreOK
<1>3. ~Present(t, k) /\ \A x \in Keys \ {k} : Present(t, x) <=> Present(s, x)
  BY <1>2 DEF Present, NoEntry, Entry
<1>4. PresentKeys(t) = PresentKeys(s) \ {k}
  BY <1>3 DEF PresentKeys
<1>5. t.entryCount = Cardinality(PresentKeys(t))
  <2>1. Cardinality(PresentKeys(s) \ {k}) =
          IF k \in PresentKeys(s) THEN Cardinality(PresentKeys(s)) - 1
          ELSE Cardinality(PresentKeys(s))
    BY PresentFinite, FS_RemoveElement
  <2>2. k \in PresentKeys(s) <=> Present(s, k)
    BY DEF PresentKeys
  <2> QED
    BY <1>1, <1>4, <2>1, <2>2 DEF StoreOK
<1>6. t.ttlKeys = {x \in Keys : Present(t, x) /\ t.data[x].expiresAt # NoTTL}
  BY <1>1, <1>2, <1>3 DEF StoreOK
<1>7. t.versions \in [Keys -> Nat] /\ Evolves(s, t)
  BY <1>1, <1>2 DEF StoreOK, Evolves
<1>8. \A x \in Keys : EntryOK(t.data[x])
  BY <1>2 DEF StoreOK, EntryOK, NoEntry, Entry, NoTTL
<1> HIDE DEF t
<1>9. StoreOK(t)
  BY <1>2, <1>5, <1>6, <1>7, <1>8 DEF StoreOK
<1>10. Good(s, t, {}) /\ ~Present(t, k)
  BY <1>3, <1>4, <1>7, <1>9 DEF Good
<1> QED
  BY <1>10 DEF t

(* The lazy lookup deletes at most the key it looks for. *)
LEMMA FetchGood ==
  ASSUME NEW s, StoreOK(s), NEW k \in Keys, NEW now
  PROVE  Good(s, getForWriteLocked(s, k, now), {})
  BY RemoveGood, GoodRefl DEF getForWriteLocked

(* A common form of the writes: one key gets a new entry, is indexed by    *)
(* its expiry, counted if new, and its version bumped.                     *)
LEMMA PutGood ==
  ASSUME NEW s, StoreOK(s), NEW k \in Keys, NEW e, EntryOK(e), e.kind # "none",
         NEW t,
         t.data = [s.data EXCEPT ![k] = e],
         t.ttlKeys = TTLIndexed(s.ttlKeys, k, e.expiresAt),
         t.versions = [s.versions EXCEPT ![k] = @ + 1],
         t.entryCount = IF Present(s, k) THEN s.entryCount ELSE s.entryCount + 1
  PROVE  /\ Good(s, t, {k})
         /\ t.data[k] = e
         /\ Present(s, k) => Good(s, t, {})
<1>2. /\ t.data[k] = e
      /\ \A x \in Keys \ {k} : t.data[x] = s.data[x]
      /\ t.data = [x \in Keys |-> t.data[x]]
  BY DEF StoreOK
<1>3. Present(t, k) /\ \A x \in Keys \ {k} : Present(t, x) <=> Present(s, x)
  BY <1>2 DEF Present
<1>4. PresentKeys(t) = PresentKeys(s) \cup {k}
  BY <1>3 DEF PresentKeys
<1>5. t.entryCount = Cardinality(PresentKeys(t))
  <2>1. Cardinality(PresentKeys(s) \cup {k}) =
          IF k \in PresentKeys(s) THEN Cardinality(PresentKeys(s))
          ELSE Cardinality(PresentKeys(s)) + 1
    BY PresentFinite, FS_AddElement
  <2>2. k \in PresentKeys(s) <=> Present(s, k)
    BY DEF PresentKeys
  <2> QED
    BY <1>4, <2>1, <2>2 DEF StoreOK
<1>6. t.ttlKeys = {x \in Keys : Present(t, x) /\ t.data[x].expiresAt # NoTTL}
  <2>1. CASE e.expiresAt = NoTTL
    BY <1>2, <1>3, <2>1 DEF StoreOK, TTLIndexed
  <2>2. CASE e.expiresAt # NoTTL
    BY <1>2, <1>3, <2>2 DEF StoreOK, TTLIndexed
  <2> QED
    BY <2>1, <2>2
<1>7. t.versions \in [Keys -> Nat] /\ Evolves(s, t)
  BY <1>2 DEF StoreOK, Evolves
<1>8. \A x \in Keys : EntryOK(t.data[x])
  BY <1>2 DEF StoreOK
<1>9. StoreOK(t)
  BY <1>2, <1>5, <1>6, <1>7, <1>8 DEF StoreOK
<1>10. Present(s, k) => PresentKeys(t) \subseteq PresentKeys(s)
  BY <1>4 DEF PresentKeys
<1> QED
  BY <1>2, <1>4, <1>7, <1>9, <1>10 DEF Good

LEMMA SetEntryGood ==
  ASSUME NEW s, StoreOK(s), NEW k \in Keys, NEW e, EntryOK(e), e.kind # "none"
  PROVE  /\ Good(s, setEntryLocked(s, k, e), {k})
         /\ setEntryLocked(s, k, e).data[k] = e
         /\ Present(s, k) => Good(s, setEntryLocked(s, k, e), {})
<1> DEFINE t == setEntryLocked(s, k, e)
<1>1. /\ t.data = [s.data EXCEPT ![k] = e]
      /\ t.ttlKeys = TTLIndexed(s.ttlKeys, k, e.expiresAt)
      /\ t.versions = [s.versions EXCEPT ![k] = @ + 1]
      /\ t.entryCount = IF Present(s, k) THEN s.entryCount ELSE s.entryCount + 1
  BY DEF setEntryLocked, bumpVersionLocked, Store
<1> HIDE DEF t
<1>2. Good(s, t, {k})
  BY <1>1, PutGood
<1>3. t.data[k] = e
  BY <1>1 DEF StoreOK
<1>4. Present(s, k) => Good(s, t, {})
  BY <1>1, PutGood
<1> QED
  BY <1>2, <1>3, <1>4 DEF t

LEMMA SetExpiryGood ==
  ASSUME NEW s, StoreOK(s), NEW k \in Keys, Present(s, k),
         NEW at \in Nat \cup {NoTTL}
  PROVE  Good(s, setExpiryLocked(s, k, at), {})
<1> DEFINE t == setExpiryLocked(s, k, at)
           e == WithExpiry(s.data[k], at)
<1>1. /\ t.data = [s.data EXCEPT ![k] = e]
      /\ t.ttlKeys = TTLIndexed(s.ttlKeys, k, at)
      /\ t.versions = [s.versions EXCEPT ![k] = @ + 1]
      /\ t.entryCount = s.entryCount
  BY DEF setExpiryLocked, bumpVersionLocked, Store
<1>2. EntryOK(e) /\ e.kind # "none" /\ e.expiresAt = at
  BY DEF WithExpiry, Entry, EntryOK, StoreOK, Present
<1> HIDE DEF t, e
<1>3. Good(s, t, {})
  BY <1>1, <1>2, PutGood
<1> QED
  BY <1>3 DEF t

(* Changing a present entry in place and bumping: the collection writes.   *)
LEMMA MutateGood ==
  ASSUME NEW s, StoreOK(s), NEW k \in Keys, Present(s, k),
         NEW e, EntryOK(e), e.kind = s.data[k].kind,
         e.expiresAt = s.data[k].expiresAt
  PROVE  Good(s, bumpVersionLocked(Mutate(s, k, e), k), {})
<1> DEFINE t == bumpVersionLocked(Mutate(s, k, e), k)
<1>1. /\ t.data = [s.data EXCEPT ![k] = e]
      /\ t.ttlKeys = s.ttlKeys
      /\ t.versions = [s.versions EXCEPT ![k] = @ + 1]
      /\ t.entryCount = s.entryCount
  BY DEF bumpVersionLocked, Mutate, Store
<1>2. s.ttlKeys = TTLIndexed(s.ttlKeys, k, e.expiresAt)
  BY DEF StoreOK, TTLIndexed
<1>3. e.kind # "none"
  BY DEF Present
<1> HIDE DEF t
<1>4. Good(s, t, {})
  BY <1>1, <1>2, <1>3, PutGood, ZenonT(40)
<1> QED
  BY <1>4 DEF t

(* Changing nothing a client can see needs no bump: the LRU bookkeeping.   *)
LEMMA TouchGood ==
  ASSUME NEW s, StoreOK(s), NEW k \in Keys, NEW e, EntryOK(e),
         e.kind = s.data[k].kind, e.val = s.data[k].val,
         e.expiresAt = s.data[k].expiresAt
  PROVE  Good(s, Mutate(s, k, e), {})
<1> DEFINE t == Mutate(s, k, e)
<1>1. /\ t.data = [s.data EXCEPT ![k] = e]
      /\ t.ttlKeys = s.ttlKeys
      /\ t.versions = s.versions
      /\ t.entryCount = s.entryCount
  BY DEF Mutate, Store
<1>2. /\ t.data = [x \in Keys |-> t.data[x]]
      /\ t.data[k] = e
      /\ \A x \in Keys \ {k} : t.data[x] = s.data[x]
  BY <1>1 DEF StoreOK
<1> HIDE DEF t
<1>3. \A x \in Keys : /\ Present(t, x) <=> Present(s, x)
                      /\ t.data[x].expiresAt = s.data[x].expiresAt
                      /\ Visible(t.data[x]) = Visible(s.data[x])
                      /\ EntryOK(t.data[x])
  BY <1>2 DEF Present, Visible, StoreOK
<1>4. PresentKeys(t) = PresentKeys(s)
  BY <1>3 DEF PresentKeys
<1>5. StoreOK(t)
  BY <1>1, <1>2, <1>3, <1>4 DEF StoreOK
<1>6. Good(s, t, {})
  BY <1>1, <1>3, <1>4, <1>5 DEF Good, Evolves
<1> QED
  BY <1>6 DEF t

(* Removing a set of present keys at once: a flush or a sweep of a shard.  *)
LEMMA RemoveAllGood ==
  ASSUME NEW s, StoreOK(s), NEW S, S \subseteq PresentKeys(s)
  PROVE  Good(s, RemoveAll(s, S), {})
<1> DEFINE t == RemoveAll(s, S)
<1>1. /\ t.data = [k \in Keys |-> IF k \in S THEN NoEntry ELSE s.data[k]]
      /\ t.ttlKeys = s.ttlKeys \ S
      /\ t.versions = [k \in Keys |-> IF k \in S THEN s.versions[k] + 1 ELSE s.versions[k]]
      /\ t.entryCount = s.entryCount - Cardinality(S)
  BY DEF RemoveAll, Store
<1> HIDE DEF t
<1>2. \A k \in Keys : /\ k \in S => ~Present(t, k) /\ t.data[k] = NoEntry
                      /\ k \notin S => t.data[k] = s.data[k] /\ (Present(t, k) <=> Present(s, k))
  BY <1>1 DEF Present, NoEntry, Entry
<1>3. PresentKeys(t) = PresentKeys(s) \ S
  BY <1>2 DEF PresentKeys
<1>4. t.entryCount = Cardinality(PresentKeys(t))
  <2>1. S \cap PresentKeys(s) = S /\ PresentKeys(s) \cap S = S
    OBVIOUS
  <2>2. Cardinality(PresentKeys(s) \ S) =
          Cardinality(PresentKeys(s)) - Cardinality(PresentKeys(s) \cap S)
    BY PresentFinite, FS_Difference
  <2> QED
    BY <1>1, <1>3, <2>1, <2>2 DEF StoreOK
<1>5. \A k \in Keys : EntryOK(t.data[k])
  BY <1>2 DEF StoreOK, EntryOK, NoEntry, Entry, NoTTL
<1>6. t.ttlKeys = {k \in Keys : Present(t, k) /\ t.data[k].expiresAt # NoTTL}
  BY <1>1, <1>2 DEF StoreOK
<1>7. t.versions \in [Keys -> Nat] /\ Evolves(s, t)
  BY <1>1, <1>2 DEF StoreOK, Evolves
<1>8. StoreOK(t)
  BY <1>1, <1>4, <1>5, <1>6, <1>7 DEF StoreOK
<1>9. Good(s, t, {})
  BY <1>3, <1>7, <1>8 DEF Good
<1> QED
  BY <1>9 DEF t

(* The collection writes keep the entry's kind and expiry.                 *)
LEMMA WrittenGood ==
  ASSUME NEW s, StoreOK(s), NEW k \in Keys, Present(s, k), NEW r, NEW now \in Nat
  PROVE  Good(s, Written(s, k, r, now), {})
<1> DEFINE e == s.data[k]
           w == WithContent(e, NewContent(r, e.val))
           f == IF r.name = "ZIncrBy" THEN w ELSE Touched(w, now)
<1>1. EntryOK(e)
  BY DEF StoreOK
<1>2. EntryOK(w) /\ w.kind = e.kind /\ w.expiresAt = e.expiresAt
  BY <1>1 DEF EntryOK, WithContent, Entry
<1>3. EntryOK(Touched(w, now)) /\ Touched(w, now).kind = e.kind
      /\ Touched(w, now).expiresAt = e.expiresAt
  BY <1>2 DEF EntryOK, Touched, Entry
<1>4. EntryOK(f) /\ f.kind = e.kind /\ f.expiresAt = e.expiresAt
  BY <1>2, <1>3
<1>5. Written(s, k, r, now) =
        IF r.name = "HIncrBy" /\ ~HIncrOK(e.val, r.elem) THEN s
        ELSE bumpVersionLocked(Mutate(s, k, f), k)
  BY DEF Written
<1> HIDE DEF f, w
<1>6. Good(s, bumpVersionLocked(Mutate(s, k, f), k), {})
  BY <1>4, MutateGood
<1> QED
  BY <1>5, <1>6, GoodRefl

(* Taking an element out of a collection, which goes when it runs empty.   *)
LEMMA ShrunkGood ==
  ASSUME NEW s, StoreOK(s), NEW k \in Keys, Present(s, k), NEW val
  PROVE  Good(s, Shrunk(s, k, val), {})
<1> DEFINE w == WithContent(s.data[k], val)
<1>1. EntryOK(w) /\ w.kind = s.data[k].kind /\ w.expiresAt = s.data[k].expiresAt
  BY DEF EntryOK, WithContent, Entry, StoreOK
<1> HIDE DEF w
<1>2. Good(s, bumpVersionLocked(Mutate(s, k, w), k), {})
  BY <1>1, MutateGood
<1> QED
  BY <1>2, RemoveGood DEF Shrunk, w

(* A rename is a removal of the old key followed by a write of the new.    *)
LEMMA MovedGood ==
  ASSUME NEW s, StoreOK(s), NEW old \in Keys, NEW new \in Keys, NEW now
  PROVE  Good(s, Moved(s, old, new, now), {new})
<1> DEFINE f == getForWriteLocked(s, old, now)
           e == f.data[old]
           m == bumpVersionLocked(setEntryLocked(deleteEntryLocked(f, old), new, e), old)
           n == setEntryLocked(Remove(f, old), new, e)
<1>1. Good(s, f, {}) /\ StoreOK(f)
  BY FetchGood DEF Good
<1>2. Moved(s, old, new, now) = IF ~Present(f, old) THEN f ELSE m
  BY DEF Moved
<1>3. CASE ~Present(f, old)
  BY <1>1, <1>2, <1>3 DEF Good
<1>4. CASE Present(f, old)
  <2>1. EntryOK(e) /\ e.kind # "none"
    BY <1>1, <1>4 DEF StoreOK, Present
  <2> HIDE DEF f, e
  <2>2. m = n
    <3>1. f.versions \in [Keys -> Nat]
      BY <1>1 DEF StoreOK
    <3>2. [[f.versions EXCEPT ![new] = @ + 1] EXCEPT ![old] = @ + 1] =
          [[f.versions EXCEPT ![old] = @ + 1] EXCEPT ![new] = @ + 1]
      BY <3>1
    <3>3. Present(deleteEntryLocked(f, old), new) = Present(Remove(f, old), new)
      BY DEF Present, Remove, deleteEntryLocked, bumpVersionLocked, Store
    <3> QED
      BY <3>2, <3>3 DEF Remove, setEntryLocked, deleteEntryLocked, bumpVersionLocked, Store
  <2>3. Good(f, Remove(f, old), {}) /\ StoreOK(Remove(f, old))
    BY <1>1, RemoveGood DEF Good
  <2>4. Good(Remove(f, old), n, {new})
    BY <2>1, <2>3, SetEntryGood
  <2> HIDE DEF m, n
  <2>5. Good(f, n, {new})
    BY <1>1, <2>3, <2>4, GoodTrans
  <2>6. Good(s, n, {new})
    BY <1>1, <2>5, GoodTrans
  <2> QED
    BY <1>2, <1>4, <2>2, <2>6
<1> QED
  BY <1>3, <1>4

-----------------------------------------------------------------------------
ElemWrites == {"HSet", "HIncrBy", "SAdd", "ZAdd", "ZIncrBy"}

(* What every request satisfies: its type, that it is one of the instance's*)
(* commands, how many keys it names, and that it writes known elements.    *)
ReqOK(r) ==
  /\ r \in ReqType
  /\ r.name \in Commands
  /\ r.name \notin ShardLoops => Len(r.keys) \in 1..2
  /\ r.name = "Rename" => Len(r.keys) = 2
  /\ r.name \in ElemWrites => r.elem \in Elems

LEMMA RequestsOK == \A r \in Requests : ReqOK(r)
<1> USE ClientAssumption
<1> DEFINE Named(n) == {r \in ReqType : Len(r.keys) \in n}
<1>0. NoReq \in ReqType
  <2>1. <<>> \in Seq(Keys)
    OBVIOUS
  <2> QED
    BY <2>1 DEF NoReq, ReqType
<1>1. ASSUME NEW r \in ReqType, NEW ks \in Seq(Keys)
      PROVE  [r EXCEPT !.keys = ks] \in ReqType /\ [r EXCEPT !.keys = ks].keys = ks
  BY DEF ReqType
<1>2. KeyReqs \subseteq Named({1})
  <2>1. ASSUME NEW k \in Keys PROVE [NoReq EXCEPT !.keys = <<k>>] \in Named({1})
    <3>1. <<k>> \in Seq(Keys) /\ Len(<<k>>) = 1
      OBVIOUS
    <3> QED
      BY <1>0, <1>1, <3>1
  <2> QED
    BY <2>1 DEF KeyReqs
<1>3. TwoKeyReqs \subseteq Named({2})
  <2>1. ASSUME NEW p \in Pairs(Names) PROVE p \in Seq(Keys) /\ Len(p) = 2
    <3>1. PICK w \in Workspaces, x \in Names, y \in Names : p = <<<<w, x>>, <<w, y>>>>
      BY DEF Pairs
    <3>2. <<w, x>> \in Keys /\ <<w, y>> \in Keys
      BY DEF Keys
    <3> QED
      BY <3>1, <3>2
  <2>2. ASSUME NEW p \in Pairs(Names) PROVE [NoReq EXCEPT !.keys = p] \in Named({2})
    BY <1>0, <1>1, <2>1
  <2> QED
    BY <2>2 DEF TwoKeyReqs
<1>4. WsReqs \subseteq ReqType
  BY <1>0 DEF WsReqs, ReqType
<1>5. ElemReqs \subseteq Named({1}) /\ ValReqs \subseteq Named({1}) /\ TTLReqs \subseteq Named({1})
  BY <1>2, SMTT(30) DEF ElemReqs, ValReqs, TTLReqs, ReqType
<1>6. ElemNumReqs \subseteq Named({1}) /\ ElemValReqs \subseteq Named({1})
  BY <1>5, SMTT(30) DEF ElemNumReqs, ElemValReqs, ReqType
<1>a. /\ \A r \in ElemReqs : r.elem \in Elems
      /\ \A r \in ElemNumReqs : r.elem \in Elems
      /\ \A r \in ElemValReqs : r.elem \in Elems
  <2>1. \A r \in ElemReqs : r.elem \in Elems
    BY <1>2 DEF ElemReqs, ReqType
  <2>2. ASSUME NEW r \in ReqType, NEW n
        PROVE  [r EXCEPT !.num = n].elem = r.elem /\ [r EXCEPT !.val = n].elem = r.elem
    BY DEF ReqType
  <2>3. ElemReqs \subseteq ReqType
    BY <1>5
  <2>4. ASSUME NEW q \in ElemNumReqs \cup ElemValReqs PROVE q.elem \in Elems
    <3>1. PICK r \in ElemReqs : \E n : q = [r EXCEPT !.num = n] \/ q = [r EXCEPT !.val = n]
      BY DEF ElemNumReqs, ElemValReqs
    <3>2. PICK n : q = [r EXCEPT !.num = n] \/ q = [r EXCEPT !.val = n]
      BY <3>1
    <3>3. q.elem = r.elem
      BY <2>2, <2>3, <3>2
    <3> QED
      BY <2>1, <3>3
  <2> QED
    BY <2>1, <2>4
<1>7. ValNumReqs \subseteq Named({1}) /\ ValTTLReqs \subseteq Named({1})
  <2>1. ValNumReqs \subseteq Named({1})
    BY <1>5, SMTT(20) DEF ValNumReqs, ReqType
  <2>2. ValTTLReqs \subseteq Named({1})
    BY <1>5, SMTT(20) DEF ValTTLReqs, ReqType
  <2> QED
    BY <2>1, <2>2
<1>8. SetReqs \subseteq Named({1})
  <2>1. ASSUME NEW o \in SetOptions PROVE o.mode \in {"none", "NX", "XX"} /\ o.getOld \in BOOLEAN
    OBVIOUS
  <2>2. ASSUME NEW r \in ReqType, NEW m \in {"none", "NX", "XX"}, NEW g \in BOOLEAN
        PROVE  /\ [r EXCEPT !.mode = m, !.getOld = g] \in ReqType
               /\ [r EXCEPT !.mode = m, !.getOld = g].keys = r.keys
    BY DEF ReqType
  <2>3. ASSUME NEW q \in SetReqs PROVE q \in Named({1})
    <3>1. PICK r \in ValTTLReqs, o \in SetOptions : q = WithOptions(r, o)
      BY DEF SetReqs
    <3>2. r \in ReqType /\ Len(r.keys) \in {1}
      BY <1>7
    <3>3. q \in ReqType /\ q.keys = r.keys
      BY <2>1, <2>2, <3>1, <3>2 DEF WithOptions
    <3> QED
      BY <3>2, <3>3
  <2> QED
    BY <2>3
<1>9. ASSUME NEW names \in SUBSET Methods, NEW S, S \subseteq ReqType,
             NEW q \in Calls(names, S)
      PROVE  /\ q \in ReqType
             /\ q.name \in names \cap Commands
             /\ \E r \in S : q.keys = r.keys /\ q.elem = r.elem
  <2>1. PICK r \in S, n \in names \cap Commands : q = [r EXCEPT !.name = n]
    BY <1>9 DEF Calls
  <2>2. r \in ReqType
    BY <1>9
  <2> QED
    BY <2>1, <2>2 DEF ReqType
<1>10. ASSUME NEW names \in SUBSET (Methods \ {"Rename"}), NEW S, S \subseteq Named({1, 2}),
              names \cap ElemWrites = {} \/ \A r \in S : r.elem \in Elems
       PROVE  \A q \in Calls(names, S) : ReqOK(q)
  BY <1>9, <1>10 DEF ReqOK
<1>11. \A q \in Calls({"Rename"}, TwoKeyReqs) : ReqOK(q)
  BY <1>3, <1>9 DEF ReqOK, Methods, ElemWrites
<1>12. \A q \in Calls(ShardLoops, WsReqs) : ReqOK(q)
  BY <1>4, <1>9 DEF ReqOK, Methods, ShardLoops, ElemWrites
<1>13. /\ \A q \in Calls(PlainReads \cup {"Get", "Type", "Persist", "LPop", "RPop"}, KeyReqs) : ReqOK(q)
       /\ \A q \in Calls({"Del", "Exists"}, KeyReqs \cup TwoKeyReqs) : ReqOK(q)
       /\ \A q \in Calls({"Set"}, SetReqs) : ReqOK(q)
       /\ \A q \in Calls({"Expire"}, TTLReqs) : ReqOK(q)
  <2>1. /\ PlainReads \cup {"Get", "Type", "Persist", "LPop", "RPop"} \subseteq Methods \ {"Rename"}
        /\ {"Del", "Exists"} \subseteq Methods \ {"Rename"}
        /\ {"Set"} \subseteq Methods \ {"Rename"}
        /\ {"Expire"} \subseteq Methods \ {"Rename"}
    BY DEF Methods, PlainReads, HashReads, ListReads, SetReads, ZSetReads
  <2>2. /\ (PlainReads \cup {"Get", "Type", "Persist", "LPop", "RPop"}) \cap ElemWrites = {}
        /\ {"Del", "Exists"} \cap ElemWrites = {}
        /\ {"Set"} \cap ElemWrites = {} /\ {"Expire"} \cap ElemWrites = {}
    BY DEF PlainReads, HashReads, ListReads, SetReads, ZSetReads, ElemWrites
  <2> QED
    BY <1>2, <1>3, <1>5, <1>8, <1>10, <2>1, <2>2
<1>14. /\ \A q \in Calls({"HSet"}, ElemValReqs) : ReqOK(q)
       /\ \A q \in Calls({"HIncrBy", "ZAdd", "ZIncrBy"}, ElemNumReqs) : ReqOK(q)
       /\ \A q \in Calls({"HGet", "HDel", "SAdd", "SRem", "ZRem"}, ElemReqs) : ReqOK(q)
       /\ \A q \in Calls({"LPush", "RPush"}, ValReqs) : ReqOK(q)
       /\ \A q \in Calls({"LSet", "LRem"}, ValNumReqs) : ReqOK(q)
  <2>1. /\ {"HSet"} \subseteq Methods \ {"Rename"}
        /\ {"HIncrBy", "ZAdd", "ZIncrBy"} \subseteq Methods \ {"Rename"}
        /\ {"HGet", "HDel", "SAdd", "SRem", "ZRem"} \subseteq Methods \ {"Rename"}
        /\ {"LPush", "RPush"} \subseteq Methods \ {"Rename"}
        /\ {"LSet", "LRem"} \subseteq Methods \ {"Rename"}
    BY DEF Methods, Creators
  <2>2. {"LPush", "RPush"} \cap ElemWrites = {} /\ {"LSet", "LRem"} \cap ElemWrites = {}
    BY DEF ElemWrites
  <2> QED
    BY <1>5, <1>6, <1>7, <1>a, <1>10, <2>1, <2>2
<1> HIDE DEF Named
<1> QED
  BY <1>11, <1>12, <1>13, <1>14 DEF Requests

-----------------------------------------------------------------------------
(* The inductive invariant: types, a correct store, and of every call under*)
(* way: its loop index is within its keys, it holds the lock its pc says,  *)
(* and the key it is about to insert is absent.                            *)
Inserting == {"load", "evict", "insert"}

CallOK(o, c, lk, st) ==
  /\ o.pc # "idle" => ReqOK(o.req)
  /\ o.pc # "idle" /\ o.req.name \notin ShardLoops => o.i \in 1..Len(o.req.keys)
  /\ o.pc \in Inserting => /\ o.req.name \in Creators \cup {"Set"}
                           /\ lk[ShardOf(o.req.keys[o.i])] = c
                           /\ ~Present(st, o.req.keys[o.i])
  /\ o.pc = "second" => /\ o.req.name = "Rename"
                        /\ ShardOf(o.req.keys[1]) # ShardOf(o.req.keys[2])
                        /\ lk[IF ShardOf(o.req.keys[1]) > ShardOf(o.req.keys[2])
                              THEN ShardOf(o.req.keys[2]) ELSE ShardOf(o.req.keys[1])] = c

Inv ==
  /\ TypeOK
  /\ StoreOK(store)
  /\ \A c \in Clients : CallOK(op[c], c, lock, store)

(* The keys of a call that is not a shard loop are keys. *)
LEMMA KeysOK ==
  ASSUME NEW o \in OpType, ReqOK(o.req), o.req.name \notin ShardLoops,
         o.i \in 1..Len(o.req.keys)
  PROVE  /\ o.req.keys[o.i] \in Keys
         /\ ShardOf(o.req.keys[o.i]) \in Shards
<1>1. o.req.keys \in Seq(Keys)
  BY DEF ReqOK, ReqType
<1>2. o.req.keys[o.i] \in Keys
  BY <1>1
<1> QED
  BY <1>2, ShardAssumption DEF ShardOf

(* The part of the store's correctness that TypeOK states. *)
LEMMA StoreTypes ==
  ASSUME NEW s, StoreOK(s)
  PROVE  /\ \A k \in Keys : EntryOK(s.data[k])
         /\ s.ttlKeys \subseteq Keys
         /\ s.versions \in [Keys -> Nat]
         /\ s.entryCount \in Int
  BY PresentFinite DEF StoreOK

(* A step of client c keeps the invariant if it leads to a good store, can *)
(* only bring in keys of shards that are free or c's, passes locks only    *)
(* between Free and c, and leaves c's call in order.                       *)
LEMMA ClientStep ==
  ASSUME Inv, NEW c \in Clients, NEW x \in OpType, x.now <= clock,
         op' = [op EXCEPT ![c] = x],
         NEW S, Good(store, store', S),
         \A k \in S : lock[ShardOf(k)] \in {Free, c},
         lock' \in [Shards -> Clients \cup {Free}],
         \A sh \in Shards : \/ lock'[sh] = lock[sh]
                            \/ lock[sh] \in {Free, c} /\ lock'[sh] \in {Free, c},
         CallOK(x, c, lock', store'),
         clock' = clock, reaper' = reaper, cancelled' = cancelled,
         issued' \in 0..MaxOps
  PROVE  Inv'
<1> USE DEF Inv
<1>1. StoreOK(store')
  BY DEF Good
<1>2. op' \in [Clients -> OpType] /\ op'[c] = x /\ \A d \in Clients \ {c} : op'[d] = op[d]
  BY DEF TypeOK
<1>3. \A d \in Clients : op'[d].now <= clock'
  BY <1>2 DEF TypeOK
<1>4. TypeOK'
  <2>1. /\ \A k \in Keys : EntryOK(store'.data[k])
        /\ store'.ttlKeys \subseteq Keys
        /\ store'.versions \in [Keys -> Nat]
        /\ store'.entryCount \in Int
    BY <1>1, StoreTypes
  <2> QED
    BY <1>2, <1>3, <2>1 DEF TypeOK
<1>5. ASSUME NEW d \in Clients \ {c} PROVE CallOK(op[d], d, lock', store')
  <2> DEFINE o == op[d]
  <2>1. CallOK(o, d, lock, store) /\ o \in OpType
    BY DEF TypeOK
  <2>2. d \notin {Free, c}
    BY ClientAssumption
  <2>3. CASE o.pc \in Inserting
    <3>0. o.pc # "idle" /\ o.pc # "second"
      BY <2>3 DEF Inserting
    <3>1. o.req.name \notin ShardLoops
      BY <2>1, <2>3 DEF CallOK, Creators, ShardLoops
    <3>2. o.req.keys[o.i] \in Keys /\ ShardOf(o.req.keys[o.i]) \in Shards
      BY <2>1, <3>0, <3>1, KeysOK DEF CallOK
    <3>3. lock'[ShardOf(o.req.keys[o.i])] = d
      BY <2>1, <2>2, <2>3, <3>2 DEF CallOK
    <3>4. o.req.keys[o.i] \notin S
      BY <2>1, <2>2, <2>3, <3>2 DEF CallOK
    <3>5. ~Present(store', o.req.keys[o.i])
      BY <2>1, <2>3, <3>2, <3>4 DEF CallOK, Good, PresentKeys
    <3> QED
      BY <2>1, <2>3, <3>0, <3>3, <3>5 DEF CallOK
  <2>4. CASE o.pc = "second"
    <3>1. o.req.keys \in Seq(Keys) /\ Len(o.req.keys) = 2
      BY <2>1, <2>4 DEF CallOK, ReqOK, ReqType
    <3>2. o.req.keys[1] \in Keys /\ o.req.keys[2] \in Keys
      BY <3>1
    <3>3. ShardOf(o.req.keys[1]) \in Shards /\ ShardOf(o.req.keys[2]) \in Shards
      BY <3>2, ShardAssumption DEF ShardOf
    <3> QED
      BY <2>1, <2>2, <2>4, <3>3 DEF CallOK, Inserting
  <2>5. CASE o.pc \notin Inserting /\ o.pc # "second"
    BY <2>1, <2>5 DEF CallOK
  <2> QED
    BY <2>3, <2>4, <2>5
<1>6. \A d \in Clients : CallOK(op'[d], d, lock', store')
  BY <1>2, <1>5
<1> QED
  BY <1>1, <1>4, <1>6

-----------------------------------------------------------------------------
(* The steps of one client, action by action. *)

(* The keys a step may bring into being: the one an insertion is about to  *)
(* store, or, with a rename under way, any.                                *)
Arriving ==
  {k \in Keys :
     \E c \in Clients :
       \/ op[c].pc = "insert" /\ k = Key(c)
       \/ op[c].pc # "idle" /\ Req(c).name = "Rename"}

(* What a step has to show. *)
StepOK ==
  /\ Inv'
  /\ Evolves(store, store')
  /\ PresentKeys(store') \subseteq PresentKeys(store) \cup Arriving

LEMMA IdleOK == Idle \in OpType /\ \A c, lk, st : CallOK(Idle, c, lk, st)
<1>1. <<>> \in Seq(Keys)
  OBVIOUS
<1>2. NoReq \in ReqType
  BY <1>1 DEF NoReq, ReqType
<1>3. {} \in SUBSET Keys
  OBVIOUS
<1> QED
  BY <1>2, <1>3 DEF Idle, Call, OpType, CallOK, Inserting

(* Moving a call on keeps its type. *)
LEMMA CallType ==
  ASSUME NEW o \in OpType
  PROVE  /\ \A pc \in {"idle", "run", "load", "evict", "insert", "second"} :
              AtPC(o, pc) \in OpType
         /\ AtNext(o) \in OpType
         /\ \A ks \in SUBSET Keys : Collected(o, ks) \in OpType
<1>1. o.i + 1 \in Nat \ {0}
  BY DEF OpType
<1>2. \A ks \in SUBSET Keys : o.acc \cup ks \in SUBSET Keys
  BY DEF OpType
<1>3. /\ o.req \in ReqType /\ o.now \in Nat /\ o.i \in Nat \ {0} /\ o.acc \in SUBSET Keys
      /\ o.snap \in [Keys -> Nat] \cup {<<>>}
      /\ o.pc \in {"idle", "run", "load", "evict", "insert", "second"}
  BY DEF OpType
<1>4. ASSUME NEW pc \in {"idle", "run", "load", "evict", "insert", "second"},
             NEW i \in Nat \ {0}, NEW acc \in SUBSET Keys
      PROVE  Call(pc, o.req, o.now, i, acc, o.snap) \in OpType
  BY <1>3 DEF Call, OpType
<1> QED
  BY <1>1, <1>2, <1>3, <1>4 DEF AtPC, AtNext, Collected

(* A step of one client that leaves the locks alone and brings in no key.  *)
LEMMA LocalStep ==
  ASSUME Inv, NEW c \in Clients, NEW x \in OpType, x.now <= clock,
         op' = [op EXCEPT ![c] = x], Good(store, store', {}),
         CallOK(x, c, lock', store'),
         UNCHANGED <<lock, clock, reaper, cancelled, issued>>
  PROVE  StepOK
<1>1. /\ lock' = lock /\ clock' = clock /\ reaper' = reaper /\ cancelled' = cancelled
      /\ lock' \in [Shards -> Clients \cup {Free}] /\ issued' \in 0..MaxOps
  BY DEF Inv, TypeOK
<1> DEFINE S == {}
<1>2. Good(store, store', S) /\ \A k \in S : lock[ShardOf(k)] \in {Free, c}
  OBVIOUS
<1>3. \A sh \in Shards : \/ lock'[sh] = lock[sh]
                         \/ lock[sh] \in {Free, c} /\ lock'[sh] \in {Free, c}
  BY <1>1
<1> HIDE DEF S
<1>4. Inv'
  BY <1>1, <1>2, <1>3, ClientStep
<1> QED
  BY <1>4 DEF StepOK, Good

LEMMA FinishStep ==
  ASSUME Inv, NEW c \in Clients, NEW st, Finish(c, st),
         NEW S, Good(store, st, S), \A k \in S : lock[ShardOf(k)] \in {Free, c},
         S \subseteq Arriving
  PROVE  StepOK
<1>1. /\ store' = st /\ op' = [op EXCEPT ![c] = Idle] /\ lock' = lock
      /\ clock' = clock /\ reaper' = reaper /\ cancelled' = cancelled /\ issued' = issued
  BY DEF Finish
<1>2. /\ Idle.now <= clock /\ lock' \in [Shards -> Clients \cup {Free}]
      /\ issued' \in 0..MaxOps
  BY <1>1 DEF Inv, TypeOK, Idle, Call
<1>3. Good(store, store', S)
  BY <1>1
<1>4. Inv'
  BY <1>1, <1>2, <1>3, IdleOK, ClientStep
<1> QED
  BY <1>3, <1>4 DEF StepOK, Good

(* What a call knows when it gets its shard's lock. *)
LEMMA RunningFacts ==
  ASSUME Inv, NEW c \in Clients, NEW names, Running(c, names), names \cap ShardLoops = {}
  PROVE  /\ Key(c) \in Keys /\ Sh(c) \in Shards /\ lock[Sh(c)] = Free
         /\ Now(c) \in Nat /\ Req(c).num \in Int
         /\ op[c] \in OpType /\ ReqOK(Req(c))
         /\ op[c].i \in 1..Len(Req(c).keys)
         /\ Good(store, Fetched(c), {}) /\ StoreOK(Fetched(c))
<1>1. /\ op[c] \in OpType /\ CallOK(op[c], c, lock, store)
      /\ op[c].pc = "run" /\ op[c].req.name \in names /\ lock[Sh(c)] = Free
  BY DEF Inv, TypeOK, Running
<1>2. ReqOK(op[c].req) /\ op[c].i \in 1..Len(op[c].req.keys)
  BY <1>1 DEF CallOK
<1>3. Key(c) \in Keys /\ Sh(c) \in Shards
  BY <1>1, <1>2, KeysOK DEF Key, Sh
<1>4. Good(store, Fetched(c), {})
  BY <1>3, FetchGood DEF Inv, Fetched
<1> QED
  BY <1>1, <1>2, <1>3, <1>4 DEF Now, Req, Good, OpType, ReqOK, ReqType

(* A call that ends in a good successor of the store it fetched.           *)
LEMMA FetchedStep ==
  ASSUME Inv, NEW c \in Clients, NEW names, Running(c, names), names \cap ShardLoops = {},
         NEW st, Good(Fetched(c), st, {}), Finish(c, st)
  PROVE  StepOK
<1>1. Good(store, st, {})
  BY RunningFacts, GoodTrans DEF Inv
<1> QED
  BY <1>1, FinishStep

LEMMA ReadStep ==
  ASSUME Inv, NEW c \in Clients,
         TTL(c) \/ HashRead(c) \/ ListRead(c) \/ SetRead(c) \/ ZSetRead(c)
  PROVE  StepOK
<1>1. PICK names \in {{"TTL"}, HashReads, ListReads, SetReads, ZSetReads} :
        Running(c, names) /\ Finish(c, Fetched(c))
  BY DEF TTL, HashRead, ListRead, SetRead, ZSetRead
<1>2. names \cap ShardLoops = {}
  BY DEF HashReads, ListReads, SetReads, ZSetReads, ShardLoops
<1>3. Good(Fetched(c), Fetched(c), {})
  BY <1>1, <1>2, RunningFacts, GoodRefl
<1> QED
  BY <1>1, <1>2, <1>3, FetchedStep

(* Reads that record the access. *)
LEMMA TouchFetched ==
  ASSUME NEW s, StoreOK(s), NEW k \in Keys, NEW now \in Nat
  PROVE  Good(s, Mutate(s, k, Touched(s.data[k], now)), {})
<1> DEFINE e == Touched(s.data[k], now)
<1>1. /\ EntryOK(e) /\ e.kind = s.data[k].kind /\ e.val = s.data[k].val
      /\ e.expiresAt = s.data[k].expiresAt
  BY DEF StoreOK, EntryOK, Touched, Entry
<1> HIDE DEF e
<1>2. Good(s, Mutate(s, k, e), {})
  BY <1>1, TouchGood
<1> QED
  BY <1>2 DEF e

LEMMA GetStep ==
  ASSUME Inv, NEW c \in Clients, Get(c) \/ HGet(c)
  PROVE  StepOK
<1> DEFINE st == Fetched(c)
           touched == Mutate(st, Key(c), Touched(st.data[Key(c)], Now(c)))
<1>1. PICK names \in {{"Get"}, {"HGet"}} :
        Running(c, names) /\ (Finish(c, st) \/ Finish(c, touched))
  BY DEF Get, HGet
<1>2. names \cap ShardLoops = {}
  BY DEF ShardLoops
<1>3. StoreOK(st) /\ Key(c) \in Keys /\ Now(c) \in Nat
  BY <1>1, <1>2, RunningFacts
<1> HIDE DEF st
<1>4. Good(st, st, {}) /\ Good(st, touched, {})
  BY <1>3, GoodRefl, TouchFetched
<1> HIDE DEF touched
<1> QED
  BY <1>1, <1>2, <1>4, FetchedStep DEF st

(* The loops over a request's keys. *)
LEMMA NextKeyStep ==
  ASSUME Inv, NEW c \in Clients, NEW names, Running(c, names), names \cap ShardLoops = {},
         NEW st, Good(store, st, {}), NextKey(c, st)
  PROVE  StepOK
<1> DEFINE x == IF op[c].i < Len(op[c].req.keys) THEN AtNext(op[c]) ELSE Idle
<1>1. /\ store' = st /\ op' = [op EXCEPT ![c] = x] /\ lock' = lock
      /\ clock' = clock /\ reaper' = reaper /\ cancelled' = cancelled /\ issued' = issued
  BY DEF NextKey
<1>2. /\ op[c] \in OpType /\ ReqOK(op[c].req) /\ op[c].pc = "run"
      /\ op[c].i \in 1..Len(op[c].req.keys) /\ op[c].now <= clock
  BY RunningFacts DEF Req, Running, Inv, TypeOK
<1>3. Len(op[c].req.keys) \in Nat
  BY <1>2 DEF ReqOK, ReqType
<1>4. CASE op[c].i < Len(op[c].req.keys)
  <2>1. /\ x \in OpType /\ x.pc = "run" /\ x.req = op[c].req
        /\ x.i = op[c].i + 1 /\ x.now = op[c].now
    BY <1>2, <1>4, CallType DEF AtNext, Call
  <2>2. x.i \in 1..Len(x.req.keys)
    BY <1>2, <1>3, <1>4, <2>1
  <2> HIDE DEF x
  <2>3. CallOK(x, c, lock', store')
    BY <1>2, <2>1, <2>2 DEF CallOK, Inserting
  <2> QED
    BY <1>1, <1>2, <2>1, <2>3, LocalStep
<1>5. CASE ~(op[c].i < Len(op[c].req.keys))
  <2>1. Finish(c, st)
    BY <1>1, <1>5 DEF Finish
  <2> QED
    BY <2>1, FinishStep
<1> QED
  BY <1>4, <1>5

LEMMA ExistsStep ==
  ASSUME Inv, NEW c \in Clients, Exists(c) \/ Type(c)
  PROVE  StepOK
<1>1. PICK names \in {{"Exists"}, {"Type"}} :
        Running(c, names) /\ (NextKey(c, store) \/ Finish(c, store))
  BY DEF Exists, Type
<1>2. names \cap ShardLoops = {}
  BY DEF ShardLoops
<1>3. Good(store, store, {})
  BY GoodRefl DEF Inv
<1> QED
  BY <1>1, <1>2, <1>3, NextKeyStep, FinishStep

LEMMA DelStep ==
  ASSUME Inv, NEW c \in Clients, Del(c)
  PROVE  StepOK
<1> DEFINE f  == Fetched(c)
           st == IF Present(f, Key(c)) THEN Remove(f, Key(c)) ELSE f
<1>1. Running(c, {"Del"}) /\ NextKey(c, st)
  BY DEF Del
<1>2. {"Del"} \cap ShardLoops = {}
  BY DEF ShardLoops
<1>3. Good(store, f, {}) /\ StoreOK(f) /\ Key(c) \in Keys
  BY <1>1, <1>2, RunningFacts
<1>4. Good(f, st, {})
  BY <1>3, RemoveGood, GoodRefl
<1> HIDE DEF f, st
<1>5. Good(store, st, {})
  BY <1>3, <1>4, GoodTrans DEF Inv
<1> QED
  BY <1>1, <1>2, <1>5, NextKeyStep

LEMMA ExpireStep ==
  ASSUME Inv, NEW c \in Clients, Expire(c) \/ Persist(c)
  PROVE  StepOK
<1> DEFINE f == Fetched(c)
<1>1. PICK names \in {{"Expire"}, {"Persist"}} :
        /\ Running(c, names)
        /\ \E st : /\ Finish(c, st)
                   /\ \/ st = f
                      \/ st = Remove(f, Key(c))
                      \/ Present(f, Key(c)) /\ Req(c).num > 0 /\ st = setExpiryLocked(f, Key(c), Now(c) + Req(c).num)
                      \/ Present(f, Key(c)) /\ st = setExpiryLocked(f, Key(c), NoTTL)
  <2>1. CASE Expire(c)
    <3>1. Req(c).num \in Int
      BY <2>1, RunningFacts DEF Expire, ShardLoops
    <3> QED
      BY <2>1, <3>1 DEF Expire
  <2>2. CASE Persist(c)
    BY <2>2 DEF Persist
  <2> QED
    BY <2>1, <2>2
<1>2. names \cap ShardLoops = {}
  BY DEF ShardLoops
<1>3. StoreOK(f) /\ Key(c) \in Keys /\ Now(c) \in Nat /\ Req(c).num \in Int
  BY <1>1, <1>2, RunningFacts
<1>4. PICK st : /\ Finish(c, st)
                /\ \/ st = f
                   \/ st = Remove(f, Key(c))
                   \/ Present(f, Key(c)) /\ Req(c).num > 0 /\ st = setExpiryLocked(f, Key(c), Now(c) + Req(c).num)
                   \/ Present(f, Key(c)) /\ st = setExpiryLocked(f, Key(c), NoTTL)
  BY <1>1
<1>5. Req(c).num > 0 => Now(c) + Req(c).num \in Nat
  BY <1>3
<1> HIDE DEF f
<1>6. Good(f, st, {})
  BY <1>3, <1>4, <1>5, GoodRefl, RemoveGood, SetExpiryGood
<1> QED
  BY <1>1, <1>2, <1>4, <1>6, FetchedStep DEF f

(* Listing and flushing, shard by shard. *)
LEMMA ListingStep ==
  ASSUME Inv, NEW c \in Clients, CollectKeys(c) \/ ReturnKeys(c)
  PROVE  StepOK
<1>0. Good(store, store, {}) /\ op[c] \in OpType /\ CallOK(op[c], c, lock, store)
  BY GoodRefl DEF Inv, TypeOK
<1>1. CASE ReturnKeys(c)
  BY <1>0, <1>1, FinishStep DEF ReturnKeys
<1>2. CASE CollectKeys(c)
  <2> DEFINE found == {k \in Resident(store, op[c].i - 1) : k[1] = Req(c).ws /\ Live(store, k, Now(c))}
             x == Collected(op[c], found)
  <2>1. found \subseteq Keys
    BY DEF Resident
  <2> HIDE DEF found
  <2>2. /\ op' = [op EXCEPT ![c] = x] /\ store' = store /\ lock' = lock
        /\ clock' = clock /\ reaper' = reaper /\ cancelled' = cancelled /\ issued' = issued
        /\ op[c].pc = "run" /\ op[c].req.name \in {"Keys", "Scan"}
    BY <1>2, <1>0 DEF CollectKeys, found, Req
  <2>3. x \in OpType /\ x.pc = "run" /\ x.req = op[c].req /\ x.now = op[c].now
    BY <1>0, <2>1, <2>2, CallType DEF Collected, Call
  <2> HIDE DEF x
  <2>4. CallOK(x, c, lock', store')
    BY <1>0, <2>2, <2>3 DEF CallOK, Inserting, ShardLoops
  <2>5. op[c].now <= clock
    BY DEF Inv, TypeOK
  <2> QED
    BY <1>0, <2>2, <2>3, <2>4, <2>5, LocalStep
<1> QED
  BY <1>1, <1>2

LEMMA FlushStep ==
  ASSUME Inv, NEW c \in Clients, FlushDB(c)
  PROVE  StepOK
<1> DEFINE S == {k \in Resident(store, op[c].i - 1) : k[1] = Req(c).ws}
           x == IF op[c].i < NumShards THEN AtNext(op[c]) ELSE Idle
<1>0. op[c] \in OpType /\ CallOK(op[c], c, lock, store)
  BY DEF Inv, TypeOK
<1>1. S \subseteq PresentKeys(store)
  BY DEF Resident, PresentKeys
<1> HIDE DEF S
<1>2. /\ op' = [op EXCEPT ![c] = x] /\ store' = RemoveAll(store, S) /\ lock' = lock
      /\ clock' = clock /\ reaper' = reaper /\ cancelled' = cancelled /\ issued' = issued
      /\ op[c].pc = "run" /\ op[c].req.name = "FlushDB"
  BY DEF FlushDB, S, Req
<1>3. Good(store, store', {})
  BY <1>1, <1>2, RemoveAllGood DEF Inv
<1>4. x \in OpType /\ x.now <= clock /\ CallOK(x, c, lock', store')
  <2>1. CASE op[c].i < NumShards
    <3>1. x \in OpType /\ x.pc = "run" /\ x.req = op[c].req /\ x.now = op[c].now
      BY <1>0, <1>2, <2>1, CallType DEF AtNext, Call
    <3> HIDE DEF x
    <3> QED
      BY <1>0, <1>2, <3>1 DEF CallOK, Inserting, ShardLoops, Inv, TypeOK
  <2>2. CASE ~(op[c].i < NumShards)
    <3>1. x = Idle
      BY <2>2
    <3>2. Idle.now <= clock
      BY DEF Idle, Call, Inv, TypeOK
    <3> QED
      BY <3>1, <3>2, IdleOK
  <2> QED
    BY <2>1, <2>2
<1> HIDE DEF x
<1> QED
  BY <1>2, <1>3, <1>4, LocalStep

(* The keys and shards of a rename. *)
LEMMA RenameFacts ==
  ASSUME Inv, NEW c \in Clients, op[c].pc # "idle", op[c].req.name = "Rename"
  PROVE  /\ OldKey(c) \in Keys /\ NewKey(c) \in Keys
         /\ ShardOf(OldKey(c)) \in Shards /\ ShardOf(NewKey(c)) \in Shards
         /\ RenameOrder(c)[1] \in Shards /\ RenameOrder(c)[2] \in Shards
         /\ RenameOrder(c)[1] = IF ShardOf(OldKey(c)) > ShardOf(NewKey(c))
                                THEN ShardOf(NewKey(c)) ELSE ShardOf(OldKey(c))
         /\ ShardOf(NewKey(c)) \in {RenameOrder(c)[1], RenameOrder(c)[2]}
         /\ op[c] \in OpType /\ ReqOK(op[c].req) /\ op[c].i \in 1..Len(op[c].req.keys)
         /\ CallOK(op[c], c, lock, store) /\ Now(c) \in Nat /\ op[c].now <= clock
<1>1. op[c] \in OpType /\ CallOK(op[c], c, lock, store) /\ op[c].now <= clock
  BY DEF Inv, TypeOK
<1>2. ReqOK(op[c].req) /\ Len(op[c].req.keys) = 2 /\ op[c].i \in 1..Len(op[c].req.keys)
  BY <1>1 DEF CallOK, ReqOK, ShardLoops
<1>3. op[c].req.keys \in Seq(Keys)
  BY <1>2 DEF ReqOK, ReqType
<1>4. OldKey(c) \in Keys /\ NewKey(c) \in Keys
  BY <1>2, <1>3 DEF OldKey, NewKey, Req
<1>5. ShardOf(OldKey(c)) \in Shards /\ ShardOf(NewKey(c)) \in Shards
  BY <1>4, ShardAssumption DEF ShardOf
<1>6. Now(c) \in Nat
  BY <1>1 DEF Now, OpType
<1> QED
  BY <1>1, <1>2, <1>4, <1>5, <1>6 DEF RenameOrder

LEMMA RenameWithinStep ==
  ASSUME Inv, NEW c \in Clients, RenameWithinShard(c)
  PROVE  StepOK
<1> DEFINE st == Moved(store, OldKey(c), NewKey(c), Now(c))
           S  == {NewKey(c)}
<1>1. /\ op[c].pc = "run" /\ op[c].req.name = "Rename" /\ lock[Sh(c)] = Free
      /\ ShardOf(OldKey(c)) = ShardOf(NewKey(c)) /\ Finish(c, st)
  BY DEF RenameWithinShard, Running
<1>2. OldKey(c) \in Keys /\ NewKey(c) \in Keys /\ op[c].i \in 1..2
  <2>1. ReqOK(op[c].req) /\ op[c].i \in 1..Len(op[c].req.keys)
    BY <1>1, RenameFacts
  <2> QED
    BY <1>1, <2>1, RenameFacts DEF ReqOK
<1>3. Sh(c) = ShardOf(NewKey(c))
  BY <1>1, <1>2 DEF Sh, Key, OldKey, NewKey, Req
<1>4. Good(store, st, S)
  BY <1>2, MovedGood DEF Inv
<1>5. \A k \in S : lock[ShardOf(k)] \in {Free, c}
  BY <1>1, <1>3
<1>6. S \subseteq Arriving
  BY <1>1, <1>2 DEF Arriving, Req
<1> HIDE DEF st, S
<1> QED
  BY <1>1, <1>4, <1>5, <1>6, FinishStep

LEMMA RenameLockStep ==
  ASSUME Inv, NEW c \in Clients, RenameLockFirst(c)
  PROVE  StepOK
<1> DEFINE x  == AtPC(op[c], "second")
           sh == RenameOrder(c)[1]
           S  == {}
<1>1. /\ op[c].pc = "run" /\ op[c].req.name = "Rename" /\ lock[sh] = Free
      /\ ShardOf(OldKey(c)) # ShardOf(NewKey(c))
      /\ lock' = [lock EXCEPT ![sh] = c] /\ op' = [op EXCEPT ![c] = x]
      /\ store' = store /\ clock' = clock /\ reaper' = reaper
      /\ cancelled' = cancelled /\ issued' = issued
  BY DEF RenameLockFirst, Req
<1>2. /\ sh \in Shards /\ op[c] \in OpType /\ op[c].now <= clock /\ ReqOK(op[c].req)
      /\ sh = IF ShardOf(OldKey(c)) > ShardOf(NewKey(c))
              THEN ShardOf(NewKey(c)) ELSE ShardOf(OldKey(c))
      /\ op[c].i \in 1..Len(op[c].req.keys)
  BY <1>1, RenameFacts
<1>3. /\ x \in OpType /\ x.pc = "second" /\ x.req = op[c].req
      /\ x.i = op[c].i /\ x.now = op[c].now
  BY <1>2, CallType DEF AtPC, Call
<1> HIDE DEF x, sh
<1>4. lock \in [Shards -> Clients \cup {Free}] /\ issued \in 0..MaxOps
  BY DEF Inv, TypeOK
<1>5. /\ lock' \in [Shards -> Clients \cup {Free}] /\ lock'[sh] = c
      /\ \A z \in Shards : \/ lock'[z] = lock[z]
                           \/ lock[z] \in {Free, c} /\ lock'[z] \in {Free, c}
  BY <1>1, <1>2, <1>4
<1>6. CallOK(x, c, lock', store')
  BY <1>1, <1>2, <1>3, <1>5 DEF CallOK, Inserting, OldKey, NewKey, Req
<1>7. Good(store, store', S) /\ \A k \in S : lock[ShardOf(k)] \in {Free, c}
  BY <1>1, GoodRefl DEF Inv
<1> HIDE DEF S
<1>8. Inv'
  BY <1>1, <1>2, <1>3, <1>4, <1>5, <1>6, <1>7, ClientStep
<1> QED
  BY <1>7, <1>8 DEF StepOK, Good, S

LEMMA RenameAcrossStep ==
  ASSUME Inv, NEW c \in Clients, RenameAcrossShards(c)
  PROVE  StepOK
<1> DEFINE sh == RenameOrder(c)[1]
           S  == {NewKey(c)}
<1>1. /\ op[c].pc = "second" /\ lock[RenameOrder(c)[2]] = Free
      /\ store' = Moved(store, OldKey(c), NewKey(c), Now(c))
      /\ lock' = [lock EXCEPT ![sh] = Free] /\ op' = [op EXCEPT ![c] = Idle]
      /\ clock' = clock /\ reaper' = reaper /\ cancelled' = cancelled /\ issued' = issued
  BY DEF RenameAcrossShards
<1>2. op[c].req.name = "Rename"
  BY <1>1 DEF Inv, CallOK
<1>3. /\ sh \in Shards /\ OldKey(c) \in Keys /\ NewKey(c) \in Keys
      /\ ShardOf(NewKey(c)) \in {sh, RenameOrder(c)[2]}
      /\ CallOK(op[c], c, lock, store)
      /\ sh = IF ShardOf(OldKey(c)) > ShardOf(NewKey(c))
              THEN ShardOf(NewKey(c)) ELSE ShardOf(OldKey(c))
  BY <1>1, <1>2, RenameFacts
<1> HIDE DEF sh
<1>4. lock[sh] = c
  BY <1>1, <1>3 DEF CallOK, OldKey, NewKey, Req
<1>5. lock \in [Shards -> Clients \cup {Free}] /\ issued' \in 0..MaxOps /\ Idle.now <= clock
  BY <1>1 DEF Inv, TypeOK, Idle, Call
<1>6. /\ lock' \in [Shards -> Clients \cup {Free}]
      /\ \A z \in Shards : \/ lock'[z] = lock[z]
                           \/ lock[z] \in {Free, c} /\ lock'[z] \in {Free, c}
  BY <1>1, <1>3, <1>4, <1>5
<1>7. Good(store, store', S)
  BY <1>1, <1>3, MovedGood DEF Inv
<1>8. \A k \in S : lock[ShardOf(k)] \in {Free, c}
  BY <1>1, <1>3, <1>4
<1>9. S \subseteq Arriving
  BY <1>1, <1>2, <1>3 DEF Arriving, Req
<1> HIDE DEF S
<1>10. Inv'
  BY <1>1, <1>5, <1>6, <1>7, <1>8, IdleOK, ClientStep, ZenonT(40)
<1> QED
  BY <1>7, <1>9, <1>10 DEF StepOK, Good

(* Inserting a new key, from the lookup to the insertion. *)
LEMMA EnterInsertStep ==
  ASSUME Inv, NEW c \in Clients, NEW names, Running(c, names),
         names \subseteq Creators \cup {"Set"}, names \cap ShardLoops = {},
         NEW st, Good(store, st, {}), ~Present(st, Key(c)), EnterInsert(c, st)
  PROVE  StepOK
<1> DEFINE x == AtPC(op[c], "load")
           S == {}
<1>1. /\ store' = st /\ lock' = [lock EXCEPT ![Sh(c)] = c] /\ op' = [op EXCEPT ![c] = x]
      /\ clock' = clock /\ reaper' = reaper /\ cancelled' = cancelled /\ issued' = issued
  BY DEF EnterInsert
<1>2. /\ Sh(c) \in Shards /\ lock[Sh(c)] = Free /\ op[c] \in OpType
      /\ ReqOK(op[c].req) /\ op[c].i \in 1..Len(op[c].req.keys)
      /\ op[c].req.name \in Creators \cup {"Set"}
  BY RunningFacts DEF Req, Running
<1>3. /\ x \in OpType /\ x.pc = "load" /\ x.req = op[c].req
      /\ x.i = op[c].i /\ x.now = op[c].now
  BY <1>2, CallType DEF AtPC, Call
<1> HIDE DEF x
<1>4. /\ lock \in [Shards -> Clients \cup {Free}] /\ issued \in 0..MaxOps
      /\ op[c].now <= clock
  BY DEF Inv, TypeOK
<1>5. /\ lock' \in [Shards -> Clients \cup {Free}] /\ lock'[Sh(c)] = c
      /\ \A z \in Shards : \/ lock'[z] = lock[z]
                           \/ lock[z] \in {Free, c} /\ lock'[z] \in {Free, c}
  BY <1>1, <1>2, <1>4
<1>6. CallOK(x, c, lock', store')
  BY <1>1, <1>2, <1>3, <1>5 DEF CallOK, Sh, Key
<1>7. Good(store, store', S) /\ \A k \in S : lock[ShardOf(k)] \in {Free, c}
  BY <1>1
<1> HIDE DEF S
<1>8. Inv'
  BY <1>1, <1>3, <1>4, <1>5, <1>6, <1>7, ClientStep
<1> QED
  BY <1>7, <1>8 DEF StepOK, Good, S

LEMMA NewStringOK ==
  ASSUME NEW r, r.num \in Int, NEW now \in Nat
  PROVE  EntryOK(NewString(r, now)) /\ NewString(r, now).kind = "string"
<1>1. r.num > 0 => now + r.num \in Nat
  OBVIOUS
<1> QED
  BY <1>1 DEF NewString, Entry, EntryOK, Kinds, NoTTL

LEMMA CreateStep ==
  ASSUME Inv, NEW c \in Clients, Create(c)
  PROVE  StepOK
<1> DEFINE st == Fetched(c)
           w  == Written(st, Key(c), Req(c), Now(c))
<1>1. /\ Running(c, Creators)
      /\ \/ Present(st, Key(c)) /\ (Finish(c, st) \/ Finish(c, w))
         \/ ~Present(st, Key(c)) /\ EnterInsert(c, st)
  BY DEF Create
<1>2. Creators \cap ShardLoops = {}
  BY DEF Creators, ShardLoops
<1>3. /\ StoreOK(st) /\ Good(store, st, {}) /\ Good(st, st, {})
      /\ Key(c) \in Keys /\ Now(c) \in Nat
  BY <1>1, <1>2, RunningFacts, GoodRefl
<1>4. CASE ~Present(st, Key(c))
  <2> HIDE DEF st
  <2> QED
    BY <1>1, <1>2, <1>3, <1>4, EnterInsertStep
<1>5. CASE Present(st, Key(c))
  <2> HIDE DEF st
  <2>1. Good(st, w, {})
    BY <1>3, <1>5, WrittenGood
  <2> HIDE DEF w
  <2> QED
    BY <1>1, <1>2, <1>3, <1>5, <2>1, FetchedStep DEF st
<1> QED
  BY <1>4, <1>5

LEMMA SetStep ==
  ASSUME Inv, NEW c \in Clients, Set(c)
  PROVE  StepOK
<1> DEFINE st == Fetched(c)
           n  == NewString(Req(c), Now(c))
           w  == setEntryLocked(st, Key(c), n)
<1>1. /\ Running(c, {"Set"})
      /\ \/ Finish(c, st)
         \/ Present(st, Key(c)) /\ Finish(c, w)
         \/ ~Present(st, Key(c)) /\ EnterInsert(c, st)
  BY DEF Set
<1>2. {"Set"} \cap ShardLoops = {} /\ {"Set"} \subseteq Creators \cup {"Set"}
  BY DEF ShardLoops
<1>3. /\ StoreOK(st) /\ Good(store, st, {}) /\ Good(st, st, {})
      /\ Key(c) \in Keys /\ Now(c) \in Nat /\ Req(c).num \in Int
  BY <1>1, <1>2, RunningFacts, GoodRefl
<1>4. EntryOK(n) /\ n.kind # "none"
  BY <1>3, NewStringOK
<1> HIDE DEF st, n
<1>5. Present(st, Key(c)) => Good(st, w, {})
  BY <1>3, <1>4, SetEntryGood
<1> HIDE DEF w
<1> QED
  BY <1>1, <1>2, <1>3, <1>5, FetchedStep, EnterInsertStep DEF st

(* What a call knows while it holds its key's shard. *)
LEMMA InsertingFacts ==
  ASSUME Inv, NEW c \in Clients, op[c].pc \in Inserting
  PROVE  /\ Key(c) \in Keys /\ Sh(c) \in Shards /\ lock[Sh(c)] = c
         /\ ~Present(store, Key(c)) /\ Now(c) \in Nat /\ Req(c).num \in Int
         /\ op[c] \in OpType /\ op[c].now <= clock /\ CallOK(op[c], c, lock, store)
<1>1. op[c] \in OpType /\ op[c].now <= clock /\ CallOK(op[c], c, lock, store)
  BY DEF Inv, TypeOK
<1>2. op[c].pc # "idle"
  BY DEF Inserting
<1>3. ReqOK(op[c].req) /\ op[c].req.name \notin ShardLoops
  BY <1>1, <1>2 DEF CallOK, Creators, ShardLoops
<1>4. op[c].i \in 1..Len(op[c].req.keys)
  BY <1>1, <1>2, <1>3 DEF CallOK
<1>5. Key(c) \in Keys /\ Sh(c) \in Shards
  BY <1>1, <1>3, <1>4, KeysOK DEF Key, Sh
<1>6. lock[Sh(c)] = c /\ ~Present(store, Key(c))
  BY <1>1 DEF CallOK, Key, Sh
<1>7. Now(c) \in Nat /\ Req(c).num \in Int
  BY <1>1, <1>3 DEF Now, Req, OpType, ReqOK, ReqType
<1> QED
  BY <1>1, <1>5, <1>6, <1>7

(* Moving on within an insertion, perhaps evicting another key. *)
LEMMA InsertingStep ==
  ASSUME Inv, NEW c \in Clients, op[c].pc \in Inserting, NEW pc \in Inserting,
         op' = [op EXCEPT ![c] = AtPC(op[c], pc)], Good(store, store', {}),
         UNCHANGED <<lock, clock, reaper, cancelled, issued>>
  PROVE  StepOK
<1> DEFINE x == AtPC(op[c], pc)
<1>1. /\ op[c] \in OpType /\ op[c].now <= clock /\ CallOK(op[c], c, lock, store)
      /\ Key(c) \in Keys /\ ~Present(store, Key(c)) /\ lock' = lock
  BY InsertingFacts
<1>2. ~Present(store', Key(c))
  BY <1>1 DEF Good, PresentKeys
<1>3. pc \in {"idle", "run", "load", "evict", "insert", "second"} /\ pc # "second" /\ pc # "idle"
  BY DEF Inserting
<1>4. /\ x \in OpType /\ x.pc = pc /\ x.req = op[c].req
      /\ x.i = op[c].i /\ x.now = op[c].now
  BY <1>1, <1>3, CallType DEF AtPC, Call
<1>5. op[c].pc # "idle"
  BY DEF Inserting
<1> HIDE DEF x
<1>6. CallOK(x, c, lock', store')
  BY <1>1, <1>2, <1>3, <1>4, <1>5 DEF CallOK, Key
<1> QED
  BY <1>1, <1>4, <1>6, LocalStep DEF x

LEMMA LoadCountStep ==
  ASSUME Inv, NEW c \in Clients, LoadCount(c)
  PROVE  StepOK
<1>1. PICK pc \in Inserting : op' = [op EXCEPT ![c] = AtPC(op[c], pc)]
  BY DEF LoadCount, Inserting
<1>2. op[c].pc \in Inserting
  BY DEF LoadCount, Inserting
<1>3. Good(store, store', {}) /\ UNCHANGED <<lock, clock, reaper, cancelled, issued>>
  BY GoodRefl DEF LoadCount, Inv
<1> QED
  BY <1>1, <1>2, <1>3, InsertingStep

LEMMA EvictStep ==
  ASSUME Inv, NEW c \in Clients, Evict(c)
  PROVE  StepOK
<1>1. /\ op' = [op EXCEPT ![c] = AtPC(op[c], "insert")]
      /\ UNCHANGED <<lock, clock, reaper, cancelled, issued>>
      /\ op[c].pc \in Inserting /\ "insert" \in Inserting
  BY DEF Evict, Inserting
<1>2. Victims(store, Sh(c), Now(c)) \subseteq Keys
  BY DEF Victims, Resident
<1>3. Good(store, store', {})
  BY <1>2, GoodRefl, RemoveGood DEF Evict, Inv
<1> QED
  BY <1>1, <1>3, InsertingStep

LEMMA InsertStep ==
  ASSUME Inv, NEW c \in Clients, Insert(c)
  PROVE  StepOK
<1> DEFINE k == Key(c)
           n == NewString(Req(c), Now(c))
           m == newEmptyEntry(KindOf(Req(c).name), Now(c))
           s == setEntryLocked(store, k, m)
           S == {k}
<1>1. /\ op[c].pc \in Inserting
      /\ store' = IF Req(c).name = "Set" THEN setEntryLocked(store, k, n)
                  ELSE Written(s, k, Req(c), Now(c))
      /\ lock' = [lock EXCEPT ![Sh(c)] = Free] /\ op' = [op EXCEPT ![c] = Idle]
      /\ clock' = clock /\ reaper' = reaper /\ cancelled' = cancelled /\ issued' = issued
  BY DEF Insert, Inserting
<1>2. /\ k \in Keys /\ Sh(c) \in Shards /\ lock[Sh(c)] = c
      /\ Now(c) \in Nat /\ Req(c).num \in Int /\ StoreOK(store)
  BY <1>1, InsertingFacts DEF Inv
<1>3. EntryOK(n) /\ n.kind # "none"
  BY <1>2, NewStringOK
<1>4. EntryOK(m) /\ m.kind # "none"
  <2>1. KindOf(Req(c).name) \in Kinds
    BY DEF KindOf, Kinds
  <2> QED
    BY <1>2, <2>1 DEF newEmptyEntry, Entry, EntryOK, Kinds, NoTTL
<1> HIDE DEF n, m
<1>5. Good(store, setEntryLocked(store, k, n), S)
  BY <1>2, <1>3, SetEntryGood
<1>6. Good(store, s, S) /\ StoreOK(s) /\ Present(s, k)
  <2>1. Good(store, s, S)
    BY <1>2, <1>4, SetEntryGood
  <2>2. s.data[k] = m
    BY <1>2 DEF setEntryLocked, bumpVersionLocked, Store, StoreOK
  <2> QED
    BY <1>4, <2>1, <2>2 DEF Good, Present
<1>7. S \subseteq Arriving /\ \A z \in S : lock[ShardOf(z)] \in {Free, c}
  <2>1. op[c].pc = "insert"
    BY DEF Insert
  <2>2. k \in Arriving
    BY <1>2, <2>1 DEF Arriving
  <2> QED
    BY <1>2, <2>2 DEF Sh
<1> HIDE DEF s
<1>8. Good(s, Written(s, k, Req(c), Now(c)), {})
  BY <1>2, <1>6, WrittenGood
<1>9. Good(store, Written(s, k, Req(c), Now(c)), S)
  BY <1>2, <1>6, <1>8, GoodTrans
<1>10. Good(store, store', S)
  BY <1>1, <1>5, <1>9
<1> HIDE DEF S
<1>11. lock \in [Shards -> Clients \cup {Free}] /\ issued' \in 0..MaxOps /\ Idle.now <= clock
  BY <1>1 DEF Inv, TypeOK, Idle, Call
<1>12. /\ lock' \in [Shards -> Clients \cup {Free}]
       /\ \A z \in Shards : \/ lock'[z] = lock[z]
                            \/ lock[z] \in {Free, c} /\ lock'[z] \in {Free, c}
  BY <1>1, <1>2, <1>11
<1>13. Inv'
  BY <1>1, <1>7, <1>10, <1>11, <1>12, IdleOK, ClientStep
<1> QED
  BY <1>7, <1>10, <1>13 DEF StepOK, Good

(* The writes to existing collections. *)
LEMMA CollectionStep ==
  ASSUME Inv, NEW c \in Clients, NEW names, Running(c, names), names \cap ShardLoops = {},
         NEW val, NEW st,
         Finish(c, st),
         \/ st = Fetched(c)
         \/ Present(Fetched(c), Key(c)) /\ st = Shrunk(Fetched(c), Key(c), val)
         \/ /\ Present(Fetched(c), Key(c))
            /\ st = bumpVersionLocked(
                      Mutate(Fetched(c), Key(c), WithContent(Fetched(c).data[Key(c)], val)), Key(c))
  PROVE  StepOK
<1> DEFINE f == Fetched(c)
           w == WithContent(f.data[Key(c)], val)
<1>1. StoreOK(f) /\ Key(c) \in Keys
  BY RunningFacts
<1> HIDE DEF f
<1>2. EntryOK(w) /\ w.kind = f.data[Key(c)].kind /\ w.expiresAt = f.data[Key(c)].expiresAt
  BY <1>1 DEF EntryOK, WithContent, Entry, StoreOK
<1> HIDE DEF w
<1>3. Good(f, st, {})
  BY <1>1, <1>2, GoodRefl, ShrunkGood, MutateGood DEF f, w
<1> QED
  BY <1>3, FetchedStep DEF f

LEMMA RemoveElemStep ==
  ASSUME Inv, NEW c \in Clients, RemoveElem(c)
  PROVE  StepOK
<1> DEFINE f == Fetched(c)
           names == {"HDel", "SRem", "ZRem"}
           val == MapDel(f.data[Key(c)].val, Req(c).elem)
<1>1. PICK st : /\ Running(c, names) /\ Finish(c, st)
                /\ \/ st = f
                   \/ Present(f, Key(c)) /\ st = Shrunk(f, Key(c), val)
  <2>1. [HDel |-> "hash", SRem |-> "set", ZRem |-> "zset"][Req(c).name] # "none"
    BY DEF RemoveElem, Running, Req
  <2> QED
    BY <2>1 DEF RemoveElem, Present
<1>2. names \cap ShardLoops = {}
  BY DEF ShardLoops
<1> HIDE DEF names, val
<1> QED
  BY <1>1, <1>2, CollectionStep

LEMMA ListWriteStep ==
  ASSUME Inv, NEW c \in Clients, Pop(c) \/ LRemove(c) \/ LSetAt(c)
  PROVE  StepOK
<1> DEFINE f == Fetched(c)
           v == f.data[Key(c)].val
<1>1. ASSUME f.data[Key(c)].kind = "list" PROVE Present(f, Key(c))
  BY <1>1 DEF Present
<1>2. CASE Pop(c)
  <2> DEFINE names == {"LPop", "RPop"}
             val == IF Req(c).name = "LPop" THEN LPop(v) ELSE RPop(v)
  <2>1. PICK st : /\ Running(c, names) /\ Finish(c, st)
                  /\ \/ st = f
                     \/ Present(f, Key(c)) /\ st = Shrunk(f, Key(c), val)
    BY <1>1, <1>2 DEF Pop
  <2>2. names \cap ShardLoops = {}
    BY DEF ShardLoops
  <2> HIDE DEF names, val
  <2> QED
    BY <2>1, <2>2, CollectionStep
<1>3. CASE LRemove(c)
  <2> DEFINE names == {"LRem"}
             val == LRem(v, Req(c).num, Req(c).val).out
  <2>1. PICK st : /\ Running(c, names) /\ Finish(c, st)
                  /\ \/ st = f
                     \/ Present(f, Key(c)) /\ st = Shrunk(f, Key(c), val)
    BY <1>1, <1>3 DEF LRemove
  <2>2. names \cap ShardLoops = {}
    BY DEF ShardLoops
  <2> HIDE DEF names, val
  <2> QED
    BY <2>1, <2>2, CollectionStep
<1>4. CASE LSetAt(c)
  <2> DEFINE names == {"LSet"}
             val == LSet(v, Req(c).num, Req(c).val)
  <2>1. PICK st : /\ Running(c, names) /\ Finish(c, st)
                  /\ \/ st = f
                     \/ /\ Present(f, Key(c))
                        /\ st = bumpVersionLocked(
                                  Mutate(f, Key(c), WithContent(f.data[Key(c)], val)), Key(c))
    BY <1>1, <1>4 DEF LSetAt
  <2>2. names \cap ShardLoops = {}
    BY DEF ShardLoops
  <2> HIDE DEF names, val
  <2> QED
    BY <2>1, <2>2, CollectionStep
<1> QED
  BY <1>2, <1>3, <1>4

-----------------------------------------------------------------------------
(* The steps that are not a client's, the beginning of a call, and Next.   *)

LEMMA BeginStep ==
  ASSUME Inv, NEW c \in Clients, Begin(c)
  PROVE  StepOK
<1>1. PICK r \in Requests :
        op' = [op EXCEPT ![c] =
                 Call("run", r, clock, 1, {},
                      IF r.name \in {"Keys", "Scan"} THEN store.versions ELSE <<>>)]
  BY DEF Begin
<1> DEFINE x == Call("run", r, clock, 1, {},
                     IF r.name \in {"Keys", "Scan"} THEN store.versions ELSE <<>>)
           S == {}
<1>2. ReqOK(r) /\ r \in ReqType
  BY RequestsOK DEF ReqOK
<1>3. clock \in Nat /\ store.versions \in [Keys -> Nat] /\ issued \in 0..MaxOps
      /\ lock \in [Shards -> Clients \cup {Free}] /\ MaxOps \in Nat
  BY ClientAssumption DEF Inv, TypeOK
<1>4. /\ store' = store /\ lock' = lock /\ clock' = clock /\ reaper' = reaper
      /\ cancelled' = cancelled /\ issued < MaxOps /\ issued' = issued + 1
  BY DEF Begin
<1>5. x \in OpType /\ x.pc = "run" /\ x.req = r /\ x.now = clock /\ x.i = 1
  BY <1>2, <1>3 DEF Call, OpType
<1>6. op' = [op EXCEPT ![c] = x]
  BY <1>1
<1> HIDE DEF x
<1>7. CallOK(x, c, lock', store')
  <2>0. r.name \notin ShardLoops => Len(r.keys) \in 1..2
    BY <1>2, Zenon DEF ReqOK
  <2>1. r.name \notin ShardLoops => 1 \in 1..Len(r.keys)
    BY <2>0
  <2> QED
    BY <1>2, <1>5, <2>1 DEF CallOK, Inserting
<1>8. issued' \in 0..MaxOps /\ x.now <= clock
  BY <1>3, <1>4, <1>5
<1>9. Good(store, store', S) /\ \A k \in S : lock[ShardOf(k)] \in {Free, c}
  BY <1>4, GoodRefl DEF Inv
<1> HIDE DEF S
<1>10. Inv'
  BY <1>3, <1>4, <1>5, <1>6, <1>7, <1>8, <1>9, ClientStep
<1> QED
  BY <1>9, <1>10 DEF StepOK, Good, S

(* A step of the reaper, of Close or of the clock. *)
LEMMA BackgroundStep ==
  ASSUME Inv, Good(store, store', {}), UNCHANGED <<lock, op, issued>>,
         clock' \in Nat, clock <= clock',
         reaper' \in [pc : {"wait", "sweep", "stopped"}, i : Shards],
         cancelled' \in BOOLEAN
  PROVE  StepOK
<1>1. StoreOK(store')
  BY DEF Good
<1>2. TypeOK'
  <2>1. /\ \A k \in Keys : EntryOK(store'.data[k])
        /\ store'.ttlKeys \subseteq Keys
        /\ store'.versions \in [Keys -> Nat]
        /\ store'.entryCount \in Int
    BY <1>1, StoreTypes
  <2>2. \A c \in Clients : op'[c].now <= clock'
    BY DEF Inv, TypeOK, OpType
  <2> QED
    BY <2>1, <2>2 DEF Inv, TypeOK
<1>3. ASSUME NEW c \in Clients PROVE CallOK(op'[c], c, lock', store')
  <2>1. CallOK(op[c], c, lock, store) /\ op[c] \in OpType
    BY DEF Inv, TypeOK
  <2>2. CASE op[c].pc \in Inserting
    <3>1. Key(c) \in Keys /\ ~Present(store, Key(c))
      BY <2>2, InsertingFacts
    <3>2. ~Present(store', Key(c))
      BY <3>1 DEF Good, PresentKeys
    <3> QED
      BY <2>1, <2>2, <3>2 DEF CallOK, Inserting, Key
  <2>3. CASE op[c].pc \notin Inserting
    BY <2>1, <2>3 DEF CallOK
  <2> QED
    BY <2>2, <2>3
<1>4. Inv'
  BY <1>1, <1>2, <1>3 DEF Inv
<1> QED
  BY <1>4 DEF StepOK, Good

LEMMA ReaperStep ==
  ASSUME Inv, ReaperTick \/ SweepShard \/ ReaperStop \/ Close \/ Tick
  PROVE  StepOK
<1>0. /\ Good(store, store, {}) /\ clock \in Nat /\ cancelled \in BOOLEAN
      /\ reaper \in [pc : {"wait", "sweep", "stopped"}, i : Shards]
      /\ NumShards \in Nat \ {0} /\ 0 \in Shards
  BY GoodRefl, ShardAssumption DEF Inv, TypeOK, Shards
<1>1. CASE ReaperTick \/ ReaperStop \/ Close
  <2>1. /\ Good(store, store', {}) /\ UNCHANGED <<lock, op, issued>>
        /\ clock' = clock /\ cancelled' \in BOOLEAN
        /\ reaper' \in [pc : {"wait", "sweep", "stopped"}, i : Shards]
    <3>1. CASE ReaperTick
      BY <1>0, <3>1 DEF ReaperTick
    <3>2. CASE ReaperStop
      BY <1>0, <3>2 DEF ReaperStop
    <3>3. CASE Close
      BY <1>0, <3>3 DEF Close
    <3> QED
      BY <1>1, <3>1, <3>2, <3>3
  <2> QED
    BY <1>0, <2>1, BackgroundStep
<1>2. CASE Tick
  <2>1. /\ Good(store, store', {}) /\ UNCHANGED <<lock, op, issued>>
        /\ clock' = clock + 1 /\ cancelled' = cancelled /\ reaper' = reaper
    BY <1>0, <1>2 DEF Tick
  <2> QED
    BY <1>0, <2>1, BackgroundStep
<1>3. CASE SweepShard
  <2>1. PICK T \in Samples({k \in store.ttlKeys : ShardOf(k) = reaper.i}, SweepSampleSize) :
          store' = RemoveAll(store, {k \in T : Present(store, k) /\ expired(store.data[k], clock)})
    BY <1>3 DEF SweepShard
  <2> DEFINE S == {k \in T : Present(store, k) /\ expired(store.data[k], clock)}
  <2>2. S \subseteq PresentKeys(store)
    BY DEF Samples, PresentKeys, Inv, TypeOK
  <2>3. Good(store, store', {})
    <3>1. store' = RemoveAll(store, S)
      BY <2>1
    <3> HIDE DEF S
    <3> QED
      BY <2>2, <3>1, RemoveAllGood DEF Inv
  <2>4. /\ UNCHANGED <<lock, op, issued>> /\ clock' = clock /\ cancelled' = cancelled
        /\ reaper' = IF reaper.i = NumShards - 1 THEN [pc |-> "wait", i |-> 0]
                     ELSE [pc |-> "sweep", i |-> reaper.i + 1]
    BY <1>3 DEF SweepShard, AfterSweep
  <2>5. reaper.i \in Shards /\ (reaper.i # NumShards - 1 => reaper.i + 1 \in Shards)
    BY <1>0 DEF Shards
  <2>6. reaper' \in [pc : {"wait", "sweep", "stopped"}, i : Shards]
    BY <1>0, <2>4, <2>5
  <2> QED
    BY <1>0, <2>3, <2>4, <2>6, BackgroundStep
<1> QED
  BY <1>1, <1>2, <1>3

LEMMA InitOK == Init => Inv
<1> SUFFICES ASSUME Init PROVE Inv
  OBVIOUS
<1>1. /\ store.data = [k \in Keys |-> NoEntry] /\ store.ttlKeys = {}
      /\ store.versions = [k \in Keys |-> 0] /\ store.entryCount = 0
  BY DEF Init, Store
<1>2. \A k \in Keys : ~Present(store, k) /\ EntryOK(store.data[k])
  BY <1>1 DEF Present, NoEntry, Entry, EntryOK, NoTTL
<1>3. PresentKeys(store) = {}
  BY <1>2 DEF PresentKeys
<1>4. store.entryCount = Cardinality(PresentKeys(store))
  BY <1>1, <1>3, FS_EmptySet
<1>5. StoreOK(store)
  BY <1>1, <1>2, <1>4 DEF StoreOK
<1>6. \A c \in Clients : op[c] = Idle
  BY DEF Init
<1>7. op \in [Clients -> OpType] /\ \A c \in Clients : CallOK(op[c], c, lock, store)
  BY <1>6, IdleOK DEF Init
<1>8. 0 \in Shards /\ 0 \in 0..MaxOps
  BY ShardAssumption, ClientAssumption DEF Shards
<1>9. \A c \in Clients : op[c].now <= clock
  BY <1>6 DEF Init, Idle, Call
<1>10. TypeOK
  <2>1. /\ \A k \in Keys : EntryOK(store.data[k])
        /\ store.ttlKeys \subseteq Keys
        /\ store.versions \in [Keys -> Nat]
        /\ store.entryCount \in Int
    BY <1>5, StoreTypes
  <2> QED
    BY <1>7, <1>8, <1>9, <2>1 DEF Init, TypeOK
<1> QED
  BY <1>5, <1>7, <1>10 DEF Inv

LEMMA NextOK ==
  ASSUME Inv, [Next]_vars
  PROVE  StepOK
<1>1. CASE UNCHANGED vars
  <2>1. Good(store, store', {}) /\ UNCHANGED <<lock, op, clock, reaper, cancelled, issued>>
    BY <1>1, GoodRefl DEF vars, Inv
  <2>2. clock \in Nat /\ cancelled \in BOOLEAN
        /\ reaper \in [pc : {"wait", "sweep", "stopped"}, i : Shards]
    BY DEF Inv, TypeOK
  <2> QED
    BY <2>1, <2>2, BackgroundStep
<1>2. ASSUME NEW c \in Clients, Begin(c) PROVE StepOK
  BY <1>2, BeginStep
<1>3. ASSUME NEW c \in Clients, Proceed(c) PROVE StepOK
  BY <1>3, GetStep, ReadStep, ExistsStep, ListingStep, DelStep, ExpireStep, FlushStep,
     RenameWithinStep, RenameLockStep, RenameAcrossStep, CreateStep, SetStep,
     LoadCountStep, EvictStep, InsertStep, RemoveElemStep, ListWriteStep
     DEF Proceed
<1> QED
  BY <1>1, <1>2, <1>3, ReaperStep DEF Next

-----------------------------------------------------------------------------
(* The engine always satisfies the inductive invariant. *)
THEOREM Invariance == Spec => []Inv
<1>1. Inv /\ [Next]_vars => Inv'
  BY NextOK DEF StepOK
<1> QED
  BY <1>1, InitOK, PTL DEF Spec

(* Every state of the engine, its calls, its reaper and its clock is       *)
(* well typed.                                                             *)
THEOREM TypeCorrect == Spec => []TypeOK
<1>1. Inv => TypeOK
  BY DEF Inv
<1> QED
  BY <1>1, Invariance, PTL

(* The entry counter that the cap and INFO rely on equals the number of    *)
(* entries in all shards, whatever interleaving of inserts, overwrites,    *)
(* deletions, expiries, sweeps, renames, flushes and evictions led there.  *)
THEOREM CountCorrect == Spec => []CountExact
<1>1. Inv => CountExact
  BY DEF Inv, StoreOK, CountExact, PresentKeys
<1> QED
  BY <1>1, Invariance, PTL

(* The index the reaper samples from holds exactly the keys with a TTL.    *)
THEOREM TTLIndexCorrect == Spec => []TTLIndexExact
<1>1. Inv => TTLIndexExact
  BY DEF Inv, StoreOK, TTLIndexExact
<1> QED
  BY <1>1, Invariance, PTL

(* No other actor can create the key a client is about to insert between   *)
(* its lookup and its insertion.                                           *)
THEOREM InsertExclusive == Spec => []NewKeyStaysAbsent
<1>1. Inv => NewKeyStaysAbsent
  BY DEF Inv, CallOK, NewKeyStaysAbsent, Inserting, Key
<1> QED
  BY <1>1, Invariance, PTL

(* The engine implements the contract behind WATCH: versions only grow,    *)
(* and grow whenever the visible state of a key changes.                   *)
THEOREM WatchCorrect == Spec => WatchContract
<1>1. Init => Watch!Init
  BY DEF Init, Watch!Init, Store
<1>2. Inv /\ [Next]_vars => [Watch!Modify]_<<[k \in Keys |-> Visible(store.data[k])], store.versions>>
  <2> SUFFICES ASSUME Inv, [Next]_vars PROVE Watch!Modify
    OBVIOUS
  <2>1. Evolves(store, store')
    BY NextOK DEF StepOK
  <2> QED
    BY <2>1 DEF Evolves, Watch!Modify
<1> QED
  BY <1>1, <1>2, Invariance, PTL DEF Spec, WatchContract, Watch!Spec

-----------------------------------------------------------------------------
(* Listings: KEYS and SCAN while other calls change the shards.            *)

Listing(o) == o.pc = "run" /\ o.req.name \in {"Keys", "Scan"}

(* What a listing under way knows: the versions only grew since it began,  *)
(* and of the shards it visited it has every key that is still as it was.  *)
ListingOK(o, st) ==
  Listing(o) =>
    /\ o.snap \in [Keys -> Nat] /\ \A k \in Keys : o.snap[k] <= st.versions[k]
    /\ \A k \in Keys : /\ ShardOf(k) < o.i - 1
                       /\ k[1] = o.req.ws
                       /\ Live(st, k, o.now)
                       /\ st.versions[k] = o.snap[k]
                       => k \in o.acc

LEMMA ListingKept ==
  ASSUME NEW s, NEW t, StoreOK(s), StoreOK(t), Evolves(s, t), NEW o, ListingOK(o, s)
  PROVE  ListingOK(o, t)
<1> SUFFICES ASSUME Listing(o)
             PROVE  /\ o.snap \in [Keys -> Nat] /\ \A k \in Keys : o.snap[k] <= t.versions[k]
                    /\ \A k \in Keys : /\ ShardOf(k) < o.i - 1 /\ k[1] = o.req.ws
                                       /\ Live(t, k, o.now) /\ t.versions[k] = o.snap[k]
                                       => k \in o.acc
  BY DEF ListingOK
<1>1. /\ s.versions \in [Keys -> Nat] /\ t.versions \in [Keys -> Nat]
      /\ o.snap \in [Keys -> Nat] /\ \A k \in Keys : o.snap[k] <= s.versions[k]
  BY DEF ListingOK, StoreOK
<1>2. \A k \in Keys : s.versions[k] <= t.versions[k]
  BY <1>1 DEF Evolves
<1>3. \A k \in Keys : o.snap[k] <= t.versions[k]
  BY <1>1, <1>2
<1>4. ASSUME NEW k \in Keys, ShardOf(k) < o.i - 1, k[1] = o.req.ws, Live(t, k, o.now),
             t.versions[k] = o.snap[k]
      PROVE  k \in o.acc
  <2>1. s.versions[k] = o.snap[k] /\ t.versions[k] = s.versions[k]
    BY <1>1, <1>2, <1>4
  <2>2. Visible(t.data[k]) = Visible(s.data[k])
    BY <1>1, <2>1 DEF Evolves
  <2>3. t.data[k].kind = s.data[k].kind /\ t.data[k].expiresAt = s.data[k].expiresAt
    BY <2>2 DEF Visible
  <2>4. Live(s, k, o.now)
    BY <1>4, <2>3 DEF Live, Present, expired
  <2> QED
    BY <1>4, <2>1, <2>4 DEF ListingOK
<1> QED
  BY <1>1, <1>3, <1>4

(* A client changes its own call only; only Begin and CollectKeys lead it  *)
(* into the state of a listing, and only LoadCount and Evict to the point  *)
(* of inserting.                                                           *)
LEMMA ClientMoves ==
  ASSUME NEW d \in Clients, Begin(d) \/ Proceed(d)
  PROVE  \E x : /\ op' = [op EXCEPT ![d] = x]
                /\ Listing(x) => Begin(d) \/ CollectKeys(d)
                /\ x.pc = "insert" => LoadCount(d) \/ Evict(d)
<1> DEFINE Moves == \E x : /\ op' = [op EXCEPT ![d] = x]
                           /\ Listing(x) => Begin(d) \/ CollectKeys(d)
                           /\ x.pc = "insert" => LoadCount(d) \/ Evict(d)
<1>1. ~Listing(Idle) /\ Idle.pc # "insert"
  BY DEF Listing, Idle, Call
<1>2. ASSUME NEW st, Finish(d, st) PROVE Moves
  BY <1>1, <1>2 DEF Finish
<1>3. ASSUME NEW n, op[d].pc = "run", op[d].req.name \notin {"Keys", "Scan"},
             op' = [op EXCEPT ![d] = IF op[d].i < n THEN AtNext(op[d]) ELSE Idle]
      PROVE  Moves
  <2>1. ~Listing(AtNext(op[d])) /\ AtNext(op[d]).pc # "insert"
    BY <1>3 DEF Listing, AtNext, Call
  <2> QED
    BY <1>1, <1>3, <2>1
<1>4. ASSUME NEW pc, pc # "run", op' = [op EXCEPT ![d] = AtPC(op[d], pc)],
             pc = "insert" => LoadCount(d) \/ Evict(d)
      PROVE  Moves
  <2>1. ~Listing(AtPC(op[d], pc)) /\ AtPC(op[d], pc).pc = pc
    BY <1>4 DEF Listing, AtPC, Call
  <2> QED
    BY <1>4, <2>1
<1>5. CASE Begin(d)
  <2>1. PICK r, n, snap : op' = [op EXCEPT ![d] = Call("run", r, n, 1, {}, snap)]
    BY <1>5, ZenonT(40) DEF Begin
  <2>2. Call("run", r, n, 1, {}, snap).pc # "insert"
    BY DEF Call
  <2> QED
    BY <1>5, <2>1, <2>2
<1>6. CASE CollectKeys(d)
  <2>1. PICK ks : op' = [op EXCEPT ![d] = Collected(op[d], ks)] /\ op[d].pc = "run"
    BY <1>6 DEF CollectKeys
  <2>2. Collected(op[d], ks).pc # "insert"
    BY <2>1 DEF Collected, Call
  <2> QED
    BY <1>6, <2>1, <2>2
<1>7. CASE FlushDB(d)
  BY <1>3, <1>7 DEF FlushDB, Req
<1>8. CASE \/ Get(d) \/ HGet(d) \/ TTL(d) \/ HashRead(d) \/ ListRead(d) \/ SetRead(d) \/ ZSetRead(d)
           \/ Type(d) \/ ReturnKeys(d) \/ Expire(d) \/ Persist(d) \/ RenameWithinShard(d)
           \/ RemoveElem(d) \/ Pop(d) \/ LRemove(d) \/ LSetAt(d)
  <2>1. PICK st : Finish(d, st)
    BY <1>8 DEF Get, HGet, TTL, HashRead, ListRead, SetRead, ZSetRead, Type, ReturnKeys, Expire,
                Persist, RenameWithinShard, RemoveElem, Pop, LRemove, LSetAt
  <2> QED
    BY <1>2, <2>1
<1>9. CASE Exists(d) \/ Del(d)
  <2>1. op[d].pc = "run" /\ op[d].req.name \notin {"Keys", "Scan"} /\ \E st : NextKey(d, st)
    BY <1>9 DEF Exists, Del, Running
  <2> QED
    BY <1>3, <2>1 DEF NextKey
<1>10. CASE Create(d) \/ Set(d)
  <2>1. \E st : Finish(d, st) \/ EnterInsert(d, st)
    BY <1>10 DEF Create, Set
  <2> QED
    BY <1>2, <1>4, <2>1 DEF EnterInsert
<1>11. CASE RenameLockFirst(d) \/ LoadCount(d) \/ Evict(d)
  <2>1. \E pc \in {"second", "insert", "evict"} :
          op' = [op EXCEPT ![d] = AtPC(op[d], pc)] /\ (pc = "insert" => LoadCount(d) \/ Evict(d))
    BY <1>11 DEF RenameLockFirst, LoadCount, Evict
  <2> QED
    BY <1>4, <2>1
<1>12. CASE RenameAcrossShards(d) \/ Insert(d)
  BY <1>1, <1>12 DEF RenameAcrossShards, Insert
<1> QED
  BY <1>5, <1>6, <1>7, <1>8, <1>9, <1>10, <1>11, <1>12 DEF Proceed

LEMMA OwnMoves ==
  ASSUME Inv, [Next]_vars, NEW c \in Clients
  PROVE  /\ op'[c] = op[c] \/ Begin(c) \/ Proceed(c)
         /\ Listing(op'[c]) => op'[c] = op[c] \/ Begin(c) \/ CollectKeys(c)
         /\ op'[c].pc = "insert" => op'[c] = op[c] \/ LoadCount(c) \/ Evict(c)
<1>1. op \in [Clients -> OpType]
  BY DEF Inv, TypeOK
<1>2. CASE op' = op
  BY <1>2
<1>3. ASSUME NEW d \in Clients, Begin(d) \/ Proceed(d)
      PROVE  /\ op'[c] = op[c] \/ Begin(c) \/ Proceed(c)
             /\ Listing(op'[c]) => op'[c] = op[c] \/ Begin(c) \/ CollectKeys(c)
             /\ op'[c].pc = "insert" => op'[c] = op[c] \/ LoadCount(c) \/ Evict(c)
  <2>1. PICK x : /\ op' = [op EXCEPT ![d] = x]
                 /\ Listing(x) => Begin(d) \/ CollectKeys(d)
                 /\ x.pc = "insert" => LoadCount(d) \/ Evict(d)
    BY <1>3, ClientMoves
  <2>2. CASE d = c
    <3>1. op'[c] = x
      BY <1>1, <2>1, <2>2
    <3> QED
      BY <1>3, <2>1, <2>2, <3>1
  <2>3. CASE d # c
    BY <1>1, <2>1, <2>3
  <2> QED
    BY <2>2, <2>3
<1>4. CASE ReaperTick \/ SweepShard \/ ReaperStop \/ Close \/ Tick \/ UNCHANGED vars
  BY <1>2, <1>4 DEF ReaperTick, SweepShard, ReaperStop, Close, Tick, vars
<1> QED
  BY <1>3, <1>4 DEF Next

LEMMA ListingStepOK ==
  ASSUME Inv, [Next]_vars, \A c \in Clients : ListingOK(op[c], store)
  PROVE  \A c \in Clients : ListingOK(op'[c], store')
<1> SUFFICES ASSUME NEW c \in Clients, Listing(op'[c]) PROVE ListingOK(op'[c], store')
  BY DEF ListingOK
<1>1. StoreOK(store) /\ StoreOK(store') /\ Evolves(store, store')
  BY NextOK DEF StepOK, Inv
<1>2. CASE op'[c] = op[c]
  BY <1>1, <1>2, ListingKept
<1>3. CASE Begin(c)
  <2>1. PICK r \in Requests :
          op' = [op EXCEPT ![c] = Call("run", r, clock, 1, {},
                   IF r.name \in {"Keys", "Scan"} THEN store.versions ELSE <<>>)]
    BY <1>3 DEF Begin
  <2>2. op'[c] = Call("run", r, clock, 1, {},
                      IF r.name \in {"Keys", "Scan"} THEN store.versions ELSE <<>>)
    BY <2>1 DEF Inv, TypeOK
  <2>3. op'[c].i = 1 /\ op'[c].req = r
        /\ op'[c].snap = IF r.name \in {"Keys", "Scan"} THEN store.versions ELSE <<>>
    BY <2>2 DEF Call
  <2>4. op'[c].snap = store.versions /\ store' = store
    BY <1>3, <2>3 DEF Listing, Begin
  <2>5. store.versions \in [Keys -> Nat]
    BY <1>1 DEF StoreOK
  <2>6. \A k \in Keys : ~(ShardOf(k) < op'[c].i - 1) /\ store.versions[k] <= store.versions[k]
    BY <2>3, <2>5, ShardAssumption DEF ShardOf, Shards
  <2> QED
    BY <2>4, <2>5, <2>6 DEF ListingOK
<1>4. CASE CollectKeys(c)
  <2> DEFINE sh == op[c].i - 1
             found == {k \in Resident(store, sh) : k[1] = Req(c).ws /\ Live(store, k, Now(c))}
  <2>1. /\ op' = [op EXCEPT ![c] = Collected(op[c], found)] /\ store' = store /\ Listing(op[c])
    BY <1>4 DEF CollectKeys, Listing, Req
  <2>2. op'[c] = Collected(op[c], found)
    BY <2>1 DEF Inv, TypeOK
  <2> HIDE DEF found
  <2>3. /\ op'[c].i = op[c].i + 1 /\ op'[c].req = op[c].req /\ op'[c].snap = op[c].snap
        /\ op'[c].now = op[c].now /\ op'[c].acc = op[c].acc \cup found
    BY <2>2 DEF Collected, Call
  <2>4. op[c].i \in Nat
    BY DEF Inv, TypeOK, OpType
  <2>5. ASSUME NEW k \in Keys, ShardOf(k) < op'[c].i - 1, k[1] = op'[c].req.ws,
               Live(store, k, op'[c].now), store.versions[k] = op'[c].snap[k]
        PROVE  k \in op'[c].acc
    <3>0. ShardOf(k) \in Int
      BY ShardAssumption DEF ShardOf, Shards
    <3>1. CASE ShardOf(k) = sh
      <4>1. k \in found
        BY <2>3, <2>5, <3>1 DEF found, Resident, Live, Req, Now
      <4> QED
        BY <2>3, <4>1
    <3>2. CASE ShardOf(k) # sh
      <4>1. ShardOf(k) < op[c].i - 1
        BY <2>3, <2>4, <2>5, <3>0, <3>2
      <4> QED
        BY <2>1, <2>3, <2>5, <4>1 DEF ListingOK
    <3> QED
      BY <3>1, <3>2
  <2>6. op[c].snap \in [Keys -> Nat] /\ \A k \in Keys : op[c].snap[k] <= store.versions[k]
    BY <2>1 DEF ListingOK
  <2> QED
    BY <2>1, <2>3, <2>5, <2>6 DEF ListingOK
<1> QED
  BY <1>2, <1>3, <1>4, OwnMoves

(* KEYS and SCAN miss no key that was there when the call began and that   *)
(* nobody touched since, although keysForWorkspace lets go of one shard    *)
(* before it takes the next and other calls change shards in between.      *)
THEOREM ListingsComplete == Spec => []KeysComplete
<1> DEFINE ListInv == Inv /\ \A c \in Clients : ListingOK(op[c], store)
<1>1. Init => ListInv
  <2> SUFFICES ASSUME Init PROVE ListInv
    OBVIOUS
  <2>1. \A c \in Clients : op[c] = Idle
    BY DEF Init
  <2>2. \A c \in Clients : ListingOK(op[c], store)
    BY <2>1 DEF ListingOK, Listing, Idle, Call
  <2> QED
    BY <2>2, InitOK
<1>2. ListInv /\ [Next]_vars => ListInv'
  BY ListingStepOK, NextOK DEF StepOK
<1>3. ListInv => KeysComplete
  BY DEF ListingOK, Listing, KeysComplete, Req, Now
<1> QED
  BY <1>1, <1>2, <1>3, PTL DEF Spec

-----------------------------------------------------------------------------
(* Eviction: the victim of a sample that covers the shard.                 *)

LEMMA SampleAll ==
  ASSUME NEW S, IsFiniteSet(S), NEW n \in Nat, Cardinality(S) <= n, NEW T \in Samples(S, n)
  PROVE  T = S
<1>1. T \subseteq S /\ Cardinality(T) = Cardinality(S)
  BY FS_CardinalityType DEF Samples
<1> QED
  BY <1>1, FS_Subset

(* The weighted score, 6 a / (1 + a) + 4 / (1 + n), grows with the age a   *)
(* and does not grow with the accesses n.                                  *)
LEMMA WeightedGrows ==
  ASSUME NEW a \in Nat, NEW b \in Nat, NEW n \in Nat, NEW m \in Nat, a < b, m <= n
  PROVE  (6 * a * (1 + n) + 4 * (1 + a)) * (10 * (1 + b) * (1 + m)) <
         (6 * b * (1 + m) + 4 * (1 + b)) * (10 * (1 + a) * (1 + n))
<1> DEFINE A == 1 + a
           B == 1 + b
           N == 1 + n
           M == 1 + m
<1>1. A \in Nat \ {0} /\ B \in Nat \ {0} /\ N \in Nat \ {0} /\ M \in Nat \ {0}
  OBVIOUS
<1>2. (b - a) * (N * M) > 0
  <2>1. N * M \in Nat \ {0}
    BY <1>1
  <2>2. b - a >= 1
    OBVIOUS
  <2> HIDE DEF N, M
  <2> DEFINE p == N * M
             q == b - a
  <2>3. p \in Nat \ {0} /\ q \in Nat \ {0}
    BY <2>1, <2>2
  <2> HIDE DEF p, q
  <2>4. q * p > 0
    BY <2>3
  <2> QED
    BY <2>4 DEF p, q
<1>3. (n - m) * (A * B) >= 0
  <2>1. A * B \in Nat /\ n - m \in Nat
    BY <1>1
  <2> DEFINE p == A * B
             q == n - m
  <2> HIDE DEF p, q
  <2>2. p \in Nat /\ q \in Nat
    BY <2>1 DEF p, q
  <2>3. q * p >= 0
    BY <2>2
  <2> QED
    BY <2>3 DEF p, q
<1>4. (6 * b * M + 4 * B) * (10 * A * N) - (6 * a * N + 4 * A) * (10 * B * M) =
        60 * ((b - a) * (N * M)) + 40 * ((n - m) * (A * B))
  OBVIOUS
<1> QED
  BY <1>2, <1>3, <1>4

(* An entry that was not accessed as recently, and no more often, scores   *)
(* higher, if the other was accessed before `now'.                         *)
LEMMA OlderScoresHigher ==
  ASSUME NEW x, NEW y, EntryOK(x), EntryOK(y), NEW now \in Nat, x.lastAccess <= now,
         y.lastAccess < x.lastAccess, y.accessCount <= x.accessCount
  PROVE  ~AtLeast(Score(x, now), Score(y, now))
<1> DEFINE a == now - x.lastAccess
           b == now - y.lastAccess
           n == x.accessCount
           m == y.accessCount
<1>1. a \in Nat /\ b \in Nat /\ n \in Nat /\ m \in Nat /\ a < b /\ m <= n
  BY DEF EntryOK
<1>2. CASE Policy = "LRU"
  <2>1. Score(x, now) = <<a, 1>> /\ Score(y, now) = <<b, 1>>
    BY <1>2 DEF Score
  <2> HIDE DEF a, b
  <2> QED
    BY <1>1, <2>1 DEF AtLeast
<1>3. CASE Policy # "LRU"
  <2>1. /\ Score(x, now) = <<6 * a * (1 + n) + 4 * (1 + a), 10 * (1 + a) * (1 + n)>>
        /\ Score(y, now) = <<6 * b * (1 + m) + 4 * (1 + b), 10 * (1 + b) * (1 + m)>>
    BY <1>1, <1>3 DEF Score
  <2> HIDE DEF a, b, n, m
  <2> DEFINE p == 6 * a * (1 + n) + 4 * (1 + a)
             q == 10 * (1 + a) * (1 + n)
             r == 6 * b * (1 + m) + 4 * (1 + b)
             t == 10 * (1 + b) * (1 + m)
  <2>2. p * t < r * q
    BY <1>1, WeightedGrows
  <2>3. p \in Int /\ q \in Int /\ r \in Int /\ t \in Int
    BY <1>1
  <2>4. Score(x, now) = <<p, q>> /\ Score(y, now) = <<r, t>>
    BY <2>1
  <2> HIDE DEF p, q, r, t
  <2>5. p * t \in Int /\ r * q \in Int
    BY <2>3
  <2> QED
    BY <2>2, <2>4, <2>5 DEF AtLeast
<1> QED
  BY <1>2, <1>3

(* Only Evict leads from "evict" to anywhere. *)
LEMMA EvictMoves ==
  ASSUME Inv, [Next]_vars, NEW c \in Clients, op[c].pc = "evict", op'[c] # op[c]
  PROVE  Evict(c)
<1>1. Begin(c) \/ Proceed(c)
  BY OwnMoves
<1>2. ~Begin(c)
  BY DEF Begin
<1>3. \A names : ~Running(c, names)
  BY DEF Running
<1> QED
  BY <1>1, <1>2, <1>3
  DEF Proceed, Get, HGet, TTL, HashRead, ListRead, SetRead, ZSetRead, Exists, Type, CollectKeys,
      ReturnKeys, Del, Expire, Persist, FlushDB, RenameWithinShard, RenameLockFirst,
      RenameAcrossShards, Create, Set, LoadCount, Insert, RemoveElem, Pop, LRemove, LSetAt

LEMMA VictimStep ==
  ASSUME EvictionSampleSize >= Cardinality(Keys), Inv, NEW c \in Clients, Evict(c),
         NEW v \in Resident(store, Sh(c)), NEW u \in Resident(store, Sh(c)), ~Present(store', v)
  PROVE  AtLeast(Score(store.data[v], Now(c)), Score(store.data[u], Now(c)))
<1> DEFINE R == Resident(store, Sh(c))
<1>1. R # {} /\ R \subseteq Keys /\ v \in Keys /\ Present(store, v)
  BY DEF Resident
<1>2. PICK z \in Victims(store, Sh(c), Now(c)) : store' = Remove(store, z)
  BY <1>1 DEF Evict
<1>3. z \in Keys
  BY DEF Victims, Resident
<1>4. \A x \in Keys \ {z} : Present(store', x) <=> Present(store, x)
  <2>1. store'.data = [store.data EXCEPT ![z] = NoEntry]
    BY <1>2 DEF Remove, bumpVersionLocked, deleteEntryLocked, Store
  <2> QED
    BY <1>3, <2>1 DEF Inv, StoreOK, Present
<1>5. v = z
  BY <1>1, <1>4
<1>6. PICK T \in Samples(R, EvictionSampleSize) :
        \A x \in T : AtLeast(Score(store.data[v], Now(c)), Score(store.data[x], Now(c)))
  BY <1>5 DEF Victims
<1>7. IsFiniteSet(R) /\ Cardinality(R) <= Cardinality(Keys)
  BY <1>1, FS_Subset, SizeAssumption
<1>8. Cardinality(R) \in Nat /\ Cardinality(Keys) \in Nat /\ EvictionSampleSize \in Nat
  BY <1>7, FS_CardinalityType, SizeAssumption
<1>9. T = R
  <2> HIDE DEF R
  <2> QED
    BY <1>7, <1>8, SampleAll
<1> QED
  BY <1>6, <1>9

(* When the sample covers the shard, eviction under either policy never    *)
(* drops an entry accessed more recently than another that was accessed no *)
(* more often, for all ages and access counts: pickEvictionVictimLocked    *)
(* and the scores of LRU and Weighted.                                     *)
THEOREM VictimsRight ==
  ASSUME EvictionSampleSize >= Cardinality(Keys)
  PROVE  Spec => VictimNotBetter
<1> DEFINE A == \A c \in Clients : op[c].pc = "evict" =>
                  \A v, u \in Resident(store, Sh(c)) :
                    LET x == store.data[v]
                        y == store.data[u]
                    IN  /\ op'[c].pc = "insert"
                        /\ ~Present(store', v)
                        /\ x.lastAccess <= Now(c)
                        => ~(y.lastAccess < x.lastAccess /\ y.accessCount <= x.accessCount)
<1>1. Inv /\ [Next]_vars => [A]_store
  <2> SUFFICES ASSUME Inv, [Next]_vars, NEW c \in Clients, op[c].pc = "evict",
                      NEW v \in Resident(store, Sh(c)), NEW u \in Resident(store, Sh(c)),
                      op'[c].pc = "insert", ~Present(store', v),
                      store.data[v].lastAccess <= Now(c)
               PROVE  ~(/\ store.data[u].lastAccess < store.data[v].lastAccess
                        /\ store.data[u].accessCount <= store.data[v].accessCount)
    OBVIOUS
  <2>1. Evict(c)
    BY EvictMoves
  <2>2. AtLeast(Score(store.data[v], Now(c)), Score(store.data[u], Now(c)))
    BY <2>1, VictimStep
  <2>3. EntryOK(store.data[v]) /\ EntryOK(store.data[u]) /\ Now(c) \in Nat
    BY DEF Inv, TypeOK, OpType, Now, Resident
  <2> QED
    BY <2>2, <2>3, OlderScoresHigher
<1> QED
  BY <1>1, Invariance, PTL DEF Spec, VictimNotBetter

-----------------------------------------------------------------------------
(* The cap.  What counts against it are the keys present and the keys that *)
(* passed the eviction check and are about to be stored.  That number may  *)
(* exceed MaxEntries, by less than the number of shards; but an insertion  *)
(* into an empty shard evicts nothing, so the invariant has to count the   *)
(* shards that are still empty as well.                                    *)

Counted(st, o) ==
  PresentKeys(st) \cup {o[c].req.keys[o[c].i] : c \in {d \in Clients : o[d].pc = "insert"}}

ShardsOf(S) == {ShardOf(k) : k \in S}

Weight(S) == Cardinality(S) + Cardinality(Shards \ ShardsOf(S))

CapInv == MaxEntries > 0 => Weight(Counted(store, op)) <= MaxEntries + NumShards - 1

LEMMA UnionSize ==
  ASSUME NEW A, NEW B, IsFiniteSet(A), IsFiniteSet(B)
  PROVE  /\ IsFiniteSet(A \cup B)
         /\ Cardinality(A \cup B) \in Nat
         /\ Cardinality(A \cup B) <= Cardinality(A) + Cardinality(B)
<1> DEFINE a == Cardinality(A)
           b == Cardinality(B)
           i == Cardinality(A \cap B)
           u == Cardinality(A \cup B)
<1>1. IsFiniteSet(A \cup B) /\ u = a + b - i
  BY FS_Union
<1>2. IsFiniteSet(A \cap B)
  BY FS_Intersection
<1>3. a \in Nat /\ b \in Nat /\ i \in Nat /\ u \in Nat
  BY <1>1, <1>2, FS_CardinalityType
<1> HIDE DEF a, b, i, u
<1>4. u <= a + b
  BY <1>1, <1>3
<1> QED
  BY <1>1, <1>3, <1>4 DEF a, b, u

LEMMA AddSize ==
  ASSUME NEW A, NEW x, IsFiniteSet(A)
  PROVE  Cardinality(A \cup {x}) <= Cardinality(A) + 1
<1>1. IsFiniteSet({x}) /\ Cardinality({x}) = 1
  BY FS_Singleton
<1> QED
  BY <1>1, UnionSize

LEMMA SizeFacts ==
  ASSUME NEW S, S \subseteq Keys
  PROVE  /\ IsFiniteSet(S) /\ IsFiniteSet(ShardsOf(S)) /\ ShardsOf(S) \subseteq Shards
         /\ IsFiniteSet(Shards) /\ IsFiniteSet(Shards \ ShardsOf(S))
         /\ Cardinality(S) \in Nat /\ Cardinality(ShardsOf(S)) \in Nat
         /\ Cardinality(Shards \ ShardsOf(S)) \in Nat
         /\ Cardinality(Shards) = NumShards /\ NumShards \in Nat
<1>1. IsFiniteSet(S)
  BY FS_Subset, SizeAssumption
<1>2. ShardsOf(S) \subseteq Shards
  BY ShardAssumption DEF ShardsOf, ShardOf
<1>3. IsFiniteSet(Shards) /\ Cardinality(Shards) = NumShards /\ NumShards \in Nat
  BY FS_Interval, ShardAssumption DEF Shards
<1>4. IsFiniteSet(ShardsOf(S)) /\ IsFiniteSet(Shards \ ShardsOf(S))
  BY <1>2, <1>3, FS_Subset
<1> QED
  BY <1>1, <1>2, <1>3, <1>4, FS_CardinalityType

(* A set of keys has at least as many members as shards. *)
LEMMA ImageSize ==
  ASSUME NEW S, S \subseteq Keys
  PROVE  Cardinality(ShardsOf(S)) <= Cardinality(S)
<1> DEFINE f == [k \in S |-> ShardOf(k)]
<1>1. IsFiniteSet(S)
  BY SizeFacts
<1>2. f \in Surjection(S, ShardsOf(S))
  BY DEF Surjection, ShardsOf
<1> QED
  BY <1>1, <1>2, FS_Surjection

(* Fewer keys weigh less: a shard that runs empty lost a key. *)
LEMMA WeightShrinks ==
  ASSUME NEW S, S \subseteq Keys, NEW T, T \subseteq S
  PROVE  Weight(T) <= Weight(S)
<1> DEFINE D == S \ T
           E == Shards \ ShardsOf(S)
           F == Shards \ ShardsOf(T)
<1>1. D \subseteq Keys /\ T \subseteq Keys
  OBVIOUS
<1>2. /\ IsFiniteSet(D) /\ IsFiniteSet(E) /\ IsFiniteSet(F) /\ IsFiniteSet(S) /\ IsFiniteSet(T)
      /\ IsFiniteSet(ShardsOf(D)) /\ Cardinality(D) \in Nat /\ Cardinality(E) \in Nat
      /\ Cardinality(F) \in Nat /\ Cardinality(S) \in Nat /\ Cardinality(T) \in Nat
      /\ Cardinality(ShardsOf(D)) \in Nat
  BY <1>1, SizeFacts
<1>3. F \subseteq E \cup ShardsOf(D)
  BY DEF ShardsOf
<1>4. Cardinality(D) = Cardinality(S) - Cardinality(T)
  <2>1. S \cap T = T
    OBVIOUS
  <2> QED
    BY <1>2, <2>1, FS_Difference
<1>5. Cardinality(ShardsOf(D)) <= Cardinality(D)
  BY <1>1, ImageSize
<1> HIDE DEF D, E, F
<1>6. /\ IsFiniteSet(E \cup ShardsOf(D))
      /\ Cardinality(E \cup ShardsOf(D)) <= Cardinality(E) + Cardinality(ShardsOf(D))
  BY <1>2, UnionSize
<1>7. Cardinality(F) <= Cardinality(E \cup ShardsOf(D)) /\ Cardinality(E \cup ShardsOf(D)) \in Nat
  BY <1>3, <1>6, FS_Subset, FS_CardinalityType
<1>8. Cardinality(T) + Cardinality(F) <= Cardinality(S) + Cardinality(E)
  BY <1>2, <1>4, <1>5, <1>6, <1>7
<1> QED
  BY <1>8 DEF Weight, E, F

(* An eviction makes up for the key it makes room for, in the same shard;  *)
(* a key that goes into an empty shard leaves one empty shard fewer.       *)
LEMMA WeightReplaced ==
  ASSUME NEW S, S \subseteq Keys, NEW k \in Keys, NEW v \in S, ShardOf(v) = ShardOf(k)
  PROVE  Weight((S \ {v}) \cup {k}) <= Weight(S)
<1> DEFINE R == S \ {v}
           T == R \cup {k}
<1>1. T \subseteq Keys /\ R \subseteq Keys
  OBVIOUS
<1>2. ShardsOf(T) = ShardsOf(S)
  BY DEF ShardsOf
<1>3. /\ IsFiniteSet(S) /\ IsFiniteSet(R) /\ Cardinality(S) \in Nat /\ Cardinality(R) \in Nat
      /\ Cardinality(T) \in Nat /\ Cardinality(Shards \ ShardsOf(S)) \in Nat
  BY <1>1, SizeFacts
<1>4. Cardinality(R) = Cardinality(S) - 1
  BY <1>3, FS_RemoveElement
<1> HIDE DEF R
<1>5. Cardinality(T) <= Cardinality(R) + 1
  BY <1>3, AddSize
<1>6. Cardinality(T) <= Cardinality(S)
  BY <1>3, <1>4, <1>5
<1> HIDE DEF T
<1>7. Weight(T) <= Weight(S)
  BY <1>2, <1>3, <1>6 DEF Weight
<1> QED
  BY <1>7 DEF T, R

LEMMA WeightSettled ==
  ASSUME NEW S, S \subseteq Keys, NEW k \in Keys, ShardOf(k) \notin ShardsOf(S)
  PROVE  Weight(S \cup {k}) <= Weight(S)
<1> DEFINE T == S \cup {k}
           E == Shards \ ShardsOf(S)
           F == Shards \ ShardsOf(T)
<1>1. T \subseteq Keys
  OBVIOUS
<1>2. F = E \ {ShardOf(k)}
  BY DEF ShardsOf
<1>3. ShardOf(k) \in E
  BY ShardAssumption DEF ShardOf
<1>4. /\ IsFiniteSet(S) /\ IsFiniteSet(E) /\ Cardinality(S) \in Nat /\ Cardinality(E) \in Nat
      /\ Cardinality(T) \in Nat /\ Cardinality(F) \in Nat
  BY <1>1, SizeFacts
<1>5. Cardinality(T) <= Cardinality(S) + 1
  BY <1>4, AddSize
<1> HIDE DEF E, F, T
<1>6. Cardinality(F) = Cardinality(E) - 1
  BY <1>2, <1>3, <1>4, FS_RemoveElement
<1>7. Cardinality(T) + Cardinality(F) <= Cardinality(S) + Cardinality(E)
  BY <1>4, <1>5, <1>6
<1>8. Weight(T) <= Weight(S)
  BY <1>7 DEF Weight, E, F
<1> QED
  BY <1>8 DEF T

(* The keys about to be stored lie in different shards, so they and the    *)
(* shards left empty are no more than the shards.                          *)
LEMMA WeightOfPending ==
  ASSUME NEW P, P \subseteq Keys, NEW I, I \subseteq Keys,
         \A j, k \in I : ShardOf(j) = ShardOf(k) => j = k
  PROVE  Weight(P \cup I) <= Cardinality(P) + NumShards
<1> DEFINE T == P \cup I
           E == Shards \ ShardsOf(I)
           F == Shards \ ShardsOf(T)
           f == [k \in I |-> ShardOf(k)]
<1>1. T \subseteq Keys
  OBVIOUS
<1>2. /\ IsFiniteSet(P) /\ IsFiniteSet(I) /\ IsFiniteSet(E) /\ IsFiniteSet(ShardsOf(I))
      /\ IsFiniteSet(Shards) /\ ShardsOf(I) \subseteq Shards
      /\ Cardinality(P) \in Nat /\ Cardinality(I) \in Nat /\ Cardinality(E) \in Nat
      /\ Cardinality(ShardsOf(I)) \in Nat /\ Cardinality(Shards) = NumShards /\ NumShards \in Nat
  BY SizeFacts
<1>3. Cardinality(T) \in Nat /\ Cardinality(F) \in Nat
  BY <1>1, SizeFacts
<1>4. Cardinality(I) <= Cardinality(ShardsOf(I))
  <2>1. f \in Injection(I, ShardsOf(I))
    BY DEF Injection, IsInjective, ShardsOf
  <2> HIDE DEF f
  <2> QED
    BY <1>2, <2>1, FS_Injection
<1>5. Cardinality(E) = NumShards - Cardinality(ShardsOf(I))
  <2>1. Shards \cap ShardsOf(I) = ShardsOf(I)
    BY <1>2
  <2> QED
    BY <1>2, <2>1, FS_Difference, ZenonT(40)
<1>6. F \subseteq E
  BY DEF ShardsOf
<1> HIDE DEF E, F
<1>7. Cardinality(F) <= Cardinality(E)
  BY <1>2, <1>6, FS_Subset
<1>8. Cardinality(T) <= Cardinality(P) + Cardinality(I)
  BY <1>2, UnionSize
<1> HIDE DEF T
<1>9. Cardinality(T) + Cardinality(F) <= Cardinality(P) + NumShards
  BY <1>2, <1>3, <1>4, <1>5, <1>7, <1>8
<1>10. Weight(T) <= Cardinality(P) + NumShards
  BY <1>9 DEF Weight, F
<1> QED
  BY <1>10 DEF T

LEMMA WeightType ==
  ASSUME NEW S, S \subseteq Keys
  PROVE  Weight(S) \in Nat /\ Cardinality(S) <= Weight(S)
<1>1. Cardinality(S) \in Nat /\ Cardinality(Shards \ ShardsOf(S)) \in Nat
  BY SizeFacts
<1> QED
  BY <1>1 DEF Weight

(* The keys about to be stored. *)
Pending(o) == {o[c].req.keys[o[c].i] : c \in {d \in Clients : o[d].pc = "insert"}}

LEMMA PendingOK ==
  ASSUME Inv
  PROVE  /\ Pending(op) \subseteq Keys
         /\ \A k \in Pending(op) : ~Present(store, k)
         /\ \A j, k \in Pending(op) : ShardOf(j) = ShardOf(k) => j = k
         /\ \A c \in Clients, k \in Pending(op) :
              op[c].pc \in Inserting /\ ShardOf(k) = Sh(c) => k = Key(c) /\ op[c].pc = "insert"
         /\ \A c \in Clients : op[c].pc = "insert" => Key(c) \in Pending(op)
         /\ Counted(store, op) = PresentKeys(store) \cup Pending(op)
         /\ Counted(store, op) \subseteq Keys
<1>1. \A k \in Pending(op) : \E c \in Clients : op[c].pc = "insert" /\ k = Key(c)
  BY DEF Pending, Key
<1>2. ASSUME NEW c \in Clients, op[c].pc \in Inserting
      PROVE  Key(c) \in Keys /\ ~Present(store, Key(c)) /\ lock[ShardOf(Key(c))] = c
  BY <1>2, InsertingFacts DEF Sh
<1>3. "insert" \in Inserting
  BY DEF Inserting
<1>4. /\ \A k \in Pending(op) : k \in Keys /\ ~Present(store, k)
      /\ \A j, k \in Pending(op) : ShardOf(j) = ShardOf(k) => j = k
  BY <1>1, <1>2, <1>3
<1>5. \A c \in Clients, k \in Pending(op) :
        op[c].pc \in Inserting /\ ShardOf(k) = Sh(c) => k = Key(c) /\ op[c].pc = "insert"
  BY <1>1, <1>2, <1>3 DEF Sh
<1>6. \A c \in Clients : op[c].pc = "insert" => Key(c) \in Pending(op)
  BY DEF Pending, Key
<1>7. Counted(store, op) = PresentKeys(store) \cup Pending(op)
  BY DEF Counted, Pending
<1>8. PresentKeys(store) \subseteq Keys
  BY DEF PresentKeys
<1> QED
  BY <1>4, <1>5, <1>6, <1>7, <1>8

LEMMA PendingMoves ==
  ASSUME Inv, [Next]_vars, NEW k \in Pending(op')
  PROVE  \/ k \in Pending(op)
         \/ \E c \in Clients : (LoadCount(c) \/ Evict(c)) /\ op'[c].pc = "insert" /\ k = Key(c)
<1>1. PICK c \in Clients : op'[c].pc = "insert" /\ k = op'[c].req.keys[op'[c].i]
  BY DEF Pending
<1>2. CASE op'[c] = op[c]
  BY <1>1, <1>2 DEF Pending
<1>3. CASE LoadCount(c) \/ Evict(c)
  <2>1. PICK pc : op' = [op EXCEPT ![c] = AtPC(op[c], pc)]
    BY <1>3 DEF LoadCount, Evict
  <2>2. op'[c] = AtPC(op[c], pc)
    BY <2>1 DEF Inv, TypeOK
  <2>3. op'[c].req = op[c].req /\ op'[c].i = op[c].i
    BY <2>2 DEF AtPC, Call
  <2> QED
    BY <1>1, <1>3, <2>3 DEF Key
<1> QED
  BY <1>1, <1>2, <1>3, OwnMoves

LEMMA CapStep ==
  ASSUME "Rename" \notin Commands, Inv, CapInv, [Next]_vars
  PROVE  CapInv'
<1> SUFFICES ASSUME MaxEntries > 0
             PROVE  Weight(Counted(store', op')) <= MaxEntries + NumShards - 1
  BY DEF CapInv, Counted
<1> DEFINE S == Counted(store, op)
           T == Counted(store', op')
           P == PresentKeys(store)
           Q == PresentKeys(store')
           I == Pending(op)
           J == Pending(op')
<1>1. S = P \cup I /\ T = Q \cup J /\ P \subseteq Keys /\ Q \subseteq Keys
      /\ I \subseteq Keys /\ S \subseteq Keys
  BY PendingOK DEF Counted, Pending, PresentKeys
<1>2. Inv' /\ Q \subseteq P \cup Arriving
  BY NextOK DEF StepOK
<1>3. Arriving \subseteq I
  <2>1. \A c \in Clients : op[c].pc # "idle" => Req(c).name # "Rename"
    BY DEF Inv, CallOK, ReqOK, Req
  <2> QED
    BY <2>1, PendingOK DEF Arriving
<1>4. Weight(S) \in Nat /\ NumShards \in Nat /\ MaxEntries \in Int
      /\ Weight(S) <= MaxEntries + NumShards - 1
  BY <1>1, WeightType, ShardAssumption, SizeAssumption DEF CapInv
<1>5. CASE \A c \in Clients : (LoadCount(c) \/ Evict(c)) => op'[c].pc # "insert"
  <2>1. J \subseteq I
    BY <1>5, PendingMoves
  <2>2. T \subseteq S
    BY <1>1, <1>2, <1>3, <2>1
  <2> HIDE DEF S, T
  <2>3. Weight(T) <= Weight(S) /\ Weight(T) \in Nat
    <3>1. T \subseteq Keys
      BY <1>1, <2>2
    <3> QED
      BY <1>1, <2>2, <3>1, WeightShrinks, WeightType
  <2> QED
    BY <1>4, <2>3 DEF T
<1>6. ASSUME NEW c \in Clients, LoadCount(c) \/ Evict(c), op'[c].pc = "insert"
      PROVE  Weight(T) <= MaxEntries + NumShards - 1
  <2> DEFINE K == I \cup {Key(c)}
  <2>1. op[c].pc \in {"load", "evict"} /\ op[c].pc \in Inserting
    BY <1>6 DEF LoadCount, Evict, Inserting
  <2>2. Key(c) \in Keys /\ Sh(c) = ShardOf(Key(c)) /\ K \subseteq Keys
    BY <1>1, <2>1, InsertingFacts DEF Sh
  <2>3. \A k \in I : ShardOf(k) # Sh(c)
    BY <2>1, PendingOK
  <2>4. J \subseteq K
    <3>1. PICK x : op' = [op EXCEPT ![c] = x]
      BY <1>6 DEF LoadCount, Evict
    <3>2. \A d \in Clients \ {c} : op'[d] = op[d]
      BY <3>1 DEF Inv, TypeOK
    <3>3. \A d \in Clients \ {c} : LoadCount(d) \/ Evict(d) => op'[d].pc # "insert"
      BY <3>2 DEF LoadCount, Evict
    <3> QED
      BY <3>3, PendingMoves
  <2>5. CASE LoadCount(c)
    <3>1. store' = store /\ store.entryCount + 1 <= MaxEntries
      <4>1. op' = [op EXCEPT ![c] = AtPC(op[c], IF MaxEntries <= 0 \/ store.entryCount + 1 <= MaxEntries
                                               THEN "insert" ELSE "evict")]
        BY <2>5 DEF LoadCount
      <4>2. op'[c].pc = IF MaxEntries <= 0 \/ store.entryCount + 1 <= MaxEntries
                        THEN "insert" ELSE "evict"
        BY <4>1 DEF Inv, TypeOK, AtPC, Call
      <4>3. ~(MaxEntries <= 0)
        BY <1>4
      <4> QED
        BY <1>6, <2>5, <4>2, <4>3 DEF LoadCount
    <3>2. store.entryCount = Cardinality(P) /\ Cardinality(P) \in Nat
      BY PresentFinite DEF Inv, StoreOK
    <3>3. T \subseteq P \cup K /\ P \cup K \subseteq Keys
      BY <1>1, <2>2, <2>4, <3>1
    <3>4. \A j, k \in K : ShardOf(j) = ShardOf(k) => j = k
      BY <2>2, <2>3, PendingOK
    <3> HIDE DEF P, K, T
    <3>5. Weight(P \cup K) <= Cardinality(P) + NumShards
      BY <1>1, <2>2, <3>4, WeightOfPending
    <3>6. Weight(T) <= Weight(P \cup K) /\ Weight(T) \in Nat /\ Weight(P \cup K) \in Nat
      <4>1. T \subseteq Keys
        BY <3>3
      <4> QED
        BY <3>3, <4>1, WeightShrinks, WeightType
    <3> DEFINE w == Weight(P \cup K)
               t == Weight(T)
               n == Cardinality(P)
    <3>7. n + 1 <= MaxEntries /\ w <= n + NumShards /\ t <= w /\ t \in Nat /\ w \in Nat /\ n \in Nat
      BY <3>1, <3>2, <3>5, <3>6
    <3> HIDE DEF w, t, n
    <3>8. t <= MaxEntries + NumShards - 1
      BY <1>4, <3>7
    <3> QED
      BY <3>8 DEF t
  <2>6. CASE Evict(c) /\ Resident(store, Sh(c)) = {} /\ store' = store
    <3>1. Sh(c) \notin ShardsOf(S)
      BY <1>1, <2>3, <2>6 DEF ShardsOf, Resident, PresentKeys
    <3>2. T \subseteq S \cup {Key(c)} /\ S \cup {Key(c)} \subseteq Keys
      BY <1>1, <2>2, <2>4, <2>6
    <3> HIDE DEF S, T
    <3>3. Weight(S \cup {Key(c)}) <= Weight(S)
      BY <1>1, <2>2, <3>1, WeightSettled
    <3>4. /\ Weight(T) <= Weight(S \cup {Key(c)})
          /\ Weight(T) \in Nat /\ Weight(S \cup {Key(c)}) \in Nat
      <4>1. T \subseteq Keys
        BY <3>2
      <4> QED
        BY <3>2, <4>1, WeightShrinks, WeightType
    <3> QED
      BY <1>4, <3>3, <3>4
  <2>7. ASSUME NEW v \in Victims(store, Sh(c), Now(c)), store' = Remove(store, v)
        PROVE  Weight(T) <= MaxEntries + NumShards - 1
    <3> DEFINE U == (S \ {v}) \cup {Key(c)}
    <3>1. v \in Keys /\ v \in P /\ ShardOf(v) = ShardOf(Key(c))
      BY <2>2 DEF Victims, Resident, PresentKeys
    <3>2. Q \subseteq P \ {v}
      <4>1. store'.data = [store.data EXCEPT ![v] = NoEntry]
        BY <2>7 DEF Remove, bumpVersionLocked, deleteEntryLocked, Store
      <4>2. ~Present(store', v) /\ \A k \in Keys \ {v} : store'.data[k] = store.data[k]
        BY <3>1, <4>1 DEF Inv, StoreOK, Present, NoEntry, Entry
      <4> QED
        BY <4>2 DEF PresentKeys, Present
    <3>3. v \notin I
      BY <3>1, PendingOK DEF PresentKeys
    <3>4. T \subseteq U /\ U \subseteq Keys /\ v \in S
      BY <1>1, <2>2, <2>4, <3>1, <3>2, <3>3
    <3> HIDE DEF S, T
    <3>5. Weight(U) <= Weight(S)
      BY <1>1, <2>2, <3>1, <3>4, WeightReplaced
    <3> HIDE DEF U
    <3>6. Weight(T) <= Weight(U) /\ Weight(T) \in Nat /\ Weight(U) \in Nat
      <4>1. T \subseteq Keys
        BY <3>4
      <4> QED
        BY <3>4, <4>1, WeightShrinks, WeightType
    <3> QED
      BY <1>4, <3>5, <3>6
  <2> QED
    BY <1>6, <2>5, <2>6, <2>7 DEF Evict
<1> QED
  BY <1>5, <1>6

(* The number of entries exceeds the cap by less than the number of        *)
(* shards, although evictIfNeededLocked tests one counter for all shards   *)
(* under one shard's lock and evicts only from the receiving shard - as    *)
(* long as nothing is renamed: a rename stores its key without the check.  *)
THEOREM CapHolds ==
  ASSUME "Rename" \notin Commands
  PROVE  Spec => []CapBound
<1> DEFINE CI == Inv /\ CapInv
<1>1. Init => CI
  <2> SUFFICES ASSUME Init PROVE CapInv
    BY InitOK
  <2>1. \A c \in Clients : op[c].pc = "idle"
    BY DEF Init, Idle, Call
  <2>2. \A k \in Keys : ~Present(store, k)
    BY DEF Init, Store, Present, NoEntry, Entry
  <2>3. Counted(store, op) = {}
    BY <2>1, <2>2 DEF Counted, PresentKeys
  <2>4. ShardsOf({}) = {}
    BY DEF ShardsOf
  <2>5. Weight({}) = NumShards
    <3>1. Cardinality(Shards) = NumShards /\ NumShards \in Nat
      BY SizeFacts
    <3>2. Shards \ {} = Shards
      OBVIOUS
    <3> QED
      BY <2>4, <3>1, <3>2, FS_EmptySet DEF Weight
  <2> QED
    BY <2>3, <2>5, ShardAssumption, SizeAssumption DEF CapInv
<1>2. CI /\ [Next]_vars => CI'
  BY CapStep, NextOK DEF StepOK
<1>3. CI => CapBound
  <2> SUFFICES ASSUME Inv, CapInv, MaxEntries > 0
               PROVE  store.entryCount <= MaxEntries + NumShards - 1
    BY DEF CapBound
  <2> DEFINE P == PresentKeys(store)
             S == Counted(store, op)
  <2>1. P \subseteq S /\ S \subseteq Keys /\ P \subseteq Keys
    BY PendingOK DEF PresentKeys
  <2>2. store.entryCount = Cardinality(P)
    BY DEF Inv, StoreOK
  <2>3. Weight(S) <= MaxEntries + NumShards - 1
    BY DEF CapInv
  <2> HIDE DEF P, S
  <2>4. Cardinality(P) <= Weight(P) /\ Weight(P) <= Weight(S)
    BY <2>1, WeightShrinks, WeightType
  <2>5. Cardinality(P) \in Nat /\ Weight(P) \in Nat /\ Weight(S) \in Nat
    BY <2>1, WeightType, SizeFacts
  <2>6. NumShards \in Nat /\ MaxEntries \in Int
    BY ShardAssumption, SizeAssumption
  <2> QED
    BY <2>2, <2>3, <2>4, <2>5, <2>6
<1> QED
  BY <1>1, <1>2, <1>3, PTL DEF Spec

-----------------------------------------------------------------------------
(* Contents.  Every entry holds a value of its kind, and no collection is  *)
(* empty; a store without such an entry is filled.                         *)
Filled(st) == \A k \in Keys : IsContent(st.data[k].kind, st.data[k].val)

(* A store in which one key has got a proper entry. *)
LEMMA PutFilled ==
  ASSUME NEW s, StoreOK(s), Filled(s), NEW k \in Keys, NEW e, IsContent(e.kind, e.val),
         NEW t, t.data = [s.data EXCEPT ![k] = e]
  PROVE  Filled(t)
<1>1. /\ t.data[k] = e
      /\ \A x \in Keys \ {k} : t.data[x] = s.data[x]
  BY DEF StoreOK
<1>2. ASSUME NEW x \in Keys PROVE IsContent(t.data[x].kind, t.data[x].val)
  <2>1. CASE x = k
    BY <1>1, <2>1
  <2>2. CASE x # k
    BY <1>1, <2>2 DEF Filled
  <2> QED
    BY <2>1, <2>2
<1> QED
  BY <1>2 DEF Filled

(* An absent key holds nothing. *)
LEMMA NothingOK == IsContent(NoEntry.kind, NoEntry.val)
  BY DEF IsContent, NoEntry, Entry

LEMMA RemoveFilled ==
  ASSUME NEW s, StoreOK(s), Filled(s), NEW k \in Keys
  PROVE  Filled(Remove(s, k))
<1>1. Remove(s, k).data = [s.data EXCEPT ![k] = NoEntry]
  BY DEF Remove, bumpVersionLocked, deleteEntryLocked, Store
<1> QED
  BY <1>1, NothingOK, PutFilled

LEMMA FetchFilled ==
  ASSUME NEW s, StoreOK(s), Filled(s), NEW k \in Keys, NEW now
  PROVE  Filled(getForWriteLocked(s, k, now))
  BY RemoveFilled DEF getForWriteLocked

LEMMA RemoveAllFilled ==
  ASSUME NEW s, StoreOK(s), Filled(s), NEW S
  PROVE  Filled(RemoveAll(s, S))
<1> DEFINE t == RemoveAll(s, S)
<1>1. t.data = [k \in Keys |-> IF k \in S THEN NoEntry ELSE s.data[k]]
  BY DEF RemoveAll, Store
<1> HIDE DEF t
<1>2. ASSUME NEW x \in Keys PROVE IsContent(t.data[x].kind, t.data[x].val)
  <2>1. CASE x \in S
    BY <1>1, <2>1, NothingOK
  <2>2. CASE x \notin S
    BY <1>1, <2>2 DEF Filled
  <2> QED
    BY <2>1, <2>2
<1>3. Filled(t)
  BY <1>2 DEF Filled
<1> QED
  BY <1>3 DEF t

LEMMA SetEntryFilled ==
  ASSUME NEW s, StoreOK(s), Filled(s), NEW k \in Keys, NEW e, IsContent(e.kind, e.val)
  PROVE  Filled(setEntryLocked(s, k, e))
<1>1. setEntryLocked(s, k, e).data = [s.data EXCEPT ![k] = e]
  BY DEF setEntryLocked, bumpVersionLocked, Store
<1> QED
  BY <1>1, PutFilled

(* Expiry and access bookkeeping keep the value. *)
LEMMA SameValueFilled ==
  ASSUME NEW s, StoreOK(s), Filled(s), NEW k \in Keys, NEW at
  PROVE  /\ Filled(setExpiryLocked(s, k, at))
         /\ Filled(Mutate(s, k, Touched(s.data[k], at)))
<1>0. IsContent(s.data[k].kind, s.data[k].val)
  BY DEF Filled
<1>1. Filled(setExpiryLocked(s, k, at))
  <2> DEFINE e == WithExpiry(s.data[k], at)
             t == setExpiryLocked(s, k, at)
  <2>1. t.data = [s.data EXCEPT ![k] = e]
    BY DEF setExpiryLocked, bumpVersionLocked, Store
  <2>2. e.kind = s.data[k].kind /\ e.val = s.data[k].val
    BY DEF WithExpiry, Entry
  <2> HIDE DEF e, t
  <2>3. Filled(t)
    BY <1>0, <2>1, <2>2, PutFilled
  <2> QED
    BY <2>3 DEF t
<1>2. Filled(Mutate(s, k, Touched(s.data[k], at)))
  <2> DEFINE e == Touched(s.data[k], at)
             t == Mutate(s, k, e)
  <2>1. t.data = [s.data EXCEPT ![k] = e]
    BY DEF Mutate, Store
  <2>2. e.kind = s.data[k].kind /\ e.val = s.data[k].val
    BY DEF Touched, Entry
  <2> HIDE DEF e
  <2> HIDE DEF t
  <2>3. Filled(t)
    BY <1>0, <2>1, <2>2, PutFilled
  <2> QED
    BY <2>3 DEF t, e
<1> QED
  BY <1>1, <1>2

(* A collection gets a new value of its kind. *)
LEMMA NewValueFilled ==
  ASSUME NEW s, StoreOK(s), Filled(s), NEW k \in Keys, NEW val, IsContent(s.data[k].kind, val),
         NEW e, e.kind = s.data[k].kind, e.val = val
  PROVE  Filled(bumpVersionLocked(Mutate(s, k, e), k))
<1>1. bumpVersionLocked(Mutate(s, k, e), k).data = [s.data EXCEPT ![k] = e]
  BY DEF bumpVersionLocked, Mutate, Store
<1> QED
  BY <1>1, PutFilled

LEMMA ShrunkFilled ==
  ASSUME NEW s, StoreOK(s), Filled(s), NEW k \in Keys, NEW val,
         val # Empty => IsContent(s.data[k].kind, val)
  PROVE  Filled(Shrunk(s, k, val))
<1> DEFINE w == WithContent(s.data[k], val)
<1>1. w.kind = s.data[k].kind /\ w.val = val
  BY DEF WithContent, Entry
<1> HIDE DEF w
<1>2. val # Empty => Filled(bumpVersionLocked(Mutate(s, k, w), k))
  BY <1>1, NewValueFilled
<1> QED
  BY <1>2, RemoveFilled DEF Shrunk, w

(* A rename carries the value along. *)
LEMMA MovedFilled ==
  ASSUME NEW s, StoreOK(s), Filled(s), NEW old \in Keys, NEW new \in Keys, NEW now
  PROVE  Filled(Moved(s, old, new, now))
<1> DEFINE f == getForWriteLocked(s, old, now)
           e == f.data[old]
           d == deleteEntryLocked(f, old)
           t == bumpVersionLocked(setEntryLocked(d, new, e), old)
<1>1. StoreOK(f) /\ Filled(f)
  BY FetchGood, FetchFilled DEF Good
<1>2. Moved(s, old, new, now) = IF ~Present(f, old) THEN f ELSE t
  BY DEF Moved
<1> HIDE DEF f
<1>3. IsContent(e.kind, e.val)
  BY <1>1 DEF Filled
<1>4. t.data = [[f.data EXCEPT ![old] = NoEntry] EXCEPT ![new] = e]
  BY DEF setEntryLocked, bumpVersionLocked, deleteEntryLocked, Store
<1> HIDE DEF e, t, d
<1>5. ASSUME NEW x \in Keys PROVE IsContent(t.data[x].kind, t.data[x].val)
  <2>0. f.data = [k \in Keys |-> f.data[k]]
    BY <1>1 DEF StoreOK
  <2>1. t.data[x] = IF x = new THEN e ELSE IF x = old THEN NoEntry ELSE f.data[x]
    BY <1>4, <2>0
  <2> QED
    BY <1>1, <1>3, <2>1, NothingOK DEF Filled
<1>6. Filled(t)
  BY <1>5 DEF Filled
<1> QED
  BY <1>1, <1>2, <1>6

-----------------------------------------------------------------------------
(* What the operators of Containers return. *)
IsMap(v) == DOMAIN v \subseteq Elems /\ \A x \in DOMAIN v : v[x] \in Int

LEMMA MapContent ==
  ASSUME NEW kind \in {"hash", "set", "zset"}, NEW v
  PROVE  IsContent(kind, v) <=> DOMAIN v # {} /\ IsMap(v)
  BY DEF IsContent, IsMap

LEMMA ListContent ==
  ASSUME NEW v
  PROVE  IsContent("list", v) <=> v \in Seq(Int) /\ Len(v) > 0
  BY DEF IsContent

LEMMA PutMap ==
  ASSUME NEW m, IsMap(m), NEW x \in Elems, NEW v \in Int
  PROVE  IsMap(MapPut(m, x, v)) /\ DOMAIN MapPut(m, x, v) # {}
  BY DEF MapPut, IsMap

(* A map without an element is the empty one. *)
LEMMA DelMap ==
  ASSUME NEW m, IsMap(m), NEW x, MapDel(m, x) # Empty
  PROVE  IsMap(MapDel(m, x)) /\ DOMAIN MapDel(m, x) # {}
<1>1. IsMap(MapDel(m, x))
  BY DEF MapDel, IsMap
<1>2. ASSUME DOMAIN MapDel(m, x) = {} PROVE MapDel(m, x) = Empty
  <2>1. DOMAIN m \ {x} = {}
    BY <1>2 DEF MapDel
  <2>2. MapDel(m, x) = [y \in {} |-> m[y]]
    BY <2>1 DEF MapDel
  <2>3. [y \in {} |-> m[y]] = <<>>
    OBVIOUS
  <2> QED
    BY <2>2, <2>3 DEF Empty
<1> QED
  BY <1>1, <1>2

LEMMA EmptyValues == IsMap(Empty) /\ Empty \in Seq(Int) /\ Len(Empty) = 0
  BY DEF IsMap, Empty

LEMMA AddInt64Type ==
  ASSUME NEW a \in Int, NEW b \in Int
  PROVE  AddInt64(a, b) \in Int
  BY IntWidthAssumption DEF AddInt64

(* A creating method turns a value of its kind, or the empty one that      *)
(* ensureKind stores, into a proper one.                                   *)
LEMMA NewContentOK ==
  ASSUME NEW r \in ReqType, r.name \in Creators, r.name \in ElemWrites => r.elem \in Elems,
         NEW v, v = Empty \/ IsContent(KindOf(r.name), v)
  PROVE  IsContent(KindOf(r.name), NewContent(r, v))
<1>0. r.val \in Int /\ r.num \in Int
  BY DEF ReqType
<1>1. CASE r.name \in ElemWrites
  <2>1. KindOf(r.name) \in {"hash", "set", "zset"}
    BY <1>1 DEF KindOf, ElemWrites
  <2>2. IsMap(v)
    BY <2>1, MapContent, EmptyValues
  <2>3. PICK n \in Int : NewContent(r, v) = MapPut(v, r.elem, n)
    <3>1. CASE r.name = "HSet"
      BY <1>0, <3>1 DEF NewContent
    <3>2. CASE r.name = "HIncrBy"
      <4>1. (IF r.elem \in DOMAIN v THEN v[r.elem] ELSE 0) \in Int
        BY <2>2 DEF IsMap
      <4>2. AddInt64(IF r.elem \in DOMAIN v THEN v[r.elem] ELSE 0, r.num) \in Int
        BY <1>0, <4>1, AddInt64Type
      <4> QED
        BY <3>2, <4>2 DEF NewContent, HIncrBy
    <3>3. CASE r.name = "SAdd"
      BY <3>3 DEF NewContent
    <3>4. CASE r.name = "ZAdd"
      BY <1>0, <3>4 DEF NewContent
    <3>5. CASE r.name = "ZIncrBy"
      <4>1. (IF r.elem \in DOMAIN v THEN v[r.elem] ELSE 0) + r.num \in Int
        BY <1>0, <2>2 DEF IsMap
      <4> QED
        BY <3>5, <4>1 DEF NewContent, ZIncrBy
    <3> QED
      BY <1>1, <3>1, <3>2, <3>3, <3>4, <3>5 DEF ElemWrites
  <2>4. IsMap(NewContent(r, v)) /\ DOMAIN NewContent(r, v) # {}
    BY <1>1, <2>2, <2>3, PutMap
  <2> QED
    BY <2>1, <2>4, MapContent
<1>2. CASE r.name \notin ElemWrites
  <2>1. r.name \in {"LPush", "RPush"} /\ KindOf(r.name) = "list"
    BY <1>2 DEF Creators, ElemWrites, KindOf
  <2>2. v \in Seq(Int)
    BY <2>1, ListContent, EmptyValues
  <2>3. <<r.val>> \in Seq(Int) /\ Len(<<r.val>>) = 1
    BY <1>0
  <2>4. Reversed(<<r.val>>) \in Seq(Int) /\ Len(Reversed(<<r.val>>)) = 1
    BY <1>0, <2>3 DEF Reversed
  <2>5. CASE r.name = "LPush"
    <3>1. NewContent(r, v) = Reversed(<<r.val>>) \o v
      BY <2>5 DEF NewContent, LPush
    <3> DEFINE w == Reversed(<<r.val>>)
    <3>a. w \in Seq(Int) /\ Len(w) = 1
      BY <2>4
    <3> HIDE DEF w
    <3>2. w \o v \in Seq(Int) /\ Len(w \o v) > 0
      BY <2>2, <3>a
    <3>3. NewContent(r, v) \in Seq(Int) /\ Len(NewContent(r, v)) > 0
      BY <3>1, <3>2 DEF w
    <3> QED
      BY <2>1, <3>3, ListContent
  <2>6. CASE r.name = "RPush"
    <3>1. NewContent(r, v) = v \o <<r.val>>
      BY <2>6 DEF NewContent, RPush
    <3>2. NewContent(r, v) \in Seq(Int) /\ Len(NewContent(r, v)) > 0
      BY <2>2, <2>3, <3>1
    <3> QED
      BY <2>1, <3>2, ListContent
  <2> QED
    BY <2>1, <2>5, <2>6
<1> QED
  BY <1>1, <1>2

-----------------------------------------------------------------------------
(* What loops over lists select. *)

(* The members of P up to p. *)
Upto(P, p) == {q \in P : q <= p}

LEMMA IntervalSize ==
  ASSUME NEW a \in Int, NEW b \in Int
  PROVE  /\ IsFiniteSet(a..b)
         /\ Cardinality(a..b) = IF a > b THEN 0 ELSE b - a + 1
BY FS_Interval

(* Parts of an interval of positions are finite, and Upto counts in them. *)
LEMMA UptoSize ==
  ASSUME NEW n \in Nat, NEW P, P \subseteq 1..n, NEW p \in P
  PROVE  /\ IsFiniteSet(P) /\ Cardinality(P) \in Nat
         /\ IsFiniteSet(Upto(P, p)) /\ Cardinality(Upto(P, p)) \in 1..Cardinality(P)
<1>1. IsFiniteSet(1..n)
  BY IntervalSize
<1>2. IsFiniteSet(P) /\ Cardinality(P) \in Nat
  BY <1>1, FS_Subset, FS_CardinalityType
<1>3. Upto(P, p) \in SUBSET P /\ p \in Upto(P, p)
  <2>1. p \in Int
    OBVIOUS
  <2> QED
    BY <2>1 DEF Upto
<1>4. IsFiniteSet(Upto(P, p)) /\ Cardinality(Upto(P, p)) \in Nat /\ Cardinality(Upto(P, p)) <= Cardinality(P)
  BY <1>2, <1>3, FS_Subset, FS_CardinalityType
<1>5. Cardinality(Upto(P, p)) # 0
  BY <1>3, <1>4, FS_EmptySet
<1> QED
  BY <1>2, <1>4, <1>5

(* LRANGE, ZRANGE and ZREVRANGE select the positions they should. *)
LEMMA RangeRight ==
  ASSUME NEW S, NEW l \in Seq(S), NEW i \in Int, NEW j \in Int
  PROVE  IsSubsequence(RangeOf(l, i, j), l, Selected(l, i, j))
<1> DEFINE n == Len(l)
           lo == normalizeIndex(i, n)
           hi == normalizeIndex(j, n)
           a == IF lo < 0 THEN 0 ELSE lo
           b == IF hi >= n THEN n - 1 ELSE hi
           P == Selected(l, i, j)
<1>1. n \in Nat
  OBVIOUS
<1>2. lo \in Int /\ hi \in Int
  BY <1>1 DEF normalizeIndex
<1>3. a \in Nat /\ b \in Int /\ b <= n - 1
  <2> HIDE DEF lo, hi, n
  <2> QED
    BY <1>1, <1>2
<1>4. P = {p \in 1..n : lo <= p - 1 /\ p - 1 <= hi}
  BY DEF Selected, normalizeIndex
<1>5. P = (a + 1)..(b + 1)
  <2> HIDE DEF lo, hi, n, P
  <2> QED
    BY <1>1, <1>2, <1>4
<1>6. RangeOf(l, i, j) = IF a > b \/ n = 0 THEN <<>> ELSE SubSeq(l, a + 1, b + 1)
  BY DEF RangeOf
<1> HIDE DEF a, b, n, P, lo, hi
<1>7. CASE a > b
  <2>1. P = {}
    BY <1>3, <1>5, <1>7
  <2> QED
    BY <1>6, <1>7, <2>1, FS_EmptySet DEF IsSubsequence, P
<1>8. CASE ~(a > b)
  <2>1. n # 0 /\ a + 1 \in 1..n /\ b + 1 \in 1..n /\ a + 1 <= b + 1
    BY <1>1, <1>3, <1>8
  <2> DEFINE out == SubSeq(l, a + 1, b + 1)
  <2>2. RangeOf(l, i, j) = out
    BY <1>6, <1>8, <2>1
  <2>3. Len(out) = b - a + 1 /\ \A k \in 1..(b - a + 1) : out[k] = l[a + k]
    BY <1>3, <2>1 DEF n
  <2>4. Cardinality(P) = b - a + 1
    BY <1>3, <1>5, <1>8, IntervalSize
  <2> HIDE DEF out
  <2>5. ASSUME NEW p \in P PROVE out[Cardinality({q \in P : q <= p})] = l[p]
    <3>1. p \in Int /\ a + 1 <= p /\ p <= b + 1
      BY <1>3, <1>5
    <3>2. {q \in P : q <= p} = (a + 1)..p
      BY <1>3, <1>5, <3>1
    <3>3. Cardinality((a + 1)..p) = p - a
      BY <1>3, <3>1, IntervalSize
    <3>4. p - a \in 1..(b - a + 1) /\ a + (p - a) = p
      BY <1>3, <3>1
    <3> QED
      BY <2>3, <3>2, <3>3, <3>4
  <2> QED
    BY <2>2, <2>3, <2>4, <2>5 DEF IsSubsequence, P
<1> QED
  BY <1>7, <1>8

(* Taking the next position makes the subsequence longer by one. *)
LEMMA SubsequenceGrows ==
  ASSUME NEW n \in Nat, NEW P, P \subseteq 1..n, NEW S, NEW out \in Seq(S), NEW s,
         IsSubsequence(out, s, P), s[n + 1] \in S
  PROVE  IsSubsequence(Append(out, s[n + 1]), s, P \cup {n + 1})
<1> DEFINE Q == P \cup {n + 1}
           new == Append(out, s[n + 1])
<1>1. IsFiniteSet(1..n)
  BY IntervalSize
<1>2. IsFiniteSet(P) /\ Cardinality(P) \in Nat
  BY <1>1, FS_Subset, FS_CardinalityType
<1>3. n + 1 \notin P
  OBVIOUS
<1>4. Cardinality(Q) = Cardinality(P) + 1
  BY <1>2, <1>3, FS_AddElement
<1>5. Len(out) = Cardinality(P)
  BY DEF IsSubsequence
<1>6. /\ Len(new) = Cardinality(P) + 1 /\ new[Cardinality(P) + 1] = s[n + 1]
      /\ \A k \in 1..Cardinality(P) : new[k] = out[k]
  BY <1>2, <1>5
<1> HIDE DEF new
<1>7. ASSUME NEW p \in Q PROVE new[Cardinality({q \in Q : q <= p})] = s[p]
  <2>1. CASE p = n + 1
    <3>0. \A q \in Q : q <= p
      BY <2>1
    <3>1. {q \in Q : q <= p} = Q
      BY <3>0, Zenon
    <3> QED
      BY <1>4, <1>6, <2>1, <3>1
  <2>2. CASE p # n + 1
    <3>1. p \in P
      BY <2>2
    <3>2. {q \in Q : q <= p} = Upto(P, p)
      BY <3>1 DEF Upto
    <3>3. Cardinality(Upto(P, p)) \in 1..Cardinality(P)
      BY <3>1, UptoSize
    <3>4. out[Cardinality(Upto(P, p))] = s[p]
      BY <3>1 DEF IsSubsequence, Upto
    <3> QED
      BY <1>6, <3>2, <3>3, <3>4
  <2> QED
    BY <2>1, <2>2
<1> QED
  BY <1>4, <1>6, <1>7 DEF IsSubsequence, new

(* A loop that appends s[i] when i is in K, and nothing otherwise.         *)
LEMMA LoopSelects ==
  ASSUME NEW n \in Nat, NEW S, NEW s, \A i \in 1..n : s[i] \in S, NEW K, NEW out,
         out[0] = <<>>,
         \A i \in 1..n : out[i] = IF i \in K THEN Append(out[i - 1], s[i]) ELSE out[i - 1]
  PROVE  \A i \in 0..n : out[i] \in Seq(S) /\ IsSubsequence(out[i], s, K \cap 1..i)
<1> DEFINE Sel(i) == out[i] \in Seq(S) /\ IsSubsequence(out[i], s, K \cap 1..i)
           T == {i \in 0..n : Sel(i)}
<1>1. 0 \in T
  <2> DEFINE e == out[0]
  <2>1. e \in Seq(S) /\ Len(e) = 0
    OBVIOUS
  <2>2. K \cap 1..0 = {}
    OBVIOUS
  <2> HIDE DEF e
  <2>3. IsSubsequence(e, s, K \cap 1..0)
    BY <2>1, <2>2, FS_EmptySet DEF IsSubsequence
  <2>4. Sel(0)
    BY <2>1, <2>3, Zenon DEF e
  <2>5. 0 \in 0..n
    OBVIOUS
  <2> HIDE DEF Sel
  <2> QED
    BY <2>4, <2>5
<1>2. ASSUME NEW i \in 0..(n - 1), i \in T PROVE i + 1 \in T
  <2>1. i \in Nat /\ i + 1 \in 1..n /\ i + 1 \in 0..n /\ (i + 1) - 1 = i
    OBVIOUS
  <2>2. Sel(i)
    BY <1>2
  <2>3. K \cap 1..i \subseteq 1..i
    OBVIOUS
  <2>4. CASE i + 1 \in K
    <3>1. K \cap 1..(i + 1) = (K \cap 1..i) \cup {i + 1}
      BY <2>1, <2>4
    <3>2. out[i + 1] = Append(out[i], s[i + 1])
      BY <2>1, <2>4
    <3>3. s[i + 1] \in S
      BY <2>1
    <3>4. out[i] \in Seq(S) /\ IsSubsequence(out[i], s, K \cap 1..i)
      BY <2>2
    <3>5. IsSubsequence(Append(out[i], s[i + 1]), s, (K \cap 1..i) \cup {i + 1})
      BY <2>1, <2>3, <3>3, <3>4, SubsequenceGrows
    <3>6. out[i + 1] \in Seq(S)
      BY <3>2, <3>3, <3>4
    <3> QED
      BY <2>1, <3>1, <3>2, <3>5, <3>6
  <2>5. CASE i + 1 \notin K
    <3>1. K \cap 1..(i + 1) = K \cap 1..i
      BY <2>1, <2>5
    <3>2. out[i + 1] = out[i]
      BY <2>1, <2>5
    <3> QED
      BY <2>1, <2>2, <3>1, <3>2
  <2> QED
    BY <2>4, <2>5
<1> HIDE DEF T
<1>3. 0..n \subseteq T
  BY <1>1, <1>2, UpTo
<1> QED
  BY <1>3 DEF T

(* The states the loop of one pass of LRem goes through. *)
PassStep(l, limit, v, i, p) ==
  IF l[i] = v /\ (limit = 0 \/ p.removed < limit)
  THEN [out |-> p.out, removed |-> p.removed + 1]
  ELSE [out |-> Append(p.out, l[i]), removed |-> p.removed]

IsPass(pass, l, limit, v) ==
  /\ pass[0] = [out |-> <<>>, removed |-> 0]
  /\ \A i \in 1..Len(l) : pass[i] = PassStep(l, limit, v, i, pass[i - 1])
  /\ DropMatches(l, limit, v) = pass[Len(l)]

LEMMA DropMatchesPass ==
  ASSUME NEW E, NEW l \in Seq(E), NEW limit \in Int, NEW v
  PROVE  \E pass \in [0..Len(l) -> [out : Seq(E), removed : Nat]] : IsPass(pass, l, limit, v)
<1> DEFINE S == [out : Seq(E), removed : Nat]
           n == Len(l)
           a == [out |-> <<>>, removed |-> 0]
           V(i, p) == PassStep(l, limit, v, i, p)
           G == [i \in 1..n |-> [p \in S |-> V(i, p)]]
           Rec(f) == f = [i \in 0..n |-> IF i = 0 THEN a ELSE V(i, f[i - 1])]
           pass == CHOOSE f : Rec(f)
<1>1. n \in Nat /\ \A i \in 1..n : l[i] \in E
  OBVIOUS
<1>2. a \in S
  <2> DEFINE e == <<>>
  <2>1. e \in Seq(E) /\ a = [out |-> e, removed |-> 0]
    OBVIOUS
  <2> HIDE DEF e, a
  <2> QED
    BY <2>1
<1>3. ASSUME NEW i \in 1..n, NEW p \in S PROVE V(i, p) \in S
  <2>1. p.out \in Seq(E) /\ p.removed \in Nat /\ Append(p.out, l[i]) \in Seq(E)
    BY <1>1
  <2>2. [out |-> p.out, removed |-> p.removed + 1] \in S
    BY <2>1
  <2>3. [out |-> Append(p.out, l[i]), removed |-> p.removed] \in S
    <3> DEFINE w == Append(p.out, l[i])
    <3> SUFFICES [out |-> w, removed |-> p.removed] \in S
      OBVIOUS
    <3>1. w \in Seq(E)
      BY <2>1
    <3> HIDE DEF w
    <3> QED
      BY <2>1, <3>1
  <2> HIDE DEF S
  <2> QED
    BY <2>2, <2>3 DEF PassStep
<1>4. DropMatches(l, limit, v) = pass[n]
  BY DEF DropMatches, PassStep
<1> HIDE DEF n, V, a, S
<1>5. G \in [1..n -> [S -> S]]
  BY <1>3
<1>6. PICK f \in [0..n -> S] : DefinedBy(f, n, a, G)
  <2> HIDE DEF G
  <2> QED
    BY <1>1, <1>2, <1>5, Recursion, Zenon
<1>7. ASSUME NEW i \in 1..n PROVE f[i] = V(i, f[i - 1])
  <2>1. i - 1 \in 0..n
    BY <1>1
  <2>2. f[i - 1] \in S
    BY <2>1
  <2> QED
    BY <1>6, <2>2 DEF DefinedBy
<1>8. Rec(f)
  <2>1. ASSUME NEW i \in 0..n PROVE f[i] = IF i = 0 THEN a ELSE V(i, f[i - 1])
    <3>1. CASE i = 0
      BY <1>6, <3>1 DEF DefinedBy
    <3>2. CASE i # 0
      <4>1. i \in 1..n
        BY <1>1, <3>2
      <4> QED
        BY <1>7, <3>2, <4>1
    <3> QED
      BY <3>1, <3>2
  <2> QED
    BY <2>1
<1>9. Rec(pass)
  <2> HIDE DEF Rec
  <2> QED
    BY <1>8
<1> HIDE DEF pass
<1>10. pass[0] = a
  BY <1>1, <1>9
<1>11. ASSUME NEW i \in 1..n PROVE pass[i] = V(i, pass[i - 1])
  <2>1. i \in 0..n /\ i # 0
    BY <1>1
  <2> QED
    BY <1>9, <2>1
<1>12. \A i \in 0..n : pass[i] \in S
  <2>1. ASSUME NEW i \in 1..n, pass[i - 1] \in S PROVE pass[i] \in S
    BY <1>3, <1>11, <2>1
  <2> QED
    BY <1>1, <1>2, <1>10, <2>1, StaysIn
<1>13. pass \in [0..n -> S]
  BY <1>9, <1>12
<1>14. IsPass(pass, l, limit, v)
  BY <1>4, <1>10, <1>11 DEF IsPass, a, V, n
<1> QED
  BY <1>13, <1>14 DEF S, n

(* The positions up to p that hold v. *)
MatchesTo(l, v, p) == {q \in 1..p : l[q] = v}

LEMMA MatchesGrow ==
  ASSUME NEW l, NEW v, NEW i \in Nat
  PROVE  /\ IsFiniteSet(MatchesTo(l, v, i)) /\ Cardinality(MatchesTo(l, v, i)) \in Nat
         /\ Cardinality(MatchesTo(l, v, 0)) = 0
         /\ l[i + 1] = v => Cardinality(MatchesTo(l, v, i + 1)) = Cardinality(MatchesTo(l, v, i)) + 1
         /\ l[i + 1] # v => Cardinality(MatchesTo(l, v, i + 1)) = Cardinality(MatchesTo(l, v, i))
<1>1. MatchesTo(l, v, i) \in SUBSET (1..i) /\ IsFiniteSet(1..i)
  BY IntervalSize DEF MatchesTo
<1>2. IsFiniteSet(MatchesTo(l, v, i)) /\ Cardinality(MatchesTo(l, v, i)) \in Nat
  BY <1>1, FS_Subset, FS_CardinalityType
<1>3. MatchesTo(l, v, 0) = {}
  BY DEF MatchesTo
<1>4. CASE l[i + 1] = v
  <2>1. MatchesTo(l, v, i + 1) = MatchesTo(l, v, i) \cup {i + 1} /\ i + 1 \notin MatchesTo(l, v, i)
    BY <1>4 DEF MatchesTo
  <2>2. Cardinality(MatchesTo(l, v, i + 1)) = Cardinality(MatchesTo(l, v, i)) + 1
    BY <1>2, <2>1, FS_AddElement
  <2> QED
    BY <1>2, <1>3, <1>4, <2>2, FS_EmptySet
<1>5. CASE l[i + 1] # v
  <2>1. MatchesTo(l, v, i + 1) = MatchesTo(l, v, i)
    BY <1>5 DEF MatchesTo
  <2> QED
    BY <1>2, <1>3, <1>5, <2>1, FS_EmptySet
<1> QED
  BY <1>4, <1>5

(* The positions one pass empties. *)
Dropped(l, limit, v) ==
  {p \in 1..Len(l) : l[p] = v /\ (limit = 0 \/ Cardinality(MatchesTo(l, v, p)) <= limit)}

LEMMA DropMatchesRight ==
  ASSUME NEW E, NEW l \in Seq(E), NEW limit \in Nat, NEW v
  PROVE  LET r == DropMatches(l, limit, v)
             D == Dropped(l, limit, v)
         IN  /\ r.removed = Cardinality(D)
             /\ r.out \in Seq(E)
             /\ IsSubsequence(r.out, l, (1..Len(l)) \ D)
<1> DEFINE n == Len(l)
           S == [out : Seq(E), removed : Nat]
           D == Dropped(l, limit, v)
           m(i) == Cardinality(MatchesTo(l, v, i))
<1>1. n \in Nat /\ \A i \in 1..n : l[i] \in E
  OBVIOUS
<1>2. PICK pass \in [0..n -> S] : IsPass(pass, l, limit, v)
  <2>1. limit \in Int
    OBVIOUS
  <2> QED
    BY <2>1, DropMatchesPass, Zenon
<1>3. \A i \in 0..n : pass[i].removed \in Nat /\ pass[i].out \in Seq(E)
  BY <1>2
<1>4. \A i \in Nat : m(i) \in Nat /\ m(i + 1) = m(i) + IF l[i + 1] = v THEN 1 ELSE 0
  <2> TAKE i \in Nat
  <2>1. m(i) \in Nat /\ (l[i + 1] = v => m(i + 1) = m(i) + 1) /\ (l[i + 1] # v => m(i + 1) = m(i))
    BY MatchesGrow, Zenon
  <2> HIDE DEF m
  <2> QED
    BY <2>1
<1>5. m(0) = 0
  <2>1. 0 \in Nat
    OBVIOUS
  <2> QED
    BY <2>1, MatchesGrow, Zenon
<1> HIDE DEF m
<1>6. /\ pass[0].out = <<>> /\ pass[0].removed = 0
      /\ \A i \in 1..n :
           IF l[i] = v /\ (limit = 0 \/ pass[i - 1].removed < limit)
           THEN pass[i].out = pass[i - 1].out /\ pass[i].removed = pass[i - 1].removed + 1
           ELSE pass[i].out = Append(pass[i - 1].out, l[i]) /\ pass[i].removed = pass[i - 1].removed
  <2>1. pass[0].out = <<>> /\ pass[0].removed = 0
    BY <1>2 DEF IsPass
  <2> HIDE DEF S
  <2>2. ASSUME NEW i \in 1..n
        PROVE  IF l[i] = v /\ (limit = 0 \/ pass[i - 1].removed < limit)
               THEN pass[i].out = pass[i - 1].out /\ pass[i].removed = pass[i - 1].removed + 1
               ELSE pass[i].out = Append(pass[i - 1].out, l[i]) /\ pass[i].removed = pass[i - 1].removed
    <3> DEFINE w == Append(pass[i - 1].out, l[i])
    <3>1. pass[i] = IF l[i] = v /\ (limit = 0 \/ pass[i - 1].removed < limit)
                    THEN [out |-> pass[i - 1].out, removed |-> pass[i - 1].removed + 1]
                    ELSE [out |-> w, removed |-> pass[i - 1].removed]
      BY <1>2, Zenon DEF IsPass, PassStep
    <3> SUFFICES IF l[i] = v /\ (limit = 0 \/ pass[i - 1].removed < limit)
               THEN pass[i].out = pass[i - 1].out /\ pass[i].removed = pass[i - 1].removed + 1
               ELSE pass[i].out = w /\ pass[i].removed = pass[i - 1].removed
      OBVIOUS
    <3> HIDE DEF w
    <3> QED
      BY <3>1
  <2> QED
    BY <2>1, <2>2
<1> HIDE DEF n
<1>7. \A i \in 0..n : pass[i].removed = IF limit = 0 \/ m(i) < limit THEN m(i) ELSE limit
  <2> DEFINE T == {i \in 0..n : pass[i].removed = IF limit = 0 \/ m(i) < limit THEN m(i) ELSE limit}
  <2>1. 0 \in T
    BY <1>1, <1>5, <1>6
  <2>2. ASSUME NEW i \in 0..(n - 1), i \in T PROVE i + 1 \in T
    <3>1. i \in Nat /\ i + 1 \in 1..n /\ i + 1 \in 0..n /\ (i + 1) - 1 = i /\ i \in 0..n
      BY <1>1
    <3>2. m(i) \in Nat /\ m(i + 1) = m(i) + IF l[i + 1] = v THEN 1 ELSE 0
      BY <1>4, <3>1
    <3>3. pass[i].removed = IF limit = 0 \/ m(i) < limit THEN m(i) ELSE limit
      BY <2>2
    <3>4. pass[i + 1].removed = IF l[i + 1] = v /\ (limit = 0 \/ pass[i].removed < limit)
                                THEN pass[i].removed + 1 ELSE pass[i].removed
      BY <1>6, <3>1
    <3>5. pass[i + 1].removed = IF limit = 0 \/ m(i + 1) < limit THEN m(i + 1) ELSE limit
      BY <3>2, <3>3, <3>4
    <3> QED
      BY <3>1, <3>5
  <2> HIDE DEF T
  <2>3. 0..n \subseteq T
    BY <1>1, <2>1, <2>2, UpTo
  <2> QED
    BY <2>3 DEF T
<1>8. ASSUME NEW i \in 1..n
      PROVE  i \in D <=> (l[i] = v /\ (limit = 0 \/ pass[i - 1].removed < limit))
  <2>1. i - 1 \in Nat /\ i - 1 \in 0..n /\ (i - 1) + 1 = i
    BY <1>1
  <2>2. m(i - 1) \in Nat /\ m(i) = m(i - 1) + IF l[i] = v THEN 1 ELSE 0
    BY <1>4, <2>1
  <2>3. pass[i - 1].removed = IF limit = 0 \/ m(i - 1) < limit THEN m(i - 1) ELSE limit
    BY <1>7, <2>1
  <2>4. i \in D <=> (l[i] = v /\ (limit = 0 \/ m(i) <= limit))
    BY DEF Dropped, m, n
  <2> QED
    BY <2>2, <2>3, <2>4
<1>9. D \subseteq 1..n
  BY DEF Dropped, n
<1> HIDE DEF D
<1>10. \A i \in 0..n : Cardinality(D \cap 1..i) = pass[i].removed
  <2> DEFINE T == {i \in 0..n : Cardinality(D \cap 1..i) = pass[i].removed}
  <2>1. 0 \in T
    <3>1. D \cap 1..0 = {}
      OBVIOUS
    <3> QED
      BY <1>1, <1>6, <3>1, FS_EmptySet
  <2>2. ASSUME NEW i \in 0..(n - 1), i \in T PROVE i + 1 \in T
    <3>1. i \in Nat /\ i + 1 \in 1..n /\ i + 1 \in 0..n /\ (i + 1) - 1 = i
      BY <1>1
    <3>2. IsFiniteSet(D \cap 1..i)
      <4>1. IsFiniteSet(1..i) /\ D \cap 1..i \in SUBSET (1..i)
        BY <3>1, IntervalSize
      <4> QED
        BY <4>1, FS_Subset
    <3>3. CASE i + 1 \in D
      <4>1. D \cap 1..(i + 1) = (D \cap 1..i) \cup {i + 1} /\ i + 1 \notin D \cap 1..i
        BY <3>1, <3>3
      <4>2. Cardinality(D \cap 1..(i + 1)) = Cardinality(D \cap 1..i) + 1
        BY <3>2, <4>1, FS_AddElement
      <4>3. pass[i + 1].removed = pass[i].removed + 1
        BY <1>6, <1>8, <3>1, <3>3
      <4> QED
        BY <2>2, <3>1, <4>2, <4>3
    <3>4. CASE i + 1 \notin D
      <4>1. D \cap 1..(i + 1) = D \cap 1..i
        BY <3>1, <3>4
      <4>2. pass[i + 1].removed = pass[i].removed
        BY <1>6, <1>8, <3>1, <3>4
      <4> QED
        BY <2>2, <3>1, <4>1, <4>2
    <3> QED
      BY <3>3, <3>4
  <2> HIDE DEF T
  <2>3. 0..n \subseteq T
    BY <1>1, <2>1, <2>2, UpTo
  <2> QED
    BY <2>3 DEF T
<1>11. IsSubsequence(pass[n].out, l, (1..n) \ D)
  <2> DEFINE out == [i \in 0..n |-> pass[i].out]
             K == (1..n) \ D
  <2>1. out[0] = <<>>
    BY <1>1, <1>6
  <2>2. ASSUME NEW i \in 1..n
        PROVE  out[i] = IF i \in K THEN Append(out[i - 1], l[i]) ELSE out[i - 1]
    <3>1. i \in 0..n /\ i - 1 \in 0..n
      BY <1>1
    <3> QED
      BY <1>6, <1>8, <3>1
  <2>3. n \in 0..n /\ K \cap 1..n = K /\ out[n] = pass[n].out
    BY <1>1
  <2> HIDE DEF out, K
  <2>4. \A i \in 0..n : out[i] \in Seq(E) /\ IsSubsequence(out[i], l, K \cap 1..i)
    BY <1>1, <2>1, <2>2, LoopSelects
  <2> QED
    BY <2>3, <2>4 DEF K
<1>12. n \in 0..n /\ D \cap 1..n = D
  <2>1. n \in 0..n
    BY <1>1
  <2>2. D \cap 1..n = D
    BY <1>9, Zenon
  <2> QED
    BY <2>1, <2>2
<1>13. DropMatches(l, limit, v) = pass[n]
  BY <1>2 DEF IsPass, n
<1> QED
  BY <1>3, <1>10, <1>11, <1>12, <1>13 DEF D, n

-----------------------------------------------------------------------------
(* Lists seen from their end. *)

Mirror(n, P) == {p \in 1..n : n + 1 - p \in P}

LEMMA MirrorSize ==
  ASSUME NEW n \in Nat, NEW P, P \subseteq 1..n
  PROVE  Mirror(n, P) \subseteq 1..n /\ Cardinality(Mirror(n, P)) = Cardinality(P)
<1> DEFINE M == Mirror(n, P)
           f == [p \in P |-> n + 1 - p]
<1>0. IsFiniteSet(1..n)
  BY IntervalSize
<1>1. IsFiniteSet(P)
  BY <1>0, FS_Subset
<1>2. \A p \in P : p \in Int /\ n + 1 - p \in M
  BY DEF Mirror
<1>3. \A q \in M : q \in Int /\ n + 1 - q \in P /\ n + 1 - (n + 1 - q) = q
  BY DEF Mirror
<1>4. f \in Bijection(P, M)
  <2>1. f \in [P -> M]
    BY <1>2
  <2>2. \A p, q \in P : f[p] = f[q] => p = q
    BY <1>2
  <2>3. \A q \in M : \E p \in P : f[p] = q
    BY <1>3
  <2> HIDE DEF f, M
  <2> QED
    BY <2>1, <2>2, <2>3 DEF Bijection, Injection, Surjection, IsInjective
<1>5. Cardinality(M) = Cardinality(P)
  <2> HIDE DEF f, M
  <2> QED
    BY <1>1, <1>4, FS_Bijection DEF ExistsBijection
<1> QED
  BY <1>5 DEF Mirror

LEMMA ReversedFacts ==
  ASSUME NEW E, NEW l \in Seq(E)
  PROVE  /\ Reversed(l) \in Seq(E) /\ Len(Reversed(l)) = Len(l)
         /\ \A i \in 1..Len(l) : Len(l) + 1 - i \in 1..Len(l) /\ Reversed(l)[i] = l[Len(l) + 1 - i]
<1>1. Len(l) \in Nat /\ \A i \in 1..Len(l) : Len(l) + 1 - i \in 1..Len(l)
  OBVIOUS
<1>2. \A i \in 1..Len(l) : l[Len(l) + 1 - i] \in E
  BY <1>1
<1> QED
  BY <1>1, <1>2 DEF Reversed

(* In P, what is up to p and what is not before p overlap in p only. *)
LEMMA FromSize ==
  ASSUME NEW n \in Nat, NEW P, P \subseteq 1..n, NEW p \in P
  PROVE  Cardinality({q \in P : q >= p}) + Cardinality(Upto(P, p)) = Cardinality(P) + 1
<1> DEFINE A == {q \in P : q >= p}
           B == Upto(P, p)
<1>1. IsFiniteSet(P) /\ IsFiniteSet(B) /\ Cardinality(B) \in Nat /\ Cardinality(P) \in Nat
  BY UptoSize, FS_CardinalityType
<1>2. IsFiniteSet(A) /\ Cardinality(A) \in Nat
  <2>1. A \in SUBSET P
    OBVIOUS
  <2> HIDE DEF A
  <2> QED
    BY <1>1, <2>1, FS_Subset, FS_CardinalityType
<1>3. p \in Int /\ \A q \in P : q \in Int
  OBVIOUS
<1>4. A \cup B = P /\ A \cap B = {p}
  <2>1. \A q \in P : q >= p \/ q <= p
    BY <1>3
  <2>2. \A q \in P : q >= p /\ q <= p => q = p
    BY <1>3
  <2>3. p >= p /\ p <= p
    BY <1>3
  <2> QED
    BY <2>1, <2>2, <2>3 DEF Upto
<1>5. Cardinality({p}) = 1
  BY FS_Singleton
<1> HIDE DEF A, B
<1>6. Cardinality(A \cup B) = Cardinality(A) + Cardinality(B) - Cardinality(A \cap B)
  BY <1>1, <1>2, FS_Union
<1>7. Cardinality(P) = Cardinality(A) + Cardinality(B) - 1
  BY <1>4, <1>5, <1>6
<1>8. Cardinality(A) + Cardinality(B) = Cardinality(P) + 1
  BY <1>1, <1>2, <1>7
<1> QED
  BY <1>8 DEF A, B

LEMMA MirrorSubsequence ==
  ASSUME NEW E, NEW l \in Seq(E), NEW out \in Seq(E), NEW P, P \subseteq 1..Len(l),
         IsSubsequence(out, Reversed(l), P)
  PROVE  IsSubsequence(Reversed(out), l, Mirror(Len(l), P))
<1> DEFINE n == Len(l)
           M == Mirror(n, P)
           N == Len(out)
<1>1. n \in Nat /\ N \in Nat /\ M \subseteq 1..n
  <2>1. n \in Nat /\ N \in Nat
    OBVIOUS
  <2>2. M \subseteq 1..n
    BY Zenon DEF Mirror
  <2> QED
    BY <2>1, <2>2
<1>2. Cardinality(M) = Cardinality(P) /\ N = Cardinality(P)
  <2>1. N = Cardinality(P)
    BY DEF IsSubsequence
  <2> QED
    BY <1>1, <2>1, MirrorSize
<1>3. ASSUME NEW p \in M PROVE Reversed(out)[Cardinality({q \in M : q <= p})] = l[p]
  <2> DEFINE r == n + 1 - p
  <2>1. p \in Int /\ r \in P /\ r \in 1..n /\ n + 1 - r = p
    BY <1>1 DEF Mirror
  <2> HIDE DEF r
  <2>2. out[Cardinality(Upto(P, r))] = l[p]
    <3>1. out[Cardinality(Upto(P, r))] = Reversed(l)[r]
      BY <2>1 DEF IsSubsequence, Upto
    <3>2. Reversed(l)[r] = l[p]
      BY <2>1, ReversedFacts
    <3> QED
      BY <3>1, <3>2
  <2>3. {q \in M : q <= p} = Mirror(n, {q \in P : q >= r})
    BY <1>1, <2>1 DEF Mirror, r
  <2>4. Cardinality({q \in M : q <= p}) = Cardinality({q \in P : q >= r})
    <3> DEFINE A == {q \in P : q >= r}
    <3>1. A \subseteq 1..n
      OBVIOUS
    <3> HIDE DEF A
    <3>2. Cardinality(Mirror(n, A)) = Cardinality(A)
      BY <1>1, <3>1, MirrorSize
    <3> QED
      BY <2>3, <3>2 DEF A
  <2>5. Cardinality({q \in P : q >= r}) + Cardinality(Upto(P, r)) = N + 1
    BY <1>1, <1>2, <2>1, FromSize
  <2>6. Cardinality(Upto(P, r)) \in 1..N
    BY <1>1, <1>2, <2>1, UptoSize
  <2>7. Cardinality({q \in P : q >= r}) \in Nat
    <3>1. IsFiniteSet(P)
      BY <1>1, <2>1, UptoSize
    <3> QED
      BY <3>1, FS_Subset, FS_CardinalityType
  <2> DEFINE k == Cardinality({q \in M : q <= p})
             j == Cardinality(Upto(P, r))
  <2>8. k \in 1..N /\ N + 1 - k = j
    BY <1>1, <2>4, <2>5, <2>6, <2>7
  <2> HIDE DEF k, j, N
  <2>9. Reversed(out)[k] = out[N + 1 - k]
    BY <2>8, ReversedFacts DEF N
  <2> QED
    BY <2>2, <2>8, <2>9 DEF k, j
<1>4. Len(Reversed(out)) = N
  BY ReversedFacts
<1> QED
  BY <1>2, <1>3, <1>4 DEF IsSubsequence

-----------------------------------------------------------------------------
(* LREM removes what it should. *)
LEMMA LRemRight ==
  ASSUME NEW E, NEW l \in Seq(E), NEW c \in Int, NEW v
  PROVE  /\ LRem(l, c, v).removed = Cardinality(Removed(l, v, c))
         /\ IsSubsequence(LRem(l, c, v).out, l, (1..Len(l)) \ Removed(l, v, c))
<1> DEFINE n == Len(l)
<1>0. n \in Nat
  OBVIOUS
<1>1. CASE c >= 0
  <2>1. c \in Nat
    BY <1>1
  <2>2. Removed(l, v, c) = Dropped(l, c, v)
    BY <1>1 DEF Removed, Dropped, MatchesTo
  <2>3. LRem(l, c, v) = DropMatches(l, c, v)
    BY <1>1 DEF LRem
  <2> QED
    BY <2>1, <2>2, <2>3, DropMatchesRight
<1>2. CASE ~(c >= 0)
  <2> DEFINE b == Reversed(l)
             r == DropMatches(b, -c, v)
             D == Dropped(b, -c, v)
  <2>1. b \in Seq(E) /\ Len(b) = n /\ \A i \in 1..n : n + 1 - i \in 1..n /\ b[i] = l[n + 1 - i]
    BY ReversedFacts
  <2>2. -c \in Nat /\ -c # 0 /\ c < 0
    BY <1>2
  <2>3. LRem(l, c, v) = [out |-> Reversed(r.out), removed |-> r.removed]
    BY <1>2 DEF LRem
  <2> HIDE DEF b
  <2>4. /\ r.removed = Cardinality(D) /\ r.out \in Seq(E)
        /\ IsSubsequence(r.out, b, (1..n) \ D)
    BY <2>1, <2>2, DropMatchesRight
  <2>5. D \subseteq 1..n
    BY <2>1 DEF Dropped
  <2>6. ASSUME NEW p \in 1..n
        PROVE  p \in Removed(l, v, c) <=> n + 1 - p \in D
    <3> DEFINE r1 == n + 1 - p
               A == {q \in p..n : l[q] = v}
    <3>1. r1 \in 1..n /\ b[r1] = l[p] /\ n + 1 - r1 = p
      BY <1>0, <2>1
    <3>2. MatchesTo(b, v, r1) = Mirror(n, A)
      <4>1. \A q \in 1..r1 : q \in 1..n /\ n + 1 - q \in p..n /\ b[q] = l[n + 1 - q]
        BY <1>0, <2>1, <3>1
      <4>2. \A q \in 1..n : n + 1 - q \in p..n => q \in 1..r1
        BY <1>0
      <4> HIDE DEF r1
      <4> QED
        BY <4>1, <4>2 DEF MatchesTo, Mirror
    <3>3. A \subseteq 1..n
      BY <1>0
    <3> HIDE DEF A
    <3>4. Cardinality(MatchesTo(b, v, r1)) = Cardinality(A)
      BY <1>0, <3>2, <3>3, MirrorSize
    <3>5. p \in Removed(l, v, c) <=> l[p] = v /\ Cardinality(A) <= -c
      BY <2>2 DEF Removed, A
    <3> HIDE DEF r1
    <3>6. r1 \in D <=> b[r1] = v /\ Cardinality(MatchesTo(b, v, r1)) <= -c
      BY <2>1, <2>2, <3>1 DEF Dropped
    <3> QED
      BY <3>1, <3>4, <3>5, <3>6 DEF r1
  <2>7. Removed(l, v, c) \subseteq 1..n
    BY DEF Removed
  <2> HIDE DEF D, n
  <2>8. Removed(l, v, c) = Mirror(n, D)
    BY <2>6, <2>7 DEF Mirror
  <2>9. (1..n) \ Removed(l, v, c) = Mirror(n, (1..n) \ D)
    <3>1. \A p \in 1..n : n + 1 - p \in 1..n
      BY <1>0
    <3> QED
      BY <2>6, <3>1 DEF Mirror
  <2>10. Cardinality(Mirror(n, D)) = Cardinality(D)
    BY <1>0, <2>5, MirrorSize
  <2>11. IsSubsequence(Reversed(r.out), l, Mirror(n, (1..n) \ D))
    <3> DEFINE P == (1..n) \ D
               o == r.out
    <3>1. P \subseteq 1..n /\ o \in Seq(E) /\ IsSubsequence(o, Reversed(l), P)
      BY <2>4 DEF b
    <3> HIDE DEF P, o
    <3>2. IsSubsequence(Reversed(o), l, Mirror(n, P))
      BY <3>1, MirrorSubsequence DEF n
    <3> QED
      BY <3>2 DEF P, o
  <2>12. LRem(l, c, v).out = Reversed(r.out) /\ LRem(l, c, v).removed = r.removed
    <3> DEFINE o == Reversed(r.out)
    <3>1. LRem(l, c, v) = [out |-> o, removed |-> r.removed]
      BY <2>3
    <3> HIDE DEF o, r
    <3>2. LRem(l, c, v).out = o /\ LRem(l, c, v).removed = r.removed
      BY <3>1
    <3> QED
      BY <3>2 DEF o
  <2> QED
    BY <2>4, <2>8, <2>9, <2>10, <2>11, <2>12 DEF n
<1> QED
  BY <1>1, <1>2

-----------------------------------------------------------------------------
(* List writes, continued. *)

LEMMA ReversedList ==
  ASSUME NEW l \in Seq(Int)
  PROVE  Reversed(l) \in Seq(Int) /\ Len(Reversed(l)) = Len(l)
BY ReversedFacts

(* One pass of LRem leaves a list, for every list, limit and value. *)
LEMMA DropMatchesList ==
  ASSUME NEW l \in Seq(Int), NEW limit \in Int, NEW v
  PROVE  DropMatches(l, limit, v).out \in Seq(Int)
<1> DEFINE S == [out : Seq(Int), removed : Nat]
<1>1. PICK pass \in [0..Len(l) -> S] : IsPass(pass, l, limit, v)
  BY DropMatchesPass, Zenon
<1>2. DropMatches(l, limit, v) = pass[Len(l)] /\ Len(l) \in 0..Len(l)
  BY <1>1 DEF IsPass
<1>3. DropMatches(l, limit, v) \in S
  <2> HIDE DEF S
  <2> QED
    BY <1>2
<1> QED
  BY <1>3

LEMMA LRemList ==
  ASSUME NEW l \in Seq(Int), NEW count \in Int, NEW v
  PROVE  LRem(l, count, v).out \in Seq(Int)
<1>1. CASE count >= 0
  BY <1>1, DropMatchesList DEF LRem
<1>2. CASE ~(count >= 0)
  <2> DEFINE r == DropMatches(Reversed(l), -count, v)
  <2>1. r.out \in Seq(Int)
    BY ReversedList, DropMatchesList
  <2>2. LRem(l, count, v).out = Reversed(r.out)
    BY <1>2 DEF LRem
  <2> HIDE DEF r
  <2> QED
    BY <2>1, <2>2, ReversedList
<1> QED
  BY <1>1, <1>2

(* The other list writes. *)
LEMMA ListWrites ==
  ASSUME NEW l \in Seq(Int), Len(l) > 0, NEW n \in Int, NEW v \in Int
  PROVE  /\ LPop(l) \in Seq(Int) /\ RPop(l) \in Seq(Int)
         /\ InRange(l, n) => LSet(l, n, v) \in Seq(Int) /\ Len(LSet(l, n, v)) = Len(l)
<1>1. l # <<>> /\ Len(l) - 1 \in 0..Len(l) /\ Len(l) \in Nat
  OBVIOUS
<1>2. LPop(l) \in Seq(Int) /\ RPop(l) \in Seq(Int)
  BY <1>1 DEF LPop, RPop
<1>3. ASSUME InRange(l, n) PROVE LSet(l, n, v) \in Seq(Int) /\ Len(LSet(l, n, v)) = Len(l)
  <2> DEFINE i == normalizeIndex(n, Len(l)) + 1
  <2>1. i \in 1..Len(l)
    BY <1>1, <1>3 DEF InRange, normalizeIndex
  <2>2. LSet(l, n, v) = [l EXCEPT ![i] = v]
    BY DEF LSet
  <2> HIDE DEF i
  <2> QED
    BY <2>1, <2>2
<1> QED
  BY <1>2, <1>3

(* A list that is not the empty one has a member. *)
LEMMA ListNotEmpty ==
  ASSUME NEW l \in Seq(Int), l # Empty
  PROVE  IsContent("list", l)
<1>1. Len(l) > 0
  BY DEF Empty
<1> QED
  BY <1>1, ListContent

(* The write of a creating method, to an entry of its kind or a new one.   *)
LEMMA WrittenFilled ==
  ASSUME NEW s, StoreOK(s), NEW k \in Keys, NEW now,
         NEW r \in ReqType, r.name \in Creators, r.name \in ElemWrites => r.elem \in Elems,
         s.data[k].kind = KindOf(r.name),
         s.data[k].val = Empty \/ IsContent(s.data[k].kind, s.data[k].val),
         \A x \in Keys \ {k} : IsContent(s.data[x].kind, s.data[x].val),
         r.name = "HIncrBy" /\ ~HIncrOK(s.data[k].val, r.elem) => s.data[k].val # Empty
  PROVE  Filled(Written(s, k, r, now))
<1> DEFINE e == s.data[k]
           w == WithContent(e, NewContent(r, e.val))
           f == IF r.name = "ZIncrBy" THEN w ELSE Touched(w, now)
           t == bumpVersionLocked(Mutate(s, k, f), k)
<1>1. Written(s, k, r, now) = IF r.name = "HIncrBy" /\ ~HIncrOK(e.val, r.elem) THEN s ELSE t
  BY DEF Written
<1>2. CASE r.name = "HIncrBy" /\ ~HIncrOK(e.val, r.elem)
  <2>1. IsContent(e.kind, e.val)
    BY <1>2
  <2>2. Filled(s)
    BY <2>1 DEF Filled
  <2> QED
    BY <1>1, <1>2, <2>2
<1>3. CASE ~(r.name = "HIncrBy" /\ ~HIncrOK(e.val, r.elem))
  <2>1. IsContent(e.kind, NewContent(r, e.val))
    BY NewContentOK
  <2>2. f.kind = e.kind /\ f.val = NewContent(r, e.val)
    BY DEF WithContent, Touched, Entry
  <2>3. t.data = [s.data EXCEPT ![k] = f]
    BY DEF bumpVersionLocked, Mutate, Store
  <2> HIDE DEF f, t, w
  <2>4. s.data = [x \in Keys |-> s.data[x]]
    BY DEF StoreOK
  <2>5. t.data[k] = f /\ \A x \in Keys \ {k} : t.data[x] = s.data[x]
    BY <2>3, <2>4
  <2>6. ASSUME NEW x \in Keys PROVE IsContent(t.data[x].kind, t.data[x].val)
    <3>1. CASE x = k
      BY <2>1, <2>2, <2>5, <3>1
    <3>2. CASE x # k
      BY <2>5, <3>2
    <3> QED
      BY <3>1, <3>2
  <2>7. Filled(t)
    BY <2>6 DEF Filled
  <2> QED
    BY <1>1, <1>3, <2>7
<1> QED
  BY <1>2, <1>3

LEMMA StringOK ==
  ASSUME NEW r, NEW now
  PROVE  IsContent(NewString(r, now).kind, NewString(r, now).val)
<1>1. NewString(r, now).kind = "string" /\ NewString(r, now).val = <<r.val>>
  BY DEF NewString, Entry
<1>2. Len(<<r.val>>) = 1
  OBVIOUS
<1> QED
  BY <1>1, <1>2 DEF IsContent

(* What a call of any method but a shard loop finds. *)
LEMMA FetchedFilled ==
  ASSUME Inv, Filled(store), NEW c \in Clients, NEW names, Running(c, names),
         names \cap ShardLoops = {}
  PROVE  /\ StoreOK(Fetched(c)) /\ Filled(Fetched(c)) /\ Key(c) \in Keys
         /\ Req(c) \in ReqType /\ ReqOK(Req(c)) /\ Req(c).name \in names
         /\ IsContent(Fetched(c).data[Key(c)].kind, Fetched(c).data[Key(c)].val)
<1>1. StoreOK(Fetched(c)) /\ Key(c) \in Keys /\ ReqOK(Req(c)) /\ StoreOK(store)
  BY RunningFacts DEF Inv
<1>2. Filled(Fetched(c))
  BY <1>1, FetchFilled DEF Fetched
<1> QED
  BY <1>1, <1>2 DEF ReqOK, Filled, Running, Req

LEMMA ReadsFilled ==
  ASSUME Inv, Filled(store), NEW c \in Clients,
         \/ Get(c) \/ HGet(c) \/ TTL(c) \/ HashRead(c) \/ ListRead(c) \/ SetRead(c) \/ ZSetRead(c)
         \/ Exists(c) \/ Type(c) \/ CollectKeys(c) \/ ReturnKeys(c)
  PROVE  Filled(store')
<1>1. CASE Exists(c) \/ Type(c) \/ CollectKeys(c) \/ ReturnKeys(c)
  <2>1. store' = store
    BY <1>1 DEF Exists, Type, CollectKeys, ReturnKeys, NextKey, Finish
  <2> QED
    BY <2>1
<1>2. CASE TTL(c) \/ HashRead(c) \/ ListRead(c) \/ SetRead(c) \/ ZSetRead(c)
  <2>1. PICK names \in {{"TTL"}, HashReads, ListReads, SetReads, ZSetReads} :
          Running(c, names) /\ store' = Fetched(c)
    BY <1>2 DEF TTL, HashRead, ListRead, SetRead, ZSetRead, Finish
  <2>2. names \cap ShardLoops = {}
    BY DEF HashReads, ListReads, SetReads, ZSetReads, ShardLoops
  <2>3. Filled(Fetched(c))
    BY <2>1, <2>2, FetchedFilled
  <2> QED
    BY <2>1, <2>3
<1>3. CASE Get(c) \/ HGet(c)
  <2> DEFINE st == Fetched(c)
             touched == Mutate(st, Key(c), Touched(st.data[Key(c)], Now(c)))
  <2>1. PICK names \in {{"Get"}, {"HGet"}} : Running(c, names) /\ store' \in {st, touched}
    BY <1>3 DEF Get, HGet, Finish
  <2>2. names \cap ShardLoops = {}
    BY DEF ShardLoops
  <2>3. StoreOK(st) /\ Filled(st) /\ Key(c) \in Keys
    BY <2>1, <2>2, FetchedFilled
  <2> HIDE DEF st
  <2>4. Filled(touched)
    BY <2>3, SameValueFilled
  <2> HIDE DEF touched
  <2> QED
    BY <2>1, <2>3, <2>4
<1> QED
  BY <1>1, <1>2, <1>3

LEMMA KeyWritesFilled ==
  ASSUME Inv, Filled(store), NEW c \in Clients, Del(c) \/ Expire(c) \/ Persist(c)
  PROVE  Filled(store')
<1> DEFINE st == Fetched(c)
           k == Key(c)
<1>1. PICK names \in {{"Del"}, {"Expire"}, {"Persist"}} :
        /\ Running(c, names)
        /\ \/ store' = st \/ store' = Remove(st, k)
           \/ \E at : store' = setExpiryLocked(st, k, at)
  BY DEF Del, Expire, Persist, NextKey, Finish
<1>2. names \cap ShardLoops = {}
  BY DEF ShardLoops
<1>3. StoreOK(st) /\ Filled(st) /\ k \in Keys
  BY <1>1, <1>2, FetchedFilled
<1> HIDE DEF st, k
<1> QED
  BY <1>1, <1>3, RemoveFilled, SameValueFilled

LEMMA RenamesFilled ==
  ASSUME Inv, Filled(store), NEW c \in Clients, RenameWithinShard(c) \/ RenameAcrossShards(c)
  PROVE  Filled(store')
<1>1. op[c].pc \in {"run", "second"} /\ Req(c).name = "Rename"
      /\ store' = Moved(store, OldKey(c), NewKey(c), Now(c))
  BY DEF RenameWithinShard, RenameAcrossShards, Finish, Running, Req, Inv, CallOK
<1>2. OldKey(c) \in Keys /\ NewKey(c) \in Keys
  <2>1. op[c] \in OpType /\ ReqOK(op[c].req)
    BY <1>1 DEF Inv, TypeOK, CallOK
  <2>2. op[c].req.keys \in Seq(Keys) /\ Len(op[c].req.keys) = 2
    BY <1>1, <2>1 DEF ReqOK, ReqType, Req
  <2> QED
    BY <2>2 DEF OldKey, NewKey, Req
<1> QED
  BY <1>1, <1>2, MovedFilled DEF Inv

LEMMA CreatesFilled ==
  ASSUME Inv, Filled(store), NEW c \in Clients, Create(c) \/ Set(c)
  PROVE  Filled(store')
<1> DEFINE st == Fetched(c)
           k == Key(c)
<1>1. CASE Create(c)
  <2>1. /\ Running(c, Creators)
        /\ \/ store' = st
           \/ KindAt(st, k) = KindOf(Req(c).name) /\ store' = Written(st, k, Req(c), Now(c))
    BY <1>1 DEF Create, Finish, EnterInsert
  <2>2. Creators \cap ShardLoops = {}
    BY DEF Creators, ShardLoops
  <2>3. /\ StoreOK(st) /\ Filled(st) /\ k \in Keys /\ Req(c) \in ReqType /\ ReqOK(Req(c))
        /\ Req(c).name \in Creators /\ IsContent(st.data[k].kind, st.data[k].val)
    BY <2>1, <2>2, FetchedFilled
  <2> HIDE DEF st, k
  <2>4. Req(c).name \in ElemWrites => Req(c).elem \in Elems
    BY <2>3 DEF ReqOK
  <2>5. ASSUME KindAt(st, k) = KindOf(Req(c).name) PROVE Filled(Written(st, k, Req(c), Now(c)))
    <3>1. ~HIncrOK(st.data[k].val, Req(c).elem) => st.data[k].val # Empty
      BY DEF HIncrOK, Empty
    <3>2. \A x \in Keys \ {k} : IsContent(st.data[x].kind, st.data[x].val)
      BY <2>3 DEF Filled
    <3> QED
      BY <2>3, <2>4, <2>5, <3>1, <3>2, WrittenFilled DEF KindAt
  <2> QED
    BY <2>1, <2>3, <2>5
<1>2. CASE Set(c)
  <2> DEFINE e == NewString(Req(c), Now(c))
  <2>1. Running(c, {"Set"}) /\ store' \in {st, setEntryLocked(st, k, e)}
    BY <1>2 DEF Set, Finish, EnterInsert
  <2>2. {"Set"} \cap ShardLoops = {}
    BY DEF ShardLoops
  <2>3. StoreOK(st) /\ Filled(st) /\ k \in Keys
    BY <2>1, <2>2, FetchedFilled
  <2>4. IsContent(e.kind, e.val)
    BY StringOK
  <2> HIDE DEF st, k, e
  <2>5. Filled(setEntryLocked(st, k, e))
    BY <2>3, <2>4, SetEntryFilled
  <2> QED
    BY <2>1, <2>3, <2>5
<1> QED
  BY <1>1, <1>2

LEMMA InsertFilled ==
  ASSUME Inv, Filled(store), NEW c \in Clients, Insert(c)
  PROVE  Filled(store')
<1> DEFINE k == Key(c)
           r == Req(c)
           n == NewString(r, Now(c))
           m == newEmptyEntry(KindOf(r.name), Now(c))
           s == setEntryLocked(store, k, m)
<1>1. /\ op[c].pc \in Inserting
      /\ store' = IF r.name = "Set" THEN setEntryLocked(store, k, n)
                  ELSE Written(s, k, r, Now(c))
  BY DEF Insert, Inserting
<1>2. k \in Keys /\ Now(c) \in Nat /\ StoreOK(store) /\ CallOK(op[c], c, lock, store)
  BY <1>1, InsertingFacts DEF Inv
<1>3. r \in ReqType /\ (r.name \in ElemWrites => r.elem \in Elems) /\ r.name \in Creators \cup {"Set"}
  BY <1>1, <1>2 DEF CallOK, ReqOK, Inserting, Req
<1>4. CASE r.name = "Set"
  <2>1. IsContent(n.kind, n.val)
    BY StringOK
  <2> HIDE DEF n, r, k
  <2> QED
    BY <1>1, <1>2, <1>4, <2>1, SetEntryFilled
<1>5. CASE r.name # "Set"
  <2>1. EntryOK(m) /\ m.kind = KindOf(r.name) /\ m.val = Empty /\ m.kind # "none"
    <3>1. KindOf(r.name) \in Kinds
      BY DEF KindOf, Kinds
    <3> QED
      BY <1>2, <3>1 DEF newEmptyEntry, Entry, EntryOK, Kinds, NoTTL
  <2> HIDE DEF m, r, k
  <2>2. StoreOK(s)
    BY <1>2, <2>1, SetEntryGood DEF Good
  <2>3. s.data = [store.data EXCEPT ![k] = m]
    BY DEF setEntryLocked, bumpVersionLocked, Store
  <2> HIDE DEF s
  <2>4. s.data[k] = m /\ \A x \in Keys \ {k} : s.data[x] = store.data[x]
    BY <1>2, <2>3 DEF StoreOK
  <2>5. \A x \in Keys \ {k} : IsContent(s.data[x].kind, s.data[x].val)
    BY <2>4 DEF Filled
  <2>6. HIncrOK(s.data[k].val, r.elem)
    BY <2>1, <2>4 DEF HIncrOK, Empty
  <2>7. Filled(Written(s, k, r, Now(c)))
    BY <1>2, <1>3, <1>5, <2>1, <2>2, <2>4, <2>5, <2>6, WrittenFilled
  <2> QED
    BY <1>1, <1>5, <2>7
<1> QED
  BY <1>4, <1>5

LEMMA ShrinksFilled ==
  ASSUME Inv, Filled(store), NEW c \in Clients, RemoveElem(c) \/ Pop(c) \/ LRemove(c) \/ LSetAt(c)
  PROVE  Filled(store')
<1> DEFINE f == Fetched(c)
           k == Key(c)
           e == f.data[k]
<1>1. PICK names \in {{"HDel", "SRem", "ZRem"}, {"LPop", "RPop"}, {"LRem"}, {"LSet"}} :
        Running(c, names)
  BY DEF RemoveElem, Pop, LRemove, LSetAt
<1>2. names \cap ShardLoops = {}
  BY DEF ShardLoops
<1>3. StoreOK(f) /\ Filled(f) /\ k \in Keys /\ Req(c) \in ReqType /\ IsContent(e.kind, e.val)
  BY <1>1, <1>2, FetchedFilled
<1>4. Req(c).num \in Int /\ Req(c).val \in Int
  BY <1>3 DEF ReqType
<1>5. CASE RemoveElem(c)
  <2> DEFINE val == MapDel(e.val, Req(c).elem)
  <2>1. Req(c).name \in {"HDel", "SRem", "ZRem"}
    BY <1>5 DEF RemoveElem, Running, Req
  <2>2. store' = f \/ (e.kind \in {"hash", "set", "zset"} /\ store' = Shrunk(f, k, val))
    BY <1>5, <2>1 DEF RemoveElem, Finish
  <2>3. e.kind \in {"hash", "set", "zset"} /\ val # Empty => IsContent(e.kind, val)
    BY <1>3, MapContent, DelMap
  <2> HIDE DEF val
  <2>4. e.kind \in {"hash", "set", "zset"} => Filled(Shrunk(f, k, val))
    BY <1>3, <2>3, ShrunkFilled
  <2> QED
    BY <1>3, <2>2, <2>4
<1>6. CASE Pop(c)
  <2> DEFINE val == IF Req(c).name = "LPop" THEN LPop(e.val) ELSE RPop(e.val)
  <2>1. store' = f \/ (e.kind = "list" /\ store' = Shrunk(f, k, val))
    BY <1>6 DEF Pop, Finish
  <2>2. e.kind = "list" => val \in Seq(Int)
    BY <1>3, <1>4, ListContent, ListWrites
  <2> HIDE DEF val
  <2>3. e.kind = "list" => Filled(Shrunk(f, k, val))
    BY <1>3, <2>2, ListNotEmpty, ShrunkFilled
  <2> QED
    BY <1>3, <2>1, <2>3
<1>7. CASE LRemove(c)
  <2> DEFINE val == LRem(e.val, Req(c).num, Req(c).val).out
  <2>1. store' = f \/ (e.kind = "list" /\ store' = Shrunk(f, k, val))
    BY <1>7 DEF LRemove, Finish
  <2>2. e.kind = "list" => val \in Seq(Int)
    BY <1>3, <1>4, ListContent, LRemList
  <2> HIDE DEF val
  <2>3. e.kind = "list" => Filled(Shrunk(f, k, val))
    BY <1>3, <2>2, ListNotEmpty, ShrunkFilled
  <2> QED
    BY <1>3, <2>1, <2>3
<1>8. CASE LSetAt(c)
  <2> DEFINE val == LSet(e.val, Req(c).num, Req(c).val)
             w == WithContent(e, val)
  <2>1. \/ store' = f
        \/ /\ e.kind = "list" /\ InRange(e.val, Req(c).num)
           /\ store' = bumpVersionLocked(Mutate(f, k, w), k)
    BY <1>8 DEF LSetAt, Finish
  <2>2. e.kind = "list" /\ InRange(e.val, Req(c).num) => IsContent("list", val)
    <3> SUFFICES ASSUME e.kind = "list", InRange(e.val, Req(c).num) PROVE IsContent("list", val)
      OBVIOUS
    <3>1. e.val \in Seq(Int) /\ Len(e.val) > 0
      BY <1>3, ListContent
    <3>2. val \in Seq(Int) /\ Len(val) = Len(e.val)
      BY <1>4, <3>1, ListWrites
    <3> QED
      BY <3>1, <3>2, ListContent
  <2>3. w.kind = e.kind /\ w.val = val
    BY DEF WithContent, Entry
  <2> HIDE DEF val, w
  <2>4. e.kind = "list" /\ InRange(e.val, Req(c).num)
          => Filled(bumpVersionLocked(Mutate(f, k, w), k))
    BY <1>3, <2>2, <2>3, NewValueFilled
  <2> QED
    BY <1>3, <2>1, <2>4
<1> QED
  BY <1>5, <1>6, <1>7, <1>8

LEMMA ContentsStep ==
  ASSUME Inv, ContentsOK, [Next]_vars
  PROVE  ContentsOK'
<1>0. Filled(store) /\ (Filled(store') => ContentsOK')
  BY DEF Filled, ContentsOK
<1>1. CASE UNCHANGED store
  BY <1>0, <1>1
<1>2. ASSUME NEW c \in Clients, Begin(c) \/ Proceed(c) PROVE Filled(store')
  <2>1. CASE FlushDB(c)
    BY <1>0, <2>1, RemoveAllFilled DEF FlushDB, Inv
  <2>2. CASE Evict(c)
    <3>1. store' = store \/ \E v \in Keys : store' = Remove(store, v)
      BY <2>2 DEF Evict, Victims, Resident
    <3> QED
      BY <1>0, <3>1, RemoveFilled DEF Inv
  <2>3. CASE Begin(c) \/ RenameLockFirst(c) \/ LoadCount(c)
    <3>1. store' = store
      BY <2>3 DEF Begin, RenameLockFirst, LoadCount
    <3> QED
      BY <1>0, <3>1
  <2> QED
    BY <1>0, <1>2, <2>1, <2>2, <2>3, ReadsFilled, KeyWritesFilled, RenamesFilled, CreatesFilled,
       InsertFilled, ShrinksFilled DEF Proceed
<1>3. CASE SweepShard
  <2>1. PICK S : store' = RemoveAll(store, S)
    BY <1>3 DEF SweepShard
  <2> QED
    BY <1>0, <2>1, RemoveAllFilled DEF Inv
<1>4. CASE ReaperTick \/ ReaperStop \/ Close \/ Tick
  BY <1>1, <1>4 DEF ReaperTick, ReaperStop, Close, Tick
<1> QED
  BY <1>0, <1>1, <1>2, <1>3, <1>4 DEF Next, vars

(* ContentsOK: no sequence of commands of any number of clients leaves an  *)
(* empty collection behind (Shrunk deletes the key with its last element,  *)
(* ensureKind's empty entry is filled under the same lock), or a value of  *)
(* another kind than the entry says; LREM included, whatever the list.     *)
THEOREM ContentsCorrect == Spec => []ContentsOK
<1>1. Init => ContentsOK
  <2> SUFFICES ASSUME Init PROVE ContentsOK
    OBVIOUS
  <2>1. \A k \in Keys : store.data[k] = NoEntry
    BY DEF Init, Store
  <2> QED
    BY <2>1, NothingOK DEF ContentsOK
<1>2. Inv /\ ContentsOK /\ [Next]_vars => ContentsOK'
  BY ContentsStep
<1> QED
  BY <1>1, <1>2, Invariance, PTL DEF Spec

-----------------------------------------------------------------------------
(* Sorted sets. *)

IsZSet(z) == IsFiniteSet(DOMAIN z) /\ DOMAIN z \subseteq Int /\ \A m \in DOMAIN z : z[m] \in Int

InOrder(z) == {p \in (DOMAIN z) \X (DOMAIN z) : Before(z, p[1], p[2])}

LEMMA MembersSorted ==
  ASSUME NEW z, IsZSet(z)
  PROVE  Lists(sortedMembers(z), DOMAIN z, InOrder(z))
<1> DEFINE S == DOMAIN z
           R == InOrder(z)
           f == sortedMembers(z)
<1>1. IsFiniteSet(S) /\ \A m \in S : m \in Int /\ z[m] \in Int
  BY DEF IsZSet
<1>2. \A x, y \in S : <<x, y>> \in R <=> Before(z, x, y)
  BY DEF InOrder
<1>3. StrictOrder(S, R)
  <2>1. ASSUME NEW x \in S PROVE <<x, x>> \notin R
    BY <1>1, <1>2 DEF Before
  <2>2. ASSUME NEW x \in S, NEW y \in S, NEW w \in S, Before(z, x, y), Before(z, y, w)
        PROVE  Before(z, x, w)
    BY <1>1, <2>2 DEF Before
  <2>3. ASSUME NEW x \in S, NEW y \in S, x # y PROVE Before(z, x, y) \/ Before(z, y, x)
    BY <1>1, <2>3 DEF Before
  <2> HIDE DEF S, R
  <2> QED
    BY <1>2, <2>1, <2>2, <2>3 DEF StrictOrder
<1>4. ASSUME NEW x \in S PROVE {y \in S : Before(z, y, x)} = Above(x, S, R)
  BY <1>2 DEF Above
<1>5. f = [i \in 1..Cardinality(S) |-> CHOOSE x \in S : Cardinality({y \in S : Before(z, y, x)}) = i - 1]
  BY DEF sortedMembers
<1> HIDE DEF S, R
<1>6. ASSUME NEW i \in 1..Cardinality(S), NEW s \in S, Cardinality(Above(s, S, R)) = i - 1
      PROVE  f[i] \in S /\ Cardinality(Above(f[i], S, R)) = i - 1
  <2> DEFINE Q(x) == Cardinality({y \in S : Before(z, y, x)}) = i - 1
  <2>1. f[i] = CHOOSE x \in S : Q(x)
    BY <1>5
  <2>2. Q(s)
    BY <1>4, <1>6
  <2>3. f[i] \in S /\ Q(f[i])
    <3> HIDE DEF Q, f
    <3> QED
      BY <2>1, <2>2
  <2> QED
    BY <1>4, <2>3
<1>7. f = [i \in 1..Cardinality(S) |-> f[i]]
  BY <1>5
<1> HIDE DEF f
<1>8. \A i \in 1..Cardinality(S) :
        (\E s \in S : Cardinality(Above(s, S, R)) = i - 1) =>
          f[i] \in S /\ Cardinality(Above(f[i], S, R)) = i - 1
  BY <1>6
<1>9. Lists(f, S, R)
  BY <1>1, <1>3, <1>7, <1>8, Sorting
<1> QED
  BY <1>9 DEF f, S, R

(* 0 and -1 stand for everything. *)
LEMMA WholeRange ==
  ASSUME NEW S, NEW s \in Seq(S)
  PROVE  RangeOf(s, 0, -1) = s
<1> DEFINE n == Len(s)
<1>1. n \in Nat /\ s \in [1..n -> S]
  OBVIOUS
<1>2. RangeOf(s, 0, -1) = IF 0 > n - 1 \/ n = 0 THEN <<>> ELSE SubSeq(s, 1, n)
  <2>1. normalizeIndex(0, n) = 0 /\ normalizeIndex(-1, n) = n - 1
    BY <1>1 DEF normalizeIndex
  <2> HIDE DEF n
  <2> QED
    BY <1>1, <2>1 DEF RangeOf, n
<1>3. CASE n = 0
  <2>1. s = <<>>
    BY <1>3
  <2> QED
    BY <1>2, <1>3, <2>1
<1>4. CASE n # 0
  <2>1. RangeOf(s, 0, -1) = SubSeq(s, 1, n)
    BY <1>1, <1>2, <1>4
  <2>2. SubSeq(s, 1, n) = [i \in 1..n |-> s[i]]
    OBVIOUS
  <2> QED
    BY <1>1, <2>1, <2>2
<1> QED
  BY <1>3, <1>4

(* The loop of ZRangeByScore selects the positions it should. *)
LEMMA ByScoreRight ==
  ASSUME NEW z, NEW lo, NEW hi, NEW S, sortedMembers(z) \in Seq(S)
  PROVE  LET all == sortedMembers(z)
         IN  IsSubsequence(ZRangeByScore(z, lo, hi), all,
                           {p \in 1..Len(all) : z[all[p]] >= lo /\ z[all[p]] <= hi})
<1> DEFINE all == sortedMembers(z)
           n == Len(all)
           K == {p \in 1..n : z[all[p]] >= lo /\ z[all[p]] <= hi}
           V(i, o) == IF z[all[i]] >= lo /\ z[all[i]] <= hi THEN Append(o, all[i]) ELSE o
           Q == Seq(S)
           a == <<>>
           G == [i \in 1..n |-> [o \in Q |-> V(i, o)]]
           Rec(f) == f = [i \in 0..n |-> IF i = 0 THEN a ELSE V(i, f[i - 1])]
           out == CHOOSE f : Rec(f)
<1>1. n \in Nat /\ \A i \in 1..n : all[i] \in S
  <2> HIDE DEF all
  <2> QED
    BY DEF all
<1>2. ZRangeByScore(z, lo, hi) = out[n]
  BY DEF ZRangeByScore
<1>3. a \in Q
  OBVIOUS
<1>4. ASSUME NEW i \in 1..n, NEW o \in Q PROVE V(i, o) \in Q
  BY <1>1
<1>5. \A i \in 1..n : i \in K <=> z[all[i]] >= lo /\ z[all[i]] <= hi
  OBVIOUS
<1>6. ASSUME NEW i \in 1..n, NEW o PROVE V(i, o) = IF i \in K THEN Append(o, all[i]) ELSE o
  BY <1>5
<1>7. K \cap 1..n = K
  OBVIOUS
<1> HIDE DEF n, all, K, V, Q, a
<1>8. G \in [1..n -> [Q -> Q]]
  BY <1>4
<1>9. PICK f \in [0..n -> Q] : DefinedBy(f, n, a, G)
  <2> HIDE DEF G
  <2> QED
    BY <1>1, <1>3, <1>8, Recursion, Zenon
<1>10. ASSUME NEW i \in 1..n PROVE f[i] = V(i, f[i - 1])
  <2>1. i - 1 \in 0..n
    BY <1>1
  <2>2. f[i - 1] \in Q
    BY <2>1
  <2> QED
    BY <1>9, <2>2 DEF DefinedBy
<1>11. Rec(f)
  <2>1. ASSUME NEW i \in 0..n PROVE f[i] = IF i = 0 THEN a ELSE V(i, f[i - 1])
    <3>1. CASE i = 0
      BY <1>9, <3>1 DEF DefinedBy
    <3>2. CASE i # 0
      <4>1. i \in 1..n
        BY <1>1, <3>2
      <4> QED
        BY <1>10, <3>2, <4>1
    <3> QED
      BY <3>1, <3>2
  <2> QED
    BY <2>1
<1>12. Rec(out)
  <2> HIDE DEF Rec
  <2> QED
    BY <1>11
<1> HIDE DEF out
<1>13. out[0] = <<>>
  BY <1>1, <1>12 DEF a
<1>14. ASSUME NEW i \in 1..n
       PROVE  out[i] = IF i \in K THEN Append(out[i - 1], all[i]) ELSE out[i - 1]
  <2>1. i \in 0..n /\ i # 0
    BY <1>1
  <2>2. out[i] = V(i, out[i - 1])
    BY <1>12, <2>1
  <2> QED
    BY <1>6, <2>2
<1>15. \A i \in 0..n : out[i] \in Seq(S) /\ IsSubsequence(out[i], all, K \cap 1..i)
  BY <1>1, <1>13, <1>14, LoopSelects
<1>16. n \in 0..n
  BY <1>1
<1> QED
  BY <1>2, <1>7, <1>15, <1>16 DEF K, n, all

LEMMA ZSetAlways ==
  ASSUME NEW z, IsZSet(z) PROVE ZSetRight(z)
<1> DEFINE S == DOMAIN z
           R == InOrder(z)
           s == sortedMembers(z)
           n == Cardinality(S)
<1>1. Lists(s, S, R)
  BY MembersSorted
<1>2. n \in Nat /\ s \in [1..n -> S]
  BY <1>1 DEF Lists
<1>3. s \in Seq(S) /\ Len(s) = n
  <2> HIDE DEF s, n
  <2> QED
    BY <1>2
<1>4. ZRange(z, 0, -1) = s
  <2> HIDE DEF s
  <2> QED
    BY <1>3, WholeRange DEF ZRange, s
<1>5. ZRevRange(z, 0, -1) = Reversed(s)
  <2>1. Reversed(s) \in Seq(S)
    <3> HIDE DEF s, S
    <3> QED
      BY <1>3, ReversedFacts
  <2> HIDE DEF s
  <2> QED
    BY <2>1, WholeRange DEF ZRevRange, s
<1> HIDE DEF s, n
<1>6. ASSUME NEW m \in S
      PROVE  ZRank(z, m) + 1 \in 1..n /\ s[ZRank(z, m) + 1] = m
  <2>1. \E i \in 1..n : s[i] = m
    BY <1>1 DEF Lists, n
  <2> DEFINE c == CHOOSE i \in 1..n : s[i] = m
  <2>2. c \in 1..n /\ s[c] = m
    BY <2>1
  <2>3. ZRank(z, m) = c - 1
    BY DEF ZRank, s, n
  <2> HIDE DEF c
  <2> QED
    BY <1>2, <2>2, <2>3
<1>7. ASSUME NEW m \in S, NEW k \in S, z[m] < z[k] PROVE ZRank(z, m) < ZRank(z, k)
  <2> DEFINE i == ZRank(z, m) + 1
             j == ZRank(z, k) + 1
  <2>1. i \in 1..n /\ j \in 1..n /\ s[i] = m /\ s[j] = k
    BY <1>6
  <2>2. z[m] \in Int /\ z[k] \in Int
    BY DEF IsZSet
  <2>3. m # k /\ ~Before(z, k, m)
    BY <1>7, <2>2 DEF Before
  <2>4. <<k, m>> \notin R
    BY <2>3 DEF InOrder
  <2> HIDE DEF i, j
  <2>5. ~(j < i) /\ i # j
    BY <1>1, <2>1, <2>3, <2>4 DEF Lists, n
  <2>6. i < j
    BY <1>2, <2>1, <2>5
  <2>7. ZRank(z, m) = i - 1 /\ ZRank(z, k) = j - 1
    <3>1. ZRank(z, m) \in Int /\ ZRank(z, k) \in Int
      <4>1. \A x \in S : ZRank(z, x) \in Int
        <5> TAKE x \in S
        <5>1. \E q \in 1..n : s[q] = x
          BY <1>1 DEF Lists, n
        <5> DEFINE c == CHOOSE q \in 1..n : s[q] = x
        <5>2. c \in 1..n
          BY <5>1
        <5>3. ZRank(z, x) = c - 1
          BY DEF ZRank, s, n
        <5> HIDE DEF c
        <5> QED
          BY <1>2, <5>2, <5>3
      <4> QED
        BY <4>1
    <3> QED
      BY <3>1 DEF i, j
  <2> QED
    BY <1>2, <2>1, <2>6, <2>7
<1>8. ASSUME NEW lo \in ZScores, NEW hi \in ZScores
      PROVE  IsSubsequence(ZRangeByScore(z, lo, hi), s,
                           {p \in 1..Len(s) : lo <= z[s[p]] /\ z[s[p]] <= hi})
  <2>1. IsSubsequence(ZRangeByScore(z, lo, hi), s,
                      {p \in 1..Len(s) : z[s[p]] >= lo /\ z[s[p]] <= hi})
    BY <1>3, ByScoreRight DEF s
  <2>2. \A p \in 1..Len(s) : z[s[p]] >= lo <=> lo <= z[s[p]]
    OBVIOUS
  <2>3. {p \in 1..Len(s) : z[s[p]] >= lo /\ z[s[p]] <= hi}
          = {p \in 1..Len(s) : lo <= z[s[p]] /\ z[s[p]] <= hi}
    BY <2>2
  <2> QED
    BY <2>1, <2>3
<1> QED
  BY <1>3, <1>4, <1>5, <1>6, <1>7, <1>8 DEF ZSetRight, n

(* LRANGE, LREM, ZRANGE, ZREVRANGE, ZRANK and ZRANGEBYSCORE compute what   *)
(* their index and score arithmetic is to compute, for every list, every   *)
(* finite sorted set and every argument.                                   *)
THEOREM QueriesCorrect ==
  ASSUME input.about = "list" => input.value \in Seq(Members),
         input.about = "zset" => IsZSet(input.value)
  PROVE  ContainersRight
<1>1. ASSUME NEW l \in Seq(Members) PROVE ListRight(l)
  <2>1. \A i, j \in Args : IsSubsequence(RangeOf(l, i, j), l, Selected(l, i, j))
    BY RangeRight, QueryAssumption
  <2>2. ASSUME NEW v \in Members, NEW c \in Args
        PROVE  /\ LRem(l, c, v).removed = Cardinality(Removed(l, v, c))
               /\ IsSubsequence(LRem(l, c, v).out, l, (1..Len(l)) \ Removed(l, v, c))
    BY LRemRight, QueryAssumption
  <2> QED
    BY <2>1, <2>2 DEF ListRight
<1> QED
  BY <1>1, ZSetAlways DEF ContainersRight

-----------------------------------------------------------------------------
(* Patterns.  First, character classes. *)

(* What matchClass says at i, if it says g after i; and what is listed.    *)
MatchedAt(class, c, g, i) ==
  /\ i <= Len(class)
  /\ IF i + 2 <= Len(class) /\ class[i + 1] = Dash
     THEN WithinEnds(class[i], class[i + 2], c) \/ g[i + 3]
     ELSE class[i] = c \/ g[i + 1]

ListedAt(class, g, i) ==
  IF i > Len(class) THEN {}
  ELSE IF i + 2 <= Len(class) /\ class[i + 1] = Dash
       THEN (class[i] .. class[i + 2]) \cup g[i + 3]
       ELSE {class[i]} \cup g[i + 1]

LEMMA MatchedTable ==
  ASSUME NEW class \in Seq(Int), NEW c \in Int
  PROVE  \E f \in [1..Len(class) + 1 -> BOOLEAN] :
           /\ matchClass(class, c) = f[1]
           /\ \A i \in 1..Len(class) + 1 : f[i] = MatchedAt(class, c, f, i)
<1> DEFINE n == Len(class) + 1
           Tables == [1..n -> BOOLEAN]
           G == [i \in 1..n |-> [g \in Tables |-> MatchedAt(class, c, g, i)]]
           Rec(f) == f = [i \in 1..n |-> MatchedAt(class, c, f, i)]
           matched == CHOOSE f : Rec(f)
<1>1. matchClass(class, c) = matched[1]
  BY DEF matchClass, MatchedAt
<1>2. n \in Nat /\ Len(class) = n - 1
  OBVIOUS
<1> HIDE DEF n
<1>3. ASSUME NEW g, NEW i PROVE MatchedAt(class, c, g, i) \in BOOLEAN
  BY DEF MatchedAt
<1>4. G \in [1..n -> [Tables -> BOOLEAN]]
  BY <1>3
<1>5. ASSUME NEW i \in 1..n, NEW g \in Tables, NEW h \in Tables, \A j \in (i + 1)..n : g[j] = h[j]
      PROVE  MatchedAt(class, c, g, i) = MatchedAt(class, c, h, i)
  <2>1. i <= Len(class) => g[i + 1] = h[i + 1]
    BY <1>2, <1>5
  <2>2. i + 2 <= Len(class) => g[i + 3] = h[i + 3]
    BY <1>2, <1>5
  <2> QED
    BY <2>1, <2>2 DEF MatchedAt
<1>6. \A i \in 1..n : \A g \in Tables : G[i][g] = MatchedAt(class, c, g, i)
  OBVIOUS
<1>7. PICK f \in Tables : FixedBy(f, n, G)
  <2>1. \A i \in 1..n : \A g, h \in Tables :
          (\A j \in (i + 1)..n : g[j] = h[j]) => G[i][g] = G[i][h]
    BY <1>5, <1>6
  <2> HIDE DEF G
  <2>2. LooksAhead(G, n, BOOLEAN) /\ BOOLEAN # {}
    BY <1>4, <2>1 DEF LooksAhead
  <2> QED
    BY <1>2, <2>2, Descending, Zenon
<1>8. Rec(f)
  <2>1. \A i \in 1..n : f[i] = MatchedAt(class, c, f, i)
    BY <1>6, <1>7 DEF FixedBy
  <2> QED
    BY <2>1
<1>9. Rec(matched)
  <2> HIDE DEF Rec
  <2> QED
    BY <1>8
<1> HIDE DEF matched
<1>10. \A i \in 1..n : matched[i] = MatchedAt(class, c, matched, i)
  BY <1>9
<1>11. matched \in [1..n -> BOOLEAN]
  BY <1>3, <1>9, <1>10
<1> QED
  BY <1>1, <1>10, <1>11 DEF n

LEMMA ListedTable ==
  ASSUME NEW class \in Seq(Int)
  PROVE  \E f \in [1..Len(class) + 1 -> SUBSET Int] :
           /\ Listed(class) = f[1]
           /\ \A i \in 1..Len(class) + 1 : f[i] = ListedAt(class, f, i)
<1> DEFINE n == Len(class) + 1
           S == SUBSET Int
           Tables == [1..n -> S]
           G == [i \in 1..n |-> [g \in Tables |-> ListedAt(class, g, i)]]
           Rec(f) == f = [i \in 1..n |-> ListedAt(class, f, i)]
           listed == CHOOSE f : Rec(f)
<1>1. Listed(class) = listed[1]
  BY DEF Listed, ListedAt
<1>2. n \in Nat /\ Len(class) = n - 1
  OBVIOUS
<1> HIDE DEF n
<1>3. ASSUME NEW g, NEW i \in 1..n, \A j \in (i + 1)..n : g[j] \in S PROVE ListedAt(class, g, i) \in S
  <2>1. i > Len(class) \/ i \in 1..Len(class)
    BY <1>2
  <2>2. i \in 1..Len(class) => class[i] \in Int /\ g[i + 1] \in S
    BY <1>2, <1>3
  <2>3. ASSUME i + 2 <= Len(class) PROVE class[i + 2] \in Int /\ g[i + 3] \in S
    <3>1. i + 2 \in 1..Len(class) /\ i + 3 \in (i + 1)..n
      BY <1>2, <2>3
    <3> QED
      BY <1>3, <3>1
  <2> QED
    BY <2>1, <2>2, <2>3 DEF ListedAt
<1>4. G \in [1..n -> [Tables -> S]]
  <2>1. \A i \in 1..n : \A g \in Tables : ListedAt(class, g, i) \in S
    <3> TAKE i \in 1..n
    <3> TAKE g \in Tables
    <3>1. \A j \in (i + 1)..n : g[j] \in S
      BY <1>2
    <3> HIDE DEF S, Tables
    <3> QED
      BY <1>3, <3>1
  <2> HIDE DEF S, Tables
  <2> QED
    BY <2>1
<1>5. ASSUME NEW i \in 1..n, NEW g \in Tables, NEW h \in Tables, \A j \in (i + 1)..n : g[j] = h[j]
      PROVE  ListedAt(class, g, i) = ListedAt(class, h, i)
  <2>1. ~(i > Len(class)) => g[i + 1] = h[i + 1]
    BY <1>2, <1>5
  <2>2. i + 2 <= Len(class) => g[i + 3] = h[i + 3]
    BY <1>2, <1>5
  <2> QED
    BY <2>1, <2>2 DEF ListedAt
<1>6. \A i \in 1..n : \A g \in Tables : G[i][g] = ListedAt(class, g, i)
  <2> HIDE DEF S, Tables
  <2> QED
    OBVIOUS
<1>7. PICK f \in Tables : FixedBy(f, n, G)
  <2>1. \A i \in 1..n : \A g, h \in Tables :
          (\A j \in (i + 1)..n : g[j] = h[j]) => G[i][g] = G[i][h]
    BY <1>5, <1>6
  <2>2. S # {}
    OBVIOUS
  <2> HIDE DEF G, S
  <2>3. LooksAhead(G, n, S)
    BY <1>4, <2>1 DEF LooksAhead
  <2> QED
    BY <1>2, <2>2, <2>3, Descending, Zenon
<1>8. Rec(f)
  <2>1. \A i \in 1..n : f[i] = ListedAt(class, f, i)
    BY <1>6, <1>7 DEF FixedBy
  <2> QED
    BY <2>1
<1>9. Rec(listed)
  <2> HIDE DEF Rec
  <2> QED
    BY <1>8
<1> HIDE DEF listed
<1>10. \A i \in 1..n : listed[i] = ListedAt(class, listed, i)
  BY <1>9
<1>11. \A i \in 1..n : listed[i] \in S
  <2> DEFINE T == {i \in 1..n : listed[i] \in S}
  <2>1. ASSUME NEW i \in 1..n, \A j \in (i + 1)..n : j \in T PROVE i \in T
    <3>1. \A j \in (i + 1)..n : listed[j] \in S
      BY <2>1
    <3>2. listed[i] \in S
      <4> HIDE DEF S
      <4> QED
        BY <1>3, <1>10, <3>1
    <3> QED
      BY <3>2
  <2> HIDE DEF T
  <2>2. 1..n \subseteq T
    BY <1>2, <2>1, DownTo
  <2> QED
    BY <2>2 DEF T
<1>12. listed \in [1..n -> S]
  <2> HIDE DEF S
  <2> QED
    BY <1>9, <1>11
<1> QED
  BY <1>1, <1>10, <1>12 DEF n

(* matchClass accepts what is listed. *)
LEMMA ClassRight ==
  ASSUME NEW class \in Seq(Int), NEW c \in Int
  PROVE  matchClass(class, c) \in BOOLEAN /\ (matchClass(class, c) <=> c \in Listed(class))
<1> DEFINE n == Len(class) + 1
<1>1. PICK f \in [1..n -> BOOLEAN] :
        matchClass(class, c) = f[1] /\ \A i \in 1..n : f[i] = MatchedAt(class, c, f, i)
  BY MatchedTable
<1>2. PICK g \in [1..n -> SUBSET Int] :
        Listed(class) = g[1] /\ \A i \in 1..n : g[i] = ListedAt(class, g, i)
  BY ListedTable
<1>3. n \in Nat /\ Len(class) = n - 1 /\ 1 \in 1..n
  OBVIOUS
<1> DEFINE T == {i \in 1..n : f[i] <=> c \in g[i]}
<1> HIDE DEF n
<1>4. ASSUME NEW i \in 1..n, \A j \in (i + 1)..n : j \in T PROVE i \in T
  <2>1. f[i] = MatchedAt(class, c, f, i) /\ g[i] = ListedAt(class, g, i)
    BY <1>1, <1>2
  <2>2. CASE i > Len(class)
    <3>1. ~f[i] /\ g[i] = {}
      BY <1>3, <2>1, <2>2 DEF MatchedAt, ListedAt
    <3> QED
      BY <3>1
  <2>3. CASE i <= Len(class) /\ i + 2 <= Len(class) /\ class[i + 1] = Dash
    <3>1. i + 3 \in (i + 1)..n /\ class[i] \in Int /\ class[i + 2] \in Int
      BY <1>3, <2>3
    <3>2. f[i + 3] <=> c \in g[i + 3]
      BY <1>4, <3>1
    <3>3. f[i] <=> (WithinEnds(class[i], class[i + 2], c) \/ f[i + 3])
      BY <2>1, <2>3 DEF MatchedAt
    <3>4. g[i] = (class[i] .. class[i + 2]) \cup g[i + 3]
      BY <2>1, <2>3, <3>1, <1>3 DEF ListedAt
    <3>5. WithinEnds(class[i], class[i + 2], c) <=> c \in class[i] .. class[i + 2]
      BY <3>1 DEF WithinEnds
    <3> QED
      BY <3>2, <3>3, <3>4, <3>5
  <2>4. CASE i <= Len(class) /\ ~(i + 2 <= Len(class) /\ class[i + 1] = Dash)
    <3>1. i + 1 \in (i + 1)..n
      BY <1>3, <2>4
    <3>2. f[i + 1] <=> c \in g[i + 1]
      BY <1>4, <3>1
    <3>3. f[i] <=> (class[i] = c \/ f[i + 1])
      BY <2>1, <2>4 DEF MatchedAt
    <3>4. g[i] = {class[i]} \cup g[i + 1]
      BY <2>1, <2>4, <3>1, <1>3 DEF ListedAt
    <3> QED
      BY <3>2, <3>3, <3>4
  <2>5. i > Len(class) \/ i <= Len(class)
    BY <1>3
  <2> QED
    BY <2>2, <2>3, <2>4, <2>5
<1>5. 1 \in T
  <2> HIDE DEF T
  <2>1. 1..n \subseteq T
    BY <1>3, <1>4, DownTo
  <2> QED
    BY <1>3, <2>1
<1> QED
  BY <1>1, <1>2, <1>3, <1>5

LEMMA IndexByte ==
  ASSUME NEW b \in Seq(Int), NEW c \in Int
  PROVE  LET k == indexByte(b, c)
         IN  k \in 0..Len(b) /\ (k # 0 => b[k] = c)
<1> DEFINE T == {i \in 1..Len(b) : b[i] = c}
           P(i) == b[i] = c /\ \A j \in 1..i - 1 : b[j] # c
           k == indexByte(b, c)
<1>1. CASE T = {}
  <2>1. k = 0
    BY <1>1 DEF indexByte
  <2> QED
    BY <2>1
<1>2. CASE T # {}
  <2>1. T \subseteq Nat
    OBVIOUS
  <2>2. PICK x \in T : \A y \in T : x <= y
    <3> HIDE DEF T
    <3> QED
      BY <1>2, <2>1, LeastMember
  <2>3. x \in 1..Len(b) /\ P(x)
    BY <2>2
  <2>4. k = CHOOSE i \in 1..Len(b) : P(i)
    BY <1>2 DEF indexByte
  <2>5. k \in 1..Len(b) /\ P(k)
    <3> HIDE DEF P
    <3> QED
      BY <2>3, <2>4
  <2> QED
    BY <2>5
<1> QED
  BY <1>1, <1>2

-----------------------------------------------------------------------------
(* The items of a pattern that stand for one character. *)

Width(p, escapes) ==
  CASE p[1] = OpenBracket /\ indexByte(p, CloseBracket) # 0 -> indexByte(p, CloseBracket)
    [] escapes /\ Len(p) > 1 /\ p[1] = Backslash -> 2
    [] OTHER -> 1

Fits(p, escapes, c) ==
  LET end    == indexByte(p, CloseBracket)
      class  == SubSeq(p, 2, end - 1)
      negate == class # <<>> /\ class[1] = Caret
  IN  CASE p[1] = Question -> TRUE
        [] p[1] = OpenBracket /\ end # 0 ->
             matchClass(IF negate THEN Tail(class) ELSE class, c) # negate
        [] escapes /\ Len(p) > 1 /\ p[1] = Backslash -> c = p[2]
        [] OTHER -> c = p[1]

LEMMA FromProperties ==
  ASSUME NEW s \in Seq(Int), NEW i \in 1..Len(s) + 1
  PROVE  /\ From(s, i) \in Seq(Int)
         /\ Len(From(s, i)) = (Len(s) - i) + 1
         /\ \A k \in 1..(Len(s) - i) + 1 : From(s, i)[k] = s[(i + k) - 1]
         /\ From(s, i) = <<>> <=> i = Len(s) + 1
         /\ i # Len(s) + 1 => From(s, i)[1] = s[i] /\ s[i] \in Int
<1>1. Len(s) \in Nat
  OBVIOUS
<1>2. /\ From(s, i) \in Seq(Int)
      /\ Len(From(s, i)) = (Len(s) - i) + 1
      /\ \A k \in 1..(Len(s) - i) + 1 : From(s, i)[k] = s[(i + k) - 1]
  BY DEF From
<1>3. From(s, i) = <<>> <=> i = Len(s) + 1
  BY <1>1, <1>2
<1>4. ASSUME i # Len(s) + 1 PROVE From(s, i)[1] = s[i] /\ s[i] \in Int
  <2>1. 1 \in 1..(Len(s) - i) + 1 /\ (i + 1) - 1 = i /\ i \in 1..Len(s)
    BY <1>1, <1>4
  <2> QED
    BY <1>2, <2>1
<1> QED
  BY <1>2, <1>3, <1>4

LEMMA WidthType ==
  ASSUME NEW p \in Seq(Int), p # <<>>, NEW escapes \in BOOLEAN
  PROVE  Width(p, escapes) \in 1..Len(p)
<1>1. Len(p) \in Nat \ {0}
  OBVIOUS
<1>2. indexByte(p, CloseBracket) \in 0..Len(p)
  <2>1. CloseBracket \in Int
    BY DEF CloseBracket
  <2> QED
    BY <2>1, IndexByte
<1>3. CASE p[1] = OpenBracket /\ indexByte(p, CloseBracket) # 0
  <2>1. Width(p, escapes) = indexByte(p, CloseBracket)
    BY <1>3 DEF Width, OpenBracket, Backslash
  <2> QED
    BY <1>1, <1>2, <1>3, <2>1
<1>4. CASE ~(p[1] = OpenBracket /\ indexByte(p, CloseBracket) # 0)
  <2>1. Width(p, escapes) = IF escapes /\ Len(p) > 1 /\ p[1] = Backslash THEN 2 ELSE 1
    BY <1>4 DEF Width
  <2> QED
    BY <1>1, <2>1
<1> QED
  BY <1>3, <1>4

(* What a class lists, by where it is in the pattern. *)
LEMMA ClassParts ==
  ASSUME NEW p \in Seq(Int), p # <<>>, p[1] = OpenBracket
  PROVE  LET end   == indexByte(p, CloseBracket)
             class == SubSeq(p, 2, end - 1)
         IN  end # 0 =>
               /\ end \in 2..Len(p)
               /\ class \in Seq(Int) /\ (class # <<>> <=> end > 2)
               /\ end > 2 => class[1] = p[2] /\ Tail(class) = SubSeq(p, 3, end - 1) /\ Tail(class) \in Seq(Int)
<1> DEFINE end == indexByte(p, CloseBracket)
           class == SubSeq(p, 2, end - 1)
<1> SUFFICES ASSUME end # 0
             PROVE  /\ end \in 2..Len(p)
                    /\ class \in Seq(Int) /\ (class # <<>> <=> end > 2)
                    /\ end > 2 => class[1] = p[2] /\ Tail(class) = SubSeq(p, 3, end - 1) /\ Tail(class) \in Seq(Int)
  OBVIOUS
<1>1. end \in 0..Len(p) /\ p[end] = CloseBracket
  <2>1. CloseBracket \in Int
    BY DEF CloseBracket
  <2> QED
    BY <2>1, IndexByte
<1> HIDE DEF end
<1>2. end \in 2..Len(p)
  BY <1>1 DEF OpenBracket, CloseBracket
<1>3. class \in Seq(Int) /\ Len(class) = end - 2 /\ \A k \in 1..end - 2 : class[k] = p[k + 1]
  BY <1>2
<1>4. class # <<>> <=> end > 2
  <2> HIDE DEF class
  <2> QED
    BY <1>2, <1>3
<1>5. ASSUME end > 2
      PROVE  class[1] = p[2] /\ Tail(class) = SubSeq(p, 3, end - 1) /\ Tail(class) \in Seq(Int)
  <2>1. class[1] = p[2]
    BY <1>2, <1>3, <1>5
  <2> HIDE DEF class
  <2>2. Tail(class) = [k \in 1..end - 3 |-> class[k + 1]] /\ Tail(class) \in Seq(Int)
    <3>1. class \in Seq(Int) /\ class # <<>> /\ Len(class) - 1 = end - 3
      BY <1>2, <1>3, <1>4, <1>5
    <3>2. Tail(class) \in Seq(Int) /\ Len(Tail(class)) = Len(class) - 1
      BY <3>1
    <3>3. \A k \in 1..Len(class) - 1 : Tail(class)[k] = class[k + 1]
      BY <3>1
    <3>4. Tail(class) = [k \in 1..Len(Tail(class)) |-> Tail(class)[k]]
      <4>1. \A t \in Seq(Int) : t = [k \in 1..Len(t) |-> t[k]]
        OBVIOUS
      <4> QED
        BY <3>2, <4>1
    <3> QED
      BY <3>1, <3>2, <3>3, <3>4
  <2>3. SubSeq(p, 3, end - 1) = [k \in 1..end - 3 |-> p[k + 2]]
    BY <1>2, <1>5
  <2>4. \A k \in 1..end - 3 : class[k + 1] = p[k + 2]
    <3> TAKE k \in 1..end - 3
    <3>1. k + 1 \in 1..end - 2 /\ (k + 1) + 1 = k + 2
      BY <1>2
    <3> QED
      BY <1>3, <3>1
  <2> QED
    BY <2>1, <2>2, <2>3, <2>4
<1> QED
  BY <1>2, <1>3, <1>4, <1>5

(* FirstItem says the same. *)
LEMMA ItemForm ==
  ASSUME NEW p \in Seq(Int), p # <<>>, NEW escapes \in BOOLEAN
  PROVE  LET item == FirstItem(p, escapes, Texts)
         IN  /\ p[1] = Star => item.width = 1 /\ item.texts = Texts
             /\ p[1] # Star =>
                  /\ item.width = Width(p, escapes)
                  /\ item.texts = {u \in Texts : Len(u) = 1 /\ Fits(p, escapes, u[1])}
<1> DEFINE item == FirstItem(p, escapes, Texts)
           single == {u \in Texts : Len(u) = 1}
           end == indexByte(p, CloseBracket)
           class == SubSeq(p, 2, end - 1)
           negate == class # <<>> /\ class[1] = Caret
           inner == IF negate THEN Tail(class) ELSE class
           Out == {u \in Texts : Len(u) = 1 /\ Fits(p, escapes, u[1])}
<1>0. \A u \in single : u[1] \in Int
  <2> TAKE u \in single
  <2>1. u \in Seq(Int) /\ Len(u) = 1
    BY TextsAssumption
  <2>2. \A x \in Seq(Int) : \A k \in 1..Len(x) : x[k] \in Int
    OBVIOUS
  <2>3. 1 \in 1..1
    OBVIOUS
  <2> QED
    BY <2>1, <2>2, <2>3
<1>1. CASE p[1] = Star
  <2>1. item = [width |-> 1, texts |-> Texts]
    BY <1>1 DEF FirstItem, Star, Question, OpenBracket, Backslash
  <2> QED
    BY <1>1, <2>1
<1>2. CASE p[1] = Question
  <2>1. item = [width |-> 1, texts |-> single]
    BY <1>2 DEF FirstItem, Star, Question, OpenBracket, Backslash
  <2>2. Width(p, escapes) = 1 /\ \A c : Fits(p, escapes, c) = TRUE
    BY <1>2 DEF Width, Fits, Question, OpenBracket, Backslash
  <2>3. single = Out
    BY <2>2
  <2> QED
    BY <1>2, <2>1, <2>2, <2>3 DEF Star, Question
<1>3. CASE p[1] = OpenBracket /\ end # 0
  <2>1. /\ end \in 2..Len(p) /\ class \in Seq(Int) /\ (class # <<>> <=> end > 2)
        /\ end > 2 => class[1] = p[2] /\ Tail(class) = SubSeq(p, 3, end - 1) /\ Tail(class) \in Seq(Int)
    BY <1>3, ClassParts
  <2>2. Width(p, escapes) = end /\ \A c : Fits(p, escapes, c) <=> matchClass(inner, c) # negate
    <3>1. ASSUME NEW c
          PROVE  Fits(p, escapes, c) =
                   CASE p[1] = Question -> TRUE
                     [] p[1] = OpenBracket /\ end # 0 -> matchClass(inner, c) # negate
                     [] escapes /\ Len(p) > 1 /\ p[1] = Backslash -> c = p[2]
                     [] OTHER -> c = p[1]
      BY DEF Fits
    <3>2. Width(p, escapes) = end
      BY <1>3 DEF Width, OpenBracket, Backslash
    <3>3. p[1] # Question /\ p[1] # Backslash
      BY <1>3 DEF Question, OpenBracket, Backslash
    <3>4. p[1] = OpenBracket /\ end # 0
      BY <1>3
    <3> HIDE DEF end, inner, negate
    <3>5. ASSUME NEW c PROVE Fits(p, escapes, c) = (matchClass(inner, c) # negate)
      BY <3>1, <3>3, <3>4
    <3> QED
      BY <3>2, <3>5
  <2>3. inner \in Seq(Int)
    BY <2>1
  <2>4. CASE negate
    <3>1. end > 2 /\ p[2] = Caret
      BY <2>1, <2>4
    <3>2. item = [width |-> end, texts |-> single \ {u \in single : u[1] \in Listed(SubSeq(p, 3, end - 1))}]
      BY <1>3, <3>1 DEF FirstItem, Star, Question, OpenBracket, Backslash
    <3>3. inner = SubSeq(p, 3, end - 1)
      BY <2>1, <2>4, <3>1
    <3>4. \A c \in Int : Fits(p, escapes, c) <=> c \notin Listed(inner)
      <4> HIDE DEF inner
      <4>1. \A c \in Int : matchClass(inner, c) \in BOOLEAN /\ (matchClass(inner, c) <=> c \in Listed(inner))
        BY <2>3, ClassRight
      <4>2. negate = TRUE
        BY <2>4
      <4> QED
        BY <2>2, <4>1, <4>2
    <3>5. item.texts = Out
      <4> HIDE DEF inner
      <4> QED
        BY <1>0, <3>2, <3>3, <3>4
    <3> QED
      BY <1>3, <2>2, <3>2, <3>5 DEF Star, OpenBracket
  <2>5. CASE ~negate
    <3>1. ~(end > 2 /\ p[2] = Caret) /\ end > 0
      BY <2>1, <2>5, SMTT(30)
    <3>2. item = [width |-> end, texts |-> {u \in single : u[1] \in Listed(class)}]
      BY <1>3, <3>1 DEF FirstItem, Star, Question, OpenBracket, Backslash
    <3>3. inner = class
      BY <2>5
    <3>4. \A c \in Int : Fits(p, escapes, c) <=> c \in Listed(inner)
      <4> HIDE DEF inner
      <4>1. \A c \in Int : matchClass(inner, c) \in BOOLEAN /\ (matchClass(inner, c) <=> c \in Listed(inner))
        BY <2>3, ClassRight
      <4>2. negate = FALSE
        BY <2>5
      <4> QED
        BY <2>2, <4>1, <4>2
    <3>5. item.texts = Out
      <4> HIDE DEF inner
      <4> QED
        BY <1>0, <3>2, <3>3, <3>4
    <3> QED
      BY <1>3, <2>2, <3>2, <3>5 DEF Star, OpenBracket
  <2> QED
    BY <2>4, <2>5
<1>4. CASE p[1] = Backslash /\ escapes /\ Len(p) > 1
  <2>1. item = [width |-> 2, texts |-> {u \in single : u[1] \in {p[2]}}]
    BY <1>4 DEF FirstItem, Star, Question, OpenBracket, Backslash
  <2>2. Width(p, escapes) = 2 /\ \A c : Fits(p, escapes, c) <=> c = p[2]
    BY <1>4 DEF Width, Fits, Question, OpenBracket, Backslash
  <2>3. item.texts = Out
    BY <2>1, <2>2
  <2>4. item.width = 2
    <3> DEFINE Z == {u \in single : u[1] \in {p[2]}}
    <3>1. item = [width |-> 2, texts |-> Z]
      BY <2>1
    <3> HIDE DEF item, Z
    <3> QED
      BY <3>1
  <2>5. p[1] # Star
    BY <1>4 DEF Star, Backslash
  <2> HIDE DEF item, Out
  <2>6. item.width = Width(p, escapes) /\ item.texts = Out
    BY <2>2, <2>3, <2>4
  <2> QED
    BY <2>5, <2>6, Zenon DEF item, Out
<1>5. CASE p[1] # Star /\ p[1] # Question /\ ~(p[1] = OpenBracket /\ end # 0) /\ ~(p[1] = Backslash /\ escapes /\ Len(p) > 1)
  <2>0. ~(p[1] = OpenBracket /\ end > 0) /\ ~(p[1] = OpenBracket /\ end > 2)
    BY <1>5
  <2>1. item = [width |-> 1, texts |-> {u \in single : u[1] \in {p[1]}}]
    BY <1>5, <2>0 DEF FirstItem
  <2>2. Width(p, escapes) = 1 /\ \A c : Fits(p, escapes, c) <=> c = p[1]
    BY <1>5 DEF Width, Fits
  <2>3. item.texts = Out
    BY <2>1, <2>2
  <2> QED
    BY <1>5, <2>1, <2>2, <2>3
<1> QED
  BY <1>1, <1>2, <1>3, <1>4, <1>5

-----------------------------------------------------------------------------
(* The matcher and the language, as tables. *)

(* What the matcher says of pattern[i:] and s[j:], if it says g later.     *)
MatchesAt(pattern, s, escapes, g, i, j) ==
  LET p == From(pattern, i)
      t == From(s, j)
      One(fits, width) == t # <<>> /\ fits /\ g[i + width][j + 1]
      end    == indexByte(p, CloseBracket)
      class  == SubSeq(p, 2, end - 1)
      negate == class # <<>> /\ class[1] = Caret
  IN  CASE p = <<>> -> t = <<>>
        [] p # <<>> /\ p[1] = Star ->
             \/ \A k \in 1..Len(p) : p[k] = Star
             \/ \E k \in j..Len(s) + 1 : g[i + 1][k]
        [] p # <<>> /\ p[1] = Question -> One(TRUE, 1)
        [] p # <<>> /\ p[1] = OpenBracket /\ end = 0 -> One(t[1] = OpenBracket, 1)
        [] p # <<>> /\ p[1] = OpenBracket /\ end # 0 ->
             One(matchClass(IF negate THEN Tail(class) ELSE class, t[1]) # negate, end)
        [] escapes /\ Len(p) > 1 /\ p[1] = Backslash -> One(t[1] = p[2], 2)
        [] OTHER -> One(t[1] = p[1], 1)

AllStars(p) == \A k \in 1..Len(p) : p[k] = Star

(* Item by item. *)
LEMMA MatchesForm ==
  ASSUME NEW pattern \in Seq(Int), NEW s \in Seq(Int), NEW escapes \in BOOLEAN, NEW g,
         NEW i \in 1..Len(pattern) + 1, NEW j \in 1..Len(s) + 1
  PROVE  LET p == From(pattern, i)
             at == MatchesAt(pattern, s, escapes, g, i, j)
         IN  /\ at \in BOOLEAN
             /\ p = <<>> => (at <=> j = Len(s) + 1)
             /\ p # <<>> /\ p[1] = Star => (at <=> AllStars(p) \/ \E k \in j..Len(s) + 1 : g[i + 1][k])
             /\ p # <<>> /\ p[1] # Star =>
                  (at <=> /\ j # Len(s) + 1 /\ Fits(p, escapes, s[j])
                          /\ g[i + Width(p, escapes)][j + 1])
<1> DEFINE p == From(pattern, i)
           t == From(s, j)
           at == MatchesAt(pattern, s, escapes, g, i, j)
           One(fits, width) == t # <<>> /\ fits /\ g[i + width][j + 1]
           end    == indexByte(p, CloseBracket)
           class  == SubSeq(p, 2, end - 1)
           negate == class # <<>> /\ class[1] = Caret
           M(c) == matchClass(IF negate THEN Tail(class) ELSE class, c) # negate
           W == Width(p, escapes)
           F(c) == Fits(p, escapes, c)
<1>1. at = CASE p = <<>> -> t = <<>>
             [] p # <<>> /\ p[1] = Star -> AllStars(p) \/ \E k \in j..Len(s) + 1 : g[i + 1][k]
             [] p # <<>> /\ p[1] = Question -> One(TRUE, 1)
             [] p # <<>> /\ p[1] = OpenBracket /\ end = 0 -> One(t[1] = OpenBracket, 1)
             [] p # <<>> /\ p[1] = OpenBracket /\ end # 0 -> One(M(t[1]), end)
             [] escapes /\ Len(p) > 1 /\ p[1] = Backslash -> One(t[1] = p[2], 2)
             [] OTHER -> One(t[1] = p[1], 1)
  BY DEF MatchesAt, AllStars
<1>2. t = <<>> <=> j = Len(s) + 1
  BY FromProperties
<1>3. j # Len(s) + 1 => t[1] = s[j]
  BY FromProperties
<1>4. W = CASE p[1] = OpenBracket /\ end # 0 -> end
            [] escapes /\ Len(p) > 1 /\ p[1] = Backslash -> 2
            [] OTHER -> 1
  BY DEF Width
<1>5. ASSUME NEW c
      PROVE  F(c) = CASE p[1] = Question -> TRUE
                      [] p[1] = OpenBracket /\ end # 0 -> M(c)
                      [] escapes /\ Len(p) > 1 /\ p[1] = Backslash -> c = p[2]
                      [] OTHER -> c = p[1]
  BY DEF Fits
<1>6. p \in Seq(Int)
  BY FromProperties
<1>7. at \in BOOLEAN
  <2> HIDE DEF at, M, end, p, t
  <2> QED
    BY <1>1
<1> HIDE DEF at, p, t, end, M, W, F
<1>8. p = <<>> => (at <=> j = Len(s) + 1)
  <2> SUFFICES ASSUME p = <<>> PROVE at <=> j = Len(s) + 1
    OBVIOUS
  <2>1. Len(p) = 0
    BY <1>6
  <2>2. at = (t = <<>>)
    BY <1>1, <2>1
  <2> QED
    BY <1>2, <2>2
<1>9. ASSUME p # <<>>, p[1] = Star
      PROVE  at <=> AllStars(p) \/ \E k \in j..Len(s) + 1 : g[i + 1][k]
  <2>1. p[1] # Question /\ p[1] # OpenBracket /\ p[1] # Backslash
    BY <1>9 DEF Star, Question, OpenBracket, Backslash
  <2> QED
    BY <1>1, <1>9, <2>1
<1>10. ASSUME p # <<>>, p[1] # Star PROVE at <=> One(F(t[1]), W)
  <2>1. CASE p[1] = Question
    <3>1. p[1] # Star /\ p[1] # OpenBracket /\ p[1] # Backslash
      BY <2>1 DEF Star, Question, OpenBracket, Backslash
    <3>2. at <=> One(TRUE, 1)
      BY <1>1, <1>10, <2>1, <3>1
    <3>3. W = 1 /\ F(t[1]) = TRUE
      BY <1>4, <1>5, <2>1, <3>1
    <3> QED
      BY <3>2, <3>3
  <2>2. CASE p[1] = OpenBracket /\ end = 0
    <3>1. p[1] # Star /\ p[1] # Question /\ p[1] # Backslash
      BY <2>2 DEF Star, Question, OpenBracket, Backslash
    <3>2. at <=> One(t[1] = OpenBracket, 1)
      BY <1>1, <1>10, <2>2, <3>1
    <3>3. W = 1 /\ F(t[1]) = (t[1] = p[1])
      BY <1>4, <1>5, <2>2, <3>1
    <3> QED
      BY <2>2, <3>2, <3>3
  <2>3. CASE p[1] = OpenBracket /\ end # 0
    <3>1. p[1] # Star /\ p[1] # Question /\ p[1] # Backslash
      BY <2>3 DEF Star, Question, OpenBracket, Backslash
    <3>2. at <=> One(M(t[1]), end)
      BY <1>1, <1>10, <2>3, <3>1
    <3>3. W = end /\ F(t[1]) = M(t[1])
      BY <1>4, <1>5, <2>3, <3>1
    <3> QED
      BY <3>2, <3>3
  <2>4. CASE escapes /\ Len(p) > 1 /\ p[1] = Backslash
    <3>1. p[1] # Star /\ p[1] # Question /\ p[1] # OpenBracket
      BY <2>4 DEF Star, Question, OpenBracket, Backslash
    <3>2. at <=> One(t[1] = p[2], 2)
      BY <1>1, <1>10, <2>4, <3>1
    <3>3. W = 2 /\ F(t[1]) = (t[1] = p[2])
      BY <1>4, <1>5, <2>4, <3>1
    <3> QED
      BY <3>2, <3>3
  <2>5. CASE p[1] # Question /\ p[1] # OpenBracket /\ ~(escapes /\ Len(p) > 1 /\ p[1] = Backslash)
    <3>2. at <=> One(t[1] = p[1], 1)
      BY <1>1, <1>10, <2>5
    <3>3. W = 1 /\ F(t[1]) = (t[1] = p[1])
      BY <1>4, <1>5, <2>5
    <3> QED
      BY <3>2, <3>3
  <2> QED
    BY <2>1, <2>2, <2>3, <2>4, <2>5
<1>11. ASSUME p # <<>>, p[1] # Star
       PROVE  at <=> j # Len(s) + 1 /\ F(s[j]) /\ g[i + W][j + 1]
  <2>1. at <=> t # <<>> /\ F(t[1]) /\ g[i + W][j + 1]
    BY <1>10, <1>11
  <2>2. CASE j = Len(s) + 1
    BY <1>2, <2>1, <2>2
  <2>3. CASE j # Len(s) + 1
    BY <1>2, <1>3, <2>1, <2>3
  <2> QED
    BY <2>2, <2>3
<1> QED
  BY <1>7, <1>8, <1>9, <1>11 DEF at, p, W, F

LEMMA GlobTable ==
  ASSUME NEW pattern \in Seq(Int), NEW s \in Seq(Int), NEW escapes \in BOOLEAN
  PROVE  \E f :
           /\ globMatchBytes(pattern, s, escapes) = f[1][1]
           /\ \A i \in 1..Len(pattern) + 1, j \in 1..Len(s) + 1 :
                f[i][j] = MatchesAt(pattern, s, escapes, f, i, j)
<1> DEFINE n == Len(pattern) + 1
           m == Len(s) + 1
           S == [1..m -> BOOLEAN]
           Tables == [1..n -> S]
           At(g, i, j) == MatchesAt(pattern, s, escapes, g, i, j)
           Row(g, i) == [j \in 1..m |-> At(g, i, j)]
           G == [i \in 1..n |-> [g \in Tables |-> Row(g, i)]]
           Rec(f) == f = [i \in 1..n |-> Row(f, i)]
           matches == CHOOSE f : Rec(f)
<1>1. globMatchBytes(pattern, s, escapes) = matches[1][1]
  BY DEF globMatchBytes, MatchesAt
<1>2. n \in Nat /\ m \in Nat /\ Len(pattern) = n - 1
  OBVIOUS
<1>3. ASSUME NEW g, NEW i \in 1..n PROVE Row(g, i) \in S
  <2>1. ASSUME NEW j \in 1..m PROVE At(g, i, j) \in BOOLEAN
    BY MatchesForm
  <2> HIDE DEF At
  <2> QED
    BY <2>1
<1>4. ASSUME NEW i \in 1..n, NEW g \in Tables, NEW h \in Tables, \A k \in (i + 1)..n : g[k] = h[k]
      PROVE  Row(g, i) = Row(h, i)
  <2> DEFINE p == From(pattern, i)
  <2>1. p \in Seq(Int) /\ Len(p) = n - i
    BY <1>2, FromProperties
  <2> HIDE DEF p
  <2>2. ASSUME p # <<>>
        PROVE  /\ g[i + 1] = h[i + 1]
               /\ g[i + Width(p, escapes)] = h[i + Width(p, escapes)]
    <3> DEFINE w == Width(p, escapes)
    <3>1. w \in 1..Len(p)
      BY <2>1, <2>2, WidthType
    <3>2. Len(p) # 0
      BY <2>1, <2>2
    <3> HIDE DEF w
    <3>3. i + w \in (i + 1)..n /\ i + 1 \in (i + 1)..n
      BY <1>2, <2>1, <3>1, <3>2
    <3>4. g[i + w] = h[i + w] /\ g[i + 1] = h[i + 1]
      BY <1>4, <3>3
    <3> QED
      BY <3>4 DEF w
  <2>3. ASSUME NEW j \in 1..m PROVE At(g, i, j) = At(h, i, j)
    <3> DEFINE x == At(g, i, j)
               y == At(h, i, j)
    <3>1. /\ x \in BOOLEAN
          /\ p = <<>> => (x <=> j = Len(s) + 1)
          /\ p # <<>> /\ p[1] = Star => (x <=> AllStars(p) \/ \E k \in j..Len(s) + 1 : g[i + 1][k])
          /\ p # <<>> /\ p[1] # Star =>
               (x <=> j # Len(s) + 1 /\ Fits(p, escapes, s[j]) /\ g[i + Width(p, escapes)][j + 1])
      BY MatchesForm DEF p
    <3>2. /\ y \in BOOLEAN
          /\ p = <<>> => (y <=> j = Len(s) + 1)
          /\ p # <<>> /\ p[1] = Star => (y <=> AllStars(p) \/ \E k \in j..Len(s) + 1 : h[i + 1][k])
          /\ p # <<>> /\ p[1] # Star =>
               (y <=> j # Len(s) + 1 /\ Fits(p, escapes, s[j]) /\ h[i + Width(p, escapes)][j + 1])
      BY MatchesForm DEF p
    <3> SUFFICES x = y
      OBVIOUS
    <3> HIDE DEF x, y
    <3>3. x <=> y
      BY <2>2, <3>1, <3>2, Zenon
    <3> QED
      BY <3>1, <3>2, <3>3
  <2> HIDE DEF At
  <2> QED
    BY <2>3
<1> HIDE DEF n, m
<1>5. G \in [1..n -> [Tables -> S]] /\ \A i \in 1..n : \A g \in Tables : G[i][g] = Row(g, i)
  <2> HIDE DEF Row, S, Tables
  <2> QED
    BY <1>3
<1>6. PICK f \in Tables : FixedBy(f, n, G)
  <2>1. \A i \in 1..n : \A g, h \in Tables :
          (\A k \in (i + 1)..n : g[k] = h[k]) => G[i][g] = G[i][h]
    <3> HIDE DEF Row, S, G, Tables
    <3>1. ASSUME NEW i \in 1..n, NEW g \in Tables, NEW h \in Tables, \A k \in (i + 1)..n : g[k] = h[k]
          PROVE  G[i][g] = G[i][h]
      <4>1. Row(g, i) = Row(h, i)
        BY <1>4, <3>1
      <4> QED
        BY <1>5, <4>1
    <3> QED
      BY <3>1
  <2>2. S # {}
    <3>1. [j \in 1..m |-> TRUE] \in S
      OBVIOUS
    <3> QED
      BY <3>1
  <2> HIDE DEF G, S
  <2>3. LooksAhead(G, n, S)
    BY <1>5, <2>1 DEF LooksAhead
  <2> QED
    BY <1>2, <2>2, <2>3, Descending, Zenon
<1>7. Rec(f)
  <2> HIDE DEF Row, S, G
  <2>1. \A i \in 1..n : f[i] = Row(f, i)
    BY <1>5, <1>6 DEF FixedBy
  <2> QED
    BY <2>1
<1>8. Rec(matches)
  <2> HIDE DEF Rec
  <2> QED
    BY <1>7
<1> HIDE DEF matches
<1>9. ASSUME NEW i \in 1..n, NEW j \in 1..m PROVE matches[i][j] = At(matches, i, j)
  <2>1. matches[i] = Row(matches, i)
    <3> HIDE DEF Row
    <3> QED
      BY <1>8
  <2> HIDE DEF At
  <2> QED
    BY <2>1
<1> QED
  BY <1>1, <1>9 DEF n, m

(* The texts for pattern[i:], if l says which are for what is later.       *)
LanguageAt(p, escapes, l, i) ==
  IF i > Len(p) THEN {<<>>}
  ELSE LET item == FirstItem(From(p, i), escapes, Texts)
       IN  {a \o b : a \in item.texts, b \in l[i + item.width]} \cap Texts

LEMMA ItemWidth ==
  ASSUME NEW pattern \in Seq(Int), NEW escapes \in BOOLEAN, NEW i \in 1..Len(pattern)
  PROVE  i + FirstItem(From(pattern, i), escapes, Texts).width \in (i + 1)..(Len(pattern) + 1)
<1> DEFINE p == From(pattern, i)
           w == FirstItem(p, escapes, Texts).width
<1>1. i \in 1..Len(pattern) + 1 /\ i # Len(pattern) + 1 /\ Len(pattern) \in Nat
  OBVIOUS
<1>2. p \in Seq(Int) /\ Len(p) = (Len(pattern) - i) + 1 /\ p # <<>>
  BY <1>1, FromProperties
<1> HIDE DEF p
<1>3. w = 1 \/ w = Width(p, escapes)
  BY <1>2, ItemForm
<1>4. Width(p, escapes) \in 1..Len(p)
  BY <1>2, WidthType
<1>5. w \in 1..Len(p)
  <2> HIDE DEF w
  <2> QED
    BY <1>1, <1>2, <1>3, <1>4
<1> HIDE DEF w
<1>6. i + w \in (i + 1)..(Len(pattern) + 1)
  BY <1>1, <1>2, <1>5
<1> QED
  BY <1>6 DEF w, p

LEMMA LanguageTable ==
  ASSUME NEW p \in Seq(Int), NEW escapes \in BOOLEAN
  PROVE  \E l \in [1..Len(p) + 1 -> SUBSET Texts] :
           /\ Language(p, escapes, Texts) = l[1]
           /\ \A i \in 1..Len(p) + 1 : l[i] = LanguageAt(p, escapes, l, i)
<1> DEFINE n == Len(p) + 1
           S == SUBSET Texts
           Tables == [1..n -> S]
           At(g, i) == LanguageAt(p, escapes, g, i)
           G == [i \in 1..n |-> [g \in Tables |-> At(g, i)]]
           Rec(f) == f = [i \in 1..n |-> At(f, i)]
           language == CHOOSE f : Rec(f)
<1>1. Language(p, escapes, Texts) = language[1]
  BY DEF Language, LanguageAt
<1>2. n \in Nat /\ Len(p) = n - 1
  OBVIOUS
<1>3. ASSUME NEW g, NEW i \in 1..n PROVE At(g, i) \in S
  BY TextsAssumption DEF LanguageAt
<1>4. ASSUME NEW i \in 1..n, NEW g \in Tables, NEW h \in Tables, \A k \in (i + 1)..n : g[k] = h[k]
      PROVE  At(g, i) = At(h, i)
  <2>1. CASE i > Len(p)
    BY <2>1 DEF LanguageAt
  <2>2. CASE ~(i > Len(p))
    <3> DEFINE w == FirstItem(From(p, i), escapes, Texts).width
    <3>1. i \in 1..Len(p)
      BY <1>2, <2>2
    <3>2. i + w \in (i + 1)..n
      BY <3>1, ItemWidth
    <3>3. g[i + w] = h[i + w]
      BY <1>4, <3>2
    <3> DEFINE A == FirstItem(From(p, i), escapes, Texts).texts
               X == g[i + w]
               Y == h[i + w]
    <3>4. /\ At(g, i) = {a \o b : a \in A, b \in X} \cap Texts
          /\ At(h, i) = {a \o b : a \in A, b \in Y} \cap Texts
      BY <2>2 DEF LanguageAt
    <3>5. X = Y
      BY <3>3
    <3> HIDE DEF X, Y, A
    <3> QED
      BY <3>4, <3>5
  <2> QED
    BY <2>1, <2>2
<1> HIDE DEF n
<1>5. G \in [1..n -> [Tables -> S]] /\ \A i \in 1..n : \A g \in Tables : G[i][g] = At(g, i)
  <2> HIDE DEF At, S, Tables
  <2> QED
    BY <1>3
<1>6. PICK f \in Tables : FixedBy(f, n, G)
  <2>1. \A i \in 1..n : \A g, h \in Tables :
          (\A k \in (i + 1)..n : g[k] = h[k]) => G[i][g] = G[i][h]
    <3> HIDE DEF At, S, G, Tables
    <3>1. ASSUME NEW i \in 1..n, NEW g \in Tables, NEW h \in Tables, \A k \in (i + 1)..n : g[k] = h[k]
          PROVE  G[i][g] = G[i][h]
      <4>1. At(g, i) = At(h, i)
        BY <1>4, <3>1
      <4> QED
        BY <1>5, <4>1
    <3> QED
      BY <3>1
  <2>2. S # {}
    OBVIOUS
  <2> HIDE DEF G, S
  <2>3. LooksAhead(G, n, S)
    BY <1>5, <2>1 DEF LooksAhead
  <2> QED
    BY <1>2, <2>2, <2>3, Descending, Zenon
<1>7. Rec(f)
  <2> HIDE DEF At, S, G
  <2>1. \A i \in 1..n : f[i] = At(f, i)
    BY <1>5, <1>6 DEF FixedBy
  <2> QED
    BY <2>1
<1>8. Rec(language)
  <2> HIDE DEF Rec
  <2> QED
    BY <1>7
<1> HIDE DEF language, At
<1>9. \A i \in 1..n : language[i] = At(language, i)
  BY <1>8
<1>10. language \in [1..n -> S]
  <2> HIDE DEF S
  <2> QED
    BY <1>3, <1>8, <1>9
<1> QED
  BY <1>1, <1>9, <1>10 DEF n, At

Joined(A, B) == {a \o b : a \in A, b \in B}

Glued(t, a, b) == t = a \o b

LEMMA InJoined ==
  ASSUME NEW A, NEW B, NEW t
  PROVE  t \in Joined(A, B) <=> \E a \in A, b \in B : Glued(t, a, b)
BY DEF Joined, Glued

(* Where a text comes apart. *)
LEMMA ComesApart ==
  ASSUME NEW s \in Seq(Int), NEW j \in 1..Len(s) + 1, NEW a \in Seq(Int), NEW b \in Seq(Int),
         Glued(From(s, j), a, b)
  PROVE  /\ j + Len(a) \in j..Len(s) + 1
         /\ b = From(s, j + Len(a))
         /\ Len(a) = 1 => a[1] = s[j]
<1> DEFINE t == From(s, j)
           k == j + Len(a)
           c == a \o b
<1>1. Len(t) = (Len(s) - j) + 1 /\ \A x \in 1..(Len(s) - j) + 1 : t[x] = s[(j + x) - 1]
  BY FromProperties
<1>2. /\ Len(c) = Len(a) + Len(b)
      /\ \A x \in 1..Len(a) : c[x] = a[x]
      /\ \A x \in 1..Len(b) : c[Len(a) + x] = b[x]
  OBVIOUS
<1>3. Len(a) \in Nat /\ Len(b) \in Nat /\ Len(s) \in Nat
  OBVIOUS
<1>4. t = c
  BY DEF Glued
<1> HIDE DEF t, c
<1>5. k \in j..Len(s) + 1 /\ Len(b) = (Len(s) - k) + 1
  <2>1. Len(a) + Len(b) = (Len(s) - j) + 1
    BY <1>1, <1>2, <1>4
  <2> QED
    BY <1>3, <2>1
<1>6. k \in 1..Len(s) + 1
  BY <1>5
<1>7. \A x \in 1..Len(b) : b[x] = From(s, k)[x]
  <2> TAKE x \in 1..Len(b)
  <2>1. b[x] = t[Len(a) + x]
    BY <1>2, <1>4
  <2>2. Len(a) + x \in 1..(Len(s) - j) + 1 /\ (j + (Len(a) + x)) - 1 = (k + x) - 1
    BY <1>3, <1>5
  <2>3. t[Len(a) + x] = s[(k + x) - 1]
    BY <1>1, <2>2
  <2> HIDE DEF k
  <2>4. From(s, k)[x] = s[(k + x) - 1]
    BY <1>5, <1>6, FromProperties
  <2> QED
    BY <2>1, <2>3, <2>4
<1>8. b = From(s, k)
  <2>1. From(s, k) \in Seq(Int) /\ Len(From(s, k)) = Len(b)
    <3> HIDE DEF k
    <3> QED
      BY <1>5, <1>6, FromProperties
  <2>2. \A y \in Seq(Int) : y = [x \in 1..Len(y) |-> y[x]]
    OBVIOUS
  <2> DEFINE d == From(s, k)
  <2>3. d \in Seq(Int) /\ Len(d) = Len(b) /\ \A x \in 1..Len(b) : b[x] = d[x]
    BY <1>7, <2>1
  <2> HIDE DEF d, k
  <2>4. b = d
    BY <2>2, <2>3
  <2> QED
    BY <2>4 DEF d
<1>9. ASSUME Len(a) = 1 PROVE a[1] = s[j]
  <2>1. a[1] = t[1]
    BY <1>2, <1>4, <1>9
  <2>2. 1 \in 1..(Len(s) - j) + 1 /\ (j + 1) - 1 = j
    BY <1>3, <1>5, <1>9
  <2> QED
    BY <1>1, <2>1, <2>2
<1> QED
  BY <1>5, <1>8, <1>9

LEMMA IsJoined ==
  ASSUME NEW s \in Seq(Int), NEW j \in 1..Len(s) + 1, NEW k \in j..Len(s) + 1
  PROVE  LET a == SubSeq(s, j, k - 1)
         IN  /\ a \in Seq(Int) /\ Len(a) = k - j /\ (k > j => a[1] = s[j])
             /\ From(s, j) = a \o From(s, k)
<1> DEFINE a == SubSeq(s, j, k - 1)
           b == From(s, k)
           t == From(s, j)
           c == a \o b
<1>1. Len(s) \in Nat /\ k \in 1..Len(s) + 1 /\ k - 1 \in 0..Len(s)
  OBVIOUS
<1>2. a \in Seq(Int) /\ Len(a) = k - j /\ \A x \in 1..k - j : a[x] = s[(j + x) - 1]
  BY <1>1
<1>3. k > j => a[1] = s[j]
  <2> HIDE DEF a
  <2> QED
    BY <1>1, <1>2
<1>4. b \in Seq(Int) /\ Len(b) = (Len(s) - k) + 1 /\ \A x \in 1..(Len(s) - k) + 1 : b[x] = s[(k + x) - 1]
  BY <1>1, FromProperties
<1>5. t \in Seq(Int) /\ Len(t) = (Len(s) - j) + 1 /\ \A x \in 1..(Len(s) - j) + 1 : t[x] = s[(j + x) - 1]
  BY FromProperties
<1> HIDE DEF a, b, t
<1>6. /\ c \in Seq(Int) /\ Len(c) = Len(a) + Len(b)
      /\ \A x \in 1..Len(a) : c[x] = a[x]
      /\ \A x \in 1..Len(b) : c[Len(a) + x] = b[x]
  <2>1. a \in Seq(Int) /\ b \in Seq(Int)
    BY <1>2, <1>4
  <2> QED
    BY <2>1
<1> HIDE DEF c
<1>7. Len(c) = Len(t)
  BY <1>1, <1>2, <1>4, <1>5, <1>6
<1>8. ASSUME NEW x \in 1..Len(t) PROVE c[x] = t[x]
  <2>0. t[x] = s[(j + x) - 1]
    BY <1>5
  <2>1. CASE x <= k - j
    <3>1. x \in 1..Len(a) /\ x \in 1..k - j
      BY <1>1, <1>2, <1>5, <2>1
    <3> QED
      BY <1>2, <1>6, <2>0, <3>1
  <2>2. CASE ~(x <= k - j)
    <3> DEFINE y == x - (k - j)
    <3>1. y \in 1..Len(b) /\ y \in 1..(Len(s) - k) + 1 /\ Len(a) + y = x /\ (k + y) - 1 = (j + x) - 1
      BY <1>1, <1>2, <1>4, <1>5, <2>2
    <3>2. c[Len(a) + y] = b[y] /\ b[y] = s[(k + y) - 1]
      BY <1>4, <1>6, <3>1
    <3> QED
      BY <2>0, <3>1, <3>2
  <2> QED
    BY <2>1, <2>2
<1>9. t = c
  <2>1. \A y \in Seq(Int) : y = [x \in 1..Len(y) |-> y[x]]
    OBVIOUS
  <2> QED
    BY <1>5, <1>6, <1>7, <1>8, <2>1
<1> QED
  BY <1>2, <1>3, <1>9 DEF a, b, t, c

(* The parts of a text are texts. *)
LEMMA PartsAreTexts ==
  ASSUME NEW s \in Texts, NEW j \in 1..Len(s) + 1, NEW k \in j..Len(s) + 1
  PROVE  SubSeq(s, j, k - 1) \in Texts /\ From(s, j) \in Texts
<1>1. s \in Seq(Int) /\ Len(s) \in Nat
  BY TextsAssumption
<1>2. j - 1 \in 0..Len(s) /\ k - 1 \in 0..Len(s) /\ (j - 1) + 1 = j /\ Len(s) \in 0..Len(s)
  BY <1>1
<1>3. \A x, y \in 0..Len(s) : SubSeq(s, x + 1, y) \in Texts
  BY TextsAssumption
<1>4. SubSeq(s, (j - 1) + 1, k - 1) \in Texts /\ SubSeq(s, (j - 1) + 1, Len(s)) \in Texts
  BY <1>2, <1>3
<1> QED
  BY <1>2, <1>4 DEF From

LEMMA MatchesLanguage ==
  ASSUME NEW pattern \in Seq(Int), NEW s \in Texts, NEW escapes \in BOOLEAN
  PROVE  globMatchBytes(pattern, s, escapes) <=> s \in Language(pattern, escapes, Texts)
<1> DEFINE n == Len(pattern) + 1
           m == Len(s) + 1
<1>1. s \in Seq(Int) /\ Texts \subseteq Seq(Int) /\ <<>> \in Texts
  BY TextsAssumption
<1>2. PICK f : /\ globMatchBytes(pattern, s, escapes) = f[1][1]
               /\ \A i \in 1..n, j \in 1..m : f[i][j] = MatchesAt(pattern, s, escapes, f, i, j)
  BY <1>1, GlobTable
<1>3. PICK l \in [1..n -> SUBSET Texts] :
        /\ Language(pattern, escapes, Texts) = l[1]
        /\ \A i \in 1..n : l[i] = LanguageAt(pattern, escapes, l, i)
  BY LanguageTable
<1>4. n \in Nat /\ m \in Nat /\ 1 \in 1..n /\ 1 \in 1..m /\ m \in 1..m /\ Len(pattern) = n - 1 /\ Len(s) = m - 1
  BY <1>1
<1> DEFINE Ok(i) == /\ \A j \in 1..m : f[i][j] <=> From(s, j) \in l[i]
                    /\ AllStars(From(pattern, i)) => <<>> \in l[i]
           T == {i \in 1..n : Ok(i)}
<1>5. ASSUME NEW j \in 1..m PROVE From(s, j) \in Texts /\ From(s, j) \in Seq(Int) /\ (From(s, j) = <<>> <=> j = m)
  <2>1. m \in j..m
    BY <1>4
  <2>2. From(s, j) \in Texts
    BY <2>1, PartsAreTexts
  <2> QED
    BY <1>1, <2>2, FromProperties
<1>5a. ASSUME NEW j \in 1..m, NEW a \in Seq(Int), NEW b \in Seq(Int), Glued(From(s, j), a, b)
      PROVE  j + Len(a) \in j..m /\ b = From(s, j + Len(a)) /\ (Len(a) = 1 => a[1] = s[j])
  <2>1. Glued(From(s, j), a, b) /\ s \in Seq(Int)
    BY <1>1, <1>5a
  <2> QED
    BY <2>1, ComesApart
<1> HIDE DEF n, m
<1>6. ASSUME NEW i \in 1..n, \A k \in (i + 1)..n : k \in T PROVE Ok(i)
  <2> DEFINE p == From(pattern, i)
             item == FirstItem(p, escapes, Texts)
  <2>1. p \in Seq(Int) /\ Len(p) = n - i /\ (p = <<>> <=> i = n)
    BY <1>4, FromProperties DEF n
  <2>2. l[i] = LanguageAt(pattern, escapes, l, i)
    BY <1>3
  <2>3. ASSUME NEW j \in 1..m
        PROVE  /\ p = <<>> => (f[i][j] <=> j = m)
               /\ p # <<>> /\ p[1] = Star => (f[i][j] <=> AllStars(p) \/ \E k \in j..m : f[i + 1][k])
               /\ p # <<>> /\ p[1] # Star =>
                    (f[i][j] <=> j # m /\ Fits(p, escapes, s[j]) /\ f[i + Width(p, escapes)][j + 1])
    <3>1. f[i][j] = MatchesAt(pattern, s, escapes, f, i, j)
      BY <1>2
    <3> DEFINE x == MatchesAt(pattern, s, escapes, f, i, j)
    <3>2. /\ p = <<>> => (x <=> j = m)
          /\ p # <<>> /\ p[1] = Star => (x <=> AllStars(p) \/ \E k \in j..m : f[i + 1][k])
          /\ p # <<>> /\ p[1] # Star =>
               (x <=> j # m /\ Fits(p, escapes, s[j]) /\ f[i + Width(p, escapes)][j + 1])
      BY <1>1, MatchesForm DEF n, m
    <3> HIDE DEF x, p
    <3> QED
      BY <3>1, <3>2 DEF x
  <2>4. CASE p = <<>>
    <3>1. i > Len(pattern)
      BY <1>4, <2>1, <2>4
    <3>2. l[i] = {<<>>}
      BY <2>2, <3>1 DEF LanguageAt
    <3> QED
      BY <1>5, <2>3, <2>4, <3>2
  <2>5. ASSUME p # <<>>
        PROVE  /\ l[i] = Joined(item.texts, l[i + item.width]) \cap Texts
               /\ i + item.width \in (i + 1)..n /\ i + 1 \in (i + 1)..n
    <3>1. i \in 1..Len(pattern) /\ ~(i > Len(pattern)) /\ i + 1 \in (i + 1)..n
      BY <1>4, <2>1, <2>5
    <3>2. l[i] = Joined(item.texts, l[i + item.width]) \cap Texts
      BY <2>2, <3>1 DEF LanguageAt, Joined
    <3>3. i + item.width \in (i + 1)..n
      BY <3>1, ItemWidth DEF n
    <3> QED
      BY <3>1, <3>2, <3>3
  <2>6. \A k \in (i + 1)..n : k \in 1..n /\ Ok(k) /\ l[k] \subseteq Texts
    BY <1>4, <1>6
  <2>7. CASE p # <<>> /\ p[1] = Star
    <3> DEFINE L == l[i + 1]
    <3>1. item.width = 1 /\ item.texts = Texts
      BY <2>1, <2>7, ItemForm
    <3>2. l[i] = Joined(Texts, L) \cap Texts /\ i + 1 \in (i + 1)..n
      BY <2>5, <2>7, <3>1
    <3>3. L \subseteq Texts /\ \A j \in 1..m : f[i + 1][j] <=> From(s, j) \in L
      BY <2>6, <3>2
    <3>4. AllStars(p) => <<>> \in L
      <4>1. ASSUME AllStars(p) PROVE AllStars(From(pattern, i + 1))
        <5> DEFINE r == From(pattern, i + 1)
        <5>1. i \in 1..n /\ i + 1 \in 1..n /\ i <= Len(pattern)
          BY <1>4, <3>2
        <5>2. Len(r) = (Len(pattern) - (i + 1)) + 1 /\ \A k \in 1..(Len(pattern) - (i + 1)) + 1 : r[k] = pattern[((i + 1) + k) - 1]
          BY <5>1, FromProperties DEF n
        <5>3. \A k \in 1..(Len(pattern) - i) + 1 : p[k] = pattern[(i + k) - 1]
          BY <5>1, FromProperties DEF n
        <5> HIDE DEF r, p
        <5>4. ASSUME NEW k \in 1..Len(r) PROVE r[k] = Star
          <6>1. k + 1 \in 1..Len(p) /\ k + 1 \in 1..(Len(pattern) - i) + 1 /\ (i + (k + 1)) - 1 = ((i + 1) + k) - 1
            BY <1>4, <2>1, <5>1, <5>2
          <6>2. p[k + 1] = Star
            BY <4>1, <6>1 DEF AllStars
          <6>3. p[k + 1] = pattern[((i + 1) + k) - 1]
            BY <5>3, <6>1
          <6> QED
            BY <5>2, <6>2, <6>3
        <5> QED
          BY <5>4 DEF AllStars, r
      <4> QED
        BY <2>6, <3>2, <4>1
    <3>5. AllStars(p) => <<>> \in l[i]
      <4>1. Glued(<<>>, <<>>, <<>>)
        BY DEF Glued
      <4> HIDE DEF L, p
      <4> QED
        BY <1>1, <3>2, <3>4, <4>1, InJoined
    <3>6. ASSUME NEW j \in 1..m PROVE f[i][j] <=> From(s, j) \in l[i]
      <4>1. f[i][j] <=> AllStars(p) \/ \E k \in j..m : f[i + 1][k]
        BY <2>3, <2>7
      <4>2. \A k \in j..m : k \in 1..m
        BY <1>4
      <4>3. f[i][j] <=> \E k \in j..m : From(s, k) \in L
        <5>1. AllStars(p) => From(s, m) \in L
          BY <1>4, <1>5, <3>4
        <5>2. m \in j..m
          BY <1>4
        <5> QED
          BY <3>3, <4>1, <4>2, <5>1, <5>2
      <4>4. ASSUME NEW k \in j..m, From(s, k) \in L PROVE From(s, j) \in l[i]
        <5> DEFINE a == SubSeq(s, j, k - 1)
                   b == From(s, k)
        <5>0. b \in L
          BY <4>4
        <5>1. a \in Texts /\ From(s, j) \in Texts
          BY PartsAreTexts DEF m
        <5>2. Glued(From(s, j), a, b)
          BY <1>1, IsJoined DEF m, Glued
        <5> HIDE DEF a, b
        <5> QED
          BY <3>2, <5>0, <5>1, <5>2, InJoined
      <4>5. ASSUME From(s, j) \in l[i] PROVE \E k \in j..m : From(s, k) \in L
        <5> DEFINE t == From(s, j)
        <5>0. t \in Joined(Texts, L)
          BY <3>2, <4>5
        <5> HIDE DEF L, t
        <5>1. PICK a \in Texts, b \in L : Glued(t, a, b)
          BY <5>0, InJoined, Zenon
        <5>2. a \in Seq(Int) /\ b \in Seq(Int)
          BY <1>1, <3>3
        <5>3. j + Len(a) \in j..m /\ b = From(s, j + Len(a))
          BY <1>5a, <5>1, <5>2, Zenon DEF t
        <5> QED
          BY <5>1, <5>3
      <4> QED
        BY <4>3, <4>4, <4>5
    <3> QED
      BY <3>5, <3>6
  <2>8. CASE p # <<>> /\ p[1] # Star
    <3> DEFINE w == Width(p, escapes)
               L == l[i + w]
               A == {u \in Texts : Len(u) = 1 /\ Fits(p, escapes, u[1])}
    <3>1. item.width = w /\ item.texts = A
      BY <2>1, <2>8, ItemForm
    <3>2. l[i] = Joined(A, L) \cap Texts /\ i + w \in (i + 1)..n
      BY <2>5, <2>8, <3>1
    <3>3. L \subseteq Texts /\ \A j \in 1..m : f[i + w][j] <=> From(s, j) \in L
      BY <2>6, <3>2
    <3>4. ~AllStars(p)
      <4>1. 1 \in 1..Len(p)
        <5> HIDE DEF p
        <5> QED
          BY <2>1, <2>8
      <4> QED
        BY <2>8, <4>1 DEF AllStars
    <3>5. ASSUME NEW j \in 1..m PROVE f[i][j] <=> From(s, j) \in l[i]
      <4>1. f[i][j] <=> j # m /\ Fits(p, escapes, s[j]) /\ f[i + w][j + 1]
        BY <2>3, <2>8
      <4>2. ASSUME f[i][j] PROVE From(s, j) \in l[i]
        <5> DEFINE a == SubSeq(s, j, (j + 1) - 1)
                   b == From(s, j + 1)
        <5>1. j + 1 \in j..m /\ j + 1 \in 1..m /\ j + 1 > j /\ (j + 1) - j = 1
          BY <1>4, <4>1, <4>2
        <5>2. b \in L
          BY <3>3, <4>1, <4>2, <5>1
        <5>3. a \in Texts /\ From(s, j) \in Texts
          BY <5>1, PartsAreTexts DEF m
        <5>4. Glued(From(s, j), a, b) /\ Len(a) = (j + 1) - j /\ a[1] = s[j]
          BY <1>1, <5>1, IsJoined DEF m, Glued
        <5> HIDE DEF a, b
        <5>5. a \in A
          BY <4>1, <4>2, <5>1, <5>3, <5>4
        <5> HIDE DEF A
        <5> QED
          BY <3>2, <5>2, <5>3, <5>4, <5>5, InJoined
      <4>3. ASSUME From(s, j) \in l[i] PROVE f[i][j]
        <5>1. PICK a \in A, b \in L : Glued(From(s, j), a, b)
          <6> HIDE DEF A
          <6> QED
            BY <3>2, <4>3, InJoined
        <5>2. a \in Seq(Int) /\ b \in Seq(Int) /\ Len(a) = 1 /\ Fits(p, escapes, a[1])
          BY <1>1, <3>3
        <5>3. j + Len(a) \in j..m /\ b = From(s, j + Len(a)) /\ a[1] = s[j]
          BY <1>5a, <5>1, <5>2, Zenon
        <5>4. j + 1 \in 1..m /\ j # m
          BY <1>4, <5>2, <5>3
        <5>5. f[i + w][j + 1]
          BY <3>3, <5>2, <5>3, <5>4
        <5> QED
          BY <4>1, <5>2, <5>3, <5>4, <5>5
      <4> QED
        BY <4>2, <4>3
    <3> QED
      BY <3>4, <3>5
  <2> QED
    BY <2>4, <2>7, <2>8
<1>7. 1 \in T
  <2>1. ASSUME NEW i \in 1..n, \A k \in (i + 1)..n : k \in T PROVE i \in T
    BY <1>6, <2>1
  <2> HIDE DEF T, n
  <2>2. 1..n \subseteq T
    BY <1>4, <2>1, DownTo
  <2> QED
    BY <1>4, <2>2
<1>8. f[1][1] <=> From(s, 1) \in l[1]
  BY <1>4, <1>7
<1>9. From(s, 1) = s
  BY <1>1 DEF From
<1> QED
  BY <1>2, <1>3, <1>8, <1>9

(* Only a backslash tells the two matchers apart. *)
LEMMA SameItem ==
  ASSUME NEW p \in Seq(Int), p[1] # Backslash
  PROVE  FirstItem(p, TRUE, Texts) = FirstItem(p, FALSE, Texts)
BY DEF FirstItem

LEMMA SameLanguage ==
  ASSUME NEW p \in Seq(Int), \A i \in 1..Len(p) : p[i] # Backslash
  PROVE  Language(p, TRUE, Texts) = Language(p, FALSE, Texts)
<1> DEFINE n == Len(p) + 1
<1>1. PICK k \in [1..n -> SUBSET Texts] :
        /\ Language(p, TRUE, Texts) = k[1]
        /\ \A i \in 1..n : k[i] = LanguageAt(p, TRUE, k, i)
  BY LanguageTable
<1>2. PICK c \in [1..n -> SUBSET Texts] :
        /\ Language(p, FALSE, Texts) = c[1]
        /\ \A i \in 1..n : c[i] = LanguageAt(p, FALSE, c, i)
  BY LanguageTable
<1>3. n \in Nat /\ 1 \in 1..n /\ Len(p) = n - 1
  OBVIOUS
<1> DEFINE T == {i \in 1..n : k[i] = c[i]}
<1>4. ASSUME NEW i \in 1..n, \A j \in (i + 1)..n : j \in T PROVE i \in T
  <2>1. k[i] = LanguageAt(p, TRUE, k, i) /\ c[i] = LanguageAt(p, FALSE, c, i)
    BY <1>1, <1>2
  <2>2. CASE i > Len(p)
    <3>1. \A e : \A g : LanguageAt(p, e, g, i) = {<<>>}
      BY <2>2 DEF LanguageAt
    <3> HIDE DEF n
    <3> QED
      BY <2>1, <3>1
  <2>3. CASE ~(i > Len(p))
    <3> DEFINE q == From(p, i)
               item == FirstItem(q, TRUE, Texts)
    <3>1. i \in 1..Len(p) /\ i # Len(p) + 1 /\ i \in 1..Len(p) + 1
      BY <1>3, <2>3
    <3>2. q \in Seq(Int) /\ q[1] = p[i]
      BY <3>1, FromProperties
    <3>3. item = FirstItem(q, FALSE, Texts)
      BY <3>1, <3>2, SameItem
    <3>4. i + item.width \in (i + 1)..n
      BY <3>1, ItemWidth
    <3>5. k[i + item.width] = c[i + item.width]
      BY <1>4, <3>4
    <3>6. k[i] = Joined(item.texts, k[i + item.width]) \cap Texts
      BY <2>1, <2>3 DEF LanguageAt, Joined
    <3>7. c[i] = Joined(FirstItem(q, FALSE, Texts).texts, c[i + FirstItem(q, FALSE, Texts).width]) \cap Texts
      BY <2>1, <2>3 DEF LanguageAt, Joined
    <3>8. c[i] = Joined(item.texts, c[i + item.width]) \cap Texts
      BY <3>3, <3>7
    <3> HIDE DEF item, n
    <3> QED
      BY <3>5, <3>6, <3>8
  <2> QED
    BY <2>2, <2>3
<1> HIDE DEF T, n
<1>5. 1..n \subseteq T
  BY <1>3, <1>4, DownTo
<1>6. k[1] = c[1]
  BY <1>3, <1>5 DEF T
<1> QED
  BY <1>1, <1>2, <1>6

(* A match is a truth value. *)
LEMMA MatchesType ==
  ASSUME NEW pattern \in Seq(Int), NEW s \in Seq(Int), NEW escapes \in BOOLEAN
  PROVE  globMatchBytes(pattern, s, escapes) \in BOOLEAN
<1>1. PICK f : /\ globMatchBytes(pattern, s, escapes) = f[1][1]
               /\ \A i \in 1..Len(pattern) + 1, j \in 1..Len(s) + 1 :
                    f[i][j] = MatchesAt(pattern, s, escapes, f, i, j)
  BY GlobTable
<1>2. 1 \in 1..Len(pattern) + 1 /\ 1 \in 1..Len(s) + 1
  OBVIOUS
<1>3. f[1][1] = MatchesAt(pattern, s, escapes, f, 1, 1)
  BY <1>1, <1>2
<1>4. MatchesAt(pattern, s, escapes, f, 1, 1) \in BOOLEAN
  BY <1>2, MatchesForm
<1> QED
  BY <1>1, <1>3, <1>4

LEMMA LanguageInTexts ==
  ASSUME NEW p \in Seq(Int), NEW escapes \in BOOLEAN
  PROVE  Language(p, escapes, Texts) \subseteq Texts
<1>1. 1 \in 1..Len(p) + 1
  OBVIOUS
<1>2. PICK l \in [1..Len(p) + 1 -> SUBSET Texts] : Language(p, escapes, Texts) = l[1]
  BY LanguageTable
<1> QED
  BY <1>1, <1>2

(* globMatch of memstore/pattern.go and of resp/glob.go accept, for every  *)
(* pattern and every set of texts closed under taking parts, exactly the   *)
(* texts the pattern stands for; and without a backslash in the pattern    *)
(* the two accept the same.                                                *)
THEOREM GlobCorrect ==
  ASSUME input.about = "glob" => input.value \in Seq(Int)
  PROVE  GlobRight
<1> DEFINE p == input.value
<1> SUFFICES ASSUME p \in Seq(Int) PROVE GlobMatchesLanguage(p, Texts)
  BY DEF GlobRight
<1> HIDE DEF p
<1>1. \A escapes \in BOOLEAN : \A t \in Texts :
        globMatchBytes(p, t, escapes) <=> t \in Language(p, escapes, Texts)
  BY MatchesLanguage
<1>2. \A escapes \in BOOLEAN : Language(p, escapes, Texts) \subseteq Texts
  BY LanguageInTexts
<1>3. {t \in Texts : keyGlobMatch(p, t)} = Language(p, TRUE, Texts)
  <2>1. \A t \in Texts : keyGlobMatch(p, t) <=> t \in Language(p, TRUE, Texts)
    BY <1>1 DEF keyGlobMatch
  <2> QED
    BY <1>2, <2>1
<1>4. {t \in Texts : channelGlobMatch(p, t)} = Language(p, FALSE, Texts)
  <2>1. \A t \in Texts : channelGlobMatch(p, t) <=> t \in Language(p, FALSE, Texts)
    BY <1>1 DEF channelGlobMatch
  <2> QED
    BY <1>2, <2>1
<1>5. ASSUME Backslash \notin {p[i] : i \in 1..Len(p)}, NEW t \in Texts
      PROVE  keyGlobMatch(p, t) = channelGlobMatch(p, t)
  <2>1. Language(p, TRUE, Texts) = Language(p, FALSE, Texts)
    <3>1. \A i \in 1..Len(p) : p[i] # Backslash
      BY <1>5
    <3> QED
      BY <3>1, SameLanguage
  <2>2. t \in Seq(Int)
    BY TextsAssumption
  <2> DEFINE x == globMatchBytes(p, t, TRUE)
             y == globMatchBytes(p, t, FALSE)
  <2>3. x \in BOOLEAN /\ y \in BOOLEAN
    BY <2>2, MatchesType
  <2>4. x <=> y
    BY <1>1, <2>1
  <2>5. keyGlobMatch(p, t) = x /\ channelGlobMatch(p, t) = y
    BY DEF keyGlobMatch, channelGlobMatch
  <2> HIDE DEF x, y
  <2> QED
    BY <2>3, <2>4, <2>5
<1> QED
  BY <1>3, <1>4, <1>5, Zenon DEF GlobMatchesLanguage
=============================================================================
