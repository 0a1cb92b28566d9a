------------------------------- MODULE MemStore -------------------------------
(***************************************************************************)
(* The sharded in-memory engine, internal/storage/memstore, with its TTL   *)
(* reaper, internal/storage/ttl, and eviction, internal/eviction.          *)
(*                                                                         *)
(* Many goroutines (Clients) call the engine at once.  A call reads the    *)
(* clock, then takes the write lock of its key's shard: time may pass in   *)
(* between, so `now' can be stale when it is used.  All a call does under  *)
(* one shard lock is one step here, with one exception: entryCount is      *)
(* shared by all shards, so inserting a new key is split where the cap is  *)
(* tested (load), the victim dropped (evict) and the key stored (insert),  *)
(* with the shard lock held throughout.  RENAME across shards takes two    *)
(* locks, in two steps.  DEL, EXISTS, KEYS, SCAN and FLUSHDB release one   *)
(* shard before they take the next, and so are one step per key or shard.  *)
(*                                                                         *)
(* A composite key is a pair <<workspace, name>>.                          *)
(***************************************************************************)
EXTENDS Containers

CONSTANTS
  Clients,             \* goroutines calling the engine
  Workspaces, Names,   \* what keys are made of
  NumShards,           \* number of shards, numbered 0 .. NumShards - 1
  ShardIndex,          \* FNV-1a of a composite key modulo NumShards
  MaxEntries,          \* --max-entries; 0 or less switches eviction off
  Policy,              \* the eviction policy, "LRU" or "Weighted"
  EvictionSampleSize,  \* entries examined for a victim
  SweepSampleSize,     \* keys with a TTL examined per shard and sweep
  Elems,               \* hash fields, set and sorted-set members
  Payloads,            \* values clients write
  Numbers,             \* deltas, scores, list indices and counts clients send
  TTLs,                \* durations clients ask for, 0 included
  SetOptions,          \* the NX / XX and GET options clients give to Set
  Commands,            \* the engine methods clients call in this instance
  MaxOps,              \* bound: calls begun in one behaviour
  MaxTime,             \* bound: how far the clock runs
  Free                 \* marks a shard lock nobody holds

Keys   == Workspaces \X Names
Shards == 0 .. NumShards - 1
ShardOf(k) == ShardIndex[k]

ASSUME ShardAssumption ==
  /\ NumShards \in Nat \ {0}
  /\ ShardIndex \in [Keys -> Shards]

ASSUME SizeAssumption ==
  /\ IsFiniteSet(Keys)
  /\ MaxEntries \in Int
  /\ EvictionSampleSize \in Nat \ {0}
  /\ SweepSampleSize \in Nat \ {0}

ASSUME ClientAssumption ==
  /\ Free \notin Clients
  /\ TTLs \subseteq Nat
  /\ Numbers \subseteq Int
  /\ Payloads \subseteq Int
  /\ Elems \subseteq Int
  /\ SetOptions \subseteq [mode : {"none", "NX", "XX"}, getOld : BOOLEAN]
  /\ MaxOps \in Nat
  /\ MaxTime \in Nat

-----------------------------------------------------------------------------
(* Entries.  The zero Entry, of KindNone, stands for a key that is absent  *)
(* from its shard's map.                                                   *)

Kinds == {"string", "hash", "list", "set", "zset"}
NoTTL == -1

Entry(kind, val, expiresAt, lastAccess, accessCount) ==
  [kind |-> kind, val |-> val, expiresAt |-> expiresAt,
   lastAccess |-> lastAccess, accessCount |-> accessCount]

NoEntry == Entry("none", Empty, NoTTL, 0, 0)

newEmptyEntry(kind, now) == Entry(kind, Empty, NoTTL, now, 0)

Present(st, k) == st.data[k].kind # "none"

expired(e, now) == e.expiresAt # NoTTL /\ e.expiresAt <= now

(* getLocked: what a read under the read lock sees. *)
Live(st, k, now) == Present(st, k) /\ ~expired(st.data[k], now)

WithContent(e, val) ==
  Entry(e.kind, val, e.expiresAt, e.lastAccess, e.accessCount)

WithExpiry(e, at) ==
  Entry(e.kind, e.val, at, e.lastAccess, e.accessCount)

Touched(e, now) ==
  Entry(e.kind, e.val, e.expiresAt, now, e.accessCount + 1)

-----------------------------------------------------------------------------
(* The shard primitives of shard.go, as functions of the whole store.      *)

Store(data, ttlKeys, versions, entryCount) ==
  [data |-> data, ttlKeys |-> ttlKeys, versions |-> versions,
   entryCount |-> entryCount]

bumpVersionLocked(st, k) ==
  Store(st.data, st.ttlKeys, [st.versions EXCEPT ![k] = @ + 1], st.entryCount)

(* Fault: a key that loses its expiry stays in the index. *)
NeverUnindexed(ttlKeys, k, at) ==
  IF at = NoTTL THEN ttlKeys ELSE ttlKeys \cup {k}

TTLIndexed(ttlKeys, k, at) ==
  IF at = NoTTL THEN ttlKeys \ {k} ELSE ttlKeys \cup {k}

(* Fault: overwriting a key counts it again. *)
CountsOverwrites(st, k, e) ==
  bumpVersionLocked(
    Store([st.data EXCEPT ![k] = e], TTLIndexed(st.ttlKeys, k, e.expiresAt),
          st.versions, st.entryCount + 1), k)

setEntryLocked(st, k, e) ==
  bumpVersionLocked(
    Store([st.data EXCEPT ![k] = e],
          TTLIndexed(st.ttlKeys, k, e.expiresAt),
          st.versions,
          IF Present(st, k) THEN st.entryCount ELSE st.entryCount + 1), k)

setExpiryLocked(st, k, at) ==
  bumpVersionLocked(
    Store([st.data EXCEPT ![k] = WithExpiry(st.data[k], at)],
          TTLIndexed(st.ttlKeys, k, at),
          st.versions, st.entryCount), k)

deleteEntryLocked(st, k) ==
  Store([st.data EXCEPT ![k] = NoEntry],
        st.ttlKeys \ {k},
        st.versions,
        IF Present(st, k) THEN st.entryCount - 1 ELSE st.entryCount)

(* What every deletion that clients can see amounts to. *)
Remove(st, k) == bumpVersionLocked(deleteEntryLocked(st, k), k)

(* The lookup that starts every write, and most reads. *)
getForWriteLocked(st, k, now) ==
  IF Present(st, k) /\ expired(st.data[k], now) THEN Remove(st, k) ELSE st

(* Remove for a set of present keys, as the loops of FlushDB and of the    *)
(* sweep do one key at a time under one lock.                              *)
RemoveAll(st, S) ==
  Store([k \in Keys |-> IF k \in S THEN NoEntry ELSE st.data[k]],
        st.ttlKeys \ S,
        [k \in Keys |-> IF k \in S THEN st.versions[k] + 1 ELSE st.versions[k]],
        st.entryCount - Cardinality(S))

(* A mutation of the entry in place: the caller keeps the pointer. *)
Mutate(st, k, e) ==
  Store([st.data EXCEPT ![k] = e], st.ttlKeys, st.versions, st.entryCount)

Resident(st, sh) == {k \in Keys : ShardOf(k) = sh /\ Present(st, k)}

-----------------------------------------------------------------------------
(* Eviction: sample, score, drop the best scorer.                          *)

(* LRU.Score: the age of the last access.                                  *)
(* Weighted.Score with DefaultWeights, 0.6 recency + 0.4 frequency, as a   *)
(* fraction <<numerator, denominator>> over 10.                            *)
Score(e, now) ==
  LET age == now - e.lastAccess
      a   == IF age < 0 THEN 0 ELSE age
      n   == e.accessCount
  IN  IF Policy = "LRU" THEN <<age, 1>>
      ELSE <<6 * a * (1 + n) + 4 * (1 + a), 10 * (1 + a) * (1 + n)>>

(* Fault: the sample's lowest score wins. *)
AtMost(p, q) == p[1] * q[2] <= q[1] * p[2]

AtLeast(p, q) == p[1] * q[2] >= q[1] * p[2]

Samples(S, size) ==
  {T \in SUBSET S : Cardinality(T) = IF size < Cardinality(S) THEN size ELSE Cardinality(S)}

(* pickEvictionVictimLocked: map order decides the sample and the ties. *)
Victims(st, sh, now) ==
  {v \in Resident(st, sh) :
     \E T \in Samples(Resident(st, sh), EvictionSampleSize) :
       /\ v \in T
       /\ \A u \in T : AtLeast(Score(st.data[v], now), Score(st.data[u], now))}

-----------------------------------------------------------------------------
(* Requests: the engine method and its arguments.                          *)

NoReq == [name |-> "none", ws |-> "none", keys |-> <<>>, elem |-> 0, val |-> 0,
          num |-> 0, mode |-> "none", getOld |-> FALSE]

HashReads == {"HGetAll", "HExists", "HKeys", "HVals", "HLen", "HMGet"}
ListReads == {"LRange", "LLen", "LIndex"}
SetReads  == {"SMembers", "SIsMember", "SCard", "setSnapshot"}
ZSetReads == {"ZRange", "ZRevRange", "ZScore", "ZRank", "ZCard", "ZRangeByScore"}
PlainReads == {"TTL"} \cup HashReads \cup ListReads \cup SetReads \cup ZSetReads

Creators == {"HSet", "HIncrBy", "LPush", "RPush", "SAdd", "ZAdd", "ZIncrBy"}
ShardLoops == {"Keys", "Scan", "FlushDB"}   \* methods that visit the shards in turn

Methods ==
  PlainReads \cup Creators \cup ShardLoops
  \cup {"Get", "HGet", "Type", "Exists", "Set", "Del", "Expire", "Persist", "Rename",
        "HDel", "SRem", "ZRem", "LPop", "RPop", "LRem", "LSet"}

(* Calls of the methods `names' with the arguments in S. *)
Calls(names, S) == {[r EXCEPT !.name = n] : r \in S, n \in names \cap Commands}

Pairs(S) == {<<<<w, x>>, <<w, y>>>> : w \in Workspaces, x \in S, y \in S}

WithOptions(r, o) == [r EXCEPT !.mode = o.mode, !.getOld = o.getOld]

KeyReqs     == {[NoReq EXCEPT !.keys = <<k>>] : k \in Keys}
TwoKeyReqs  == {[NoReq EXCEPT !.keys = p] : p \in Pairs(Names)}
WsReqs      == {[NoReq EXCEPT !.ws = w] : w \in Workspaces}
TTLReqs     == {[r EXCEPT !.num = t] : r \in KeyReqs, t \in TTLs}
ElemReqs    == {[r EXCEPT !.elem = x] : r \in KeyReqs, x \in Elems}
ElemNumReqs == {[r EXCEPT !.num = n] : r \in ElemReqs, n \in Numbers}
ElemValReqs == {[r EXCEPT !.val = v] : r \in ElemReqs, v \in Payloads}
ValReqs     == {[r EXCEPT !.val = v] : r \in KeyReqs, v \in Payloads}
ValNumReqs  == {[r EXCEPT !.num = n] : r \in ValReqs, n \in Numbers}
ValTTLReqs  == {[r EXCEPT !.num = t] : r \in ValReqs, t \in TTLs}
SetReqs     == {WithOptions(r, o) : r \in ValTTLReqs, o \in SetOptions}

Requests ==
  Calls(PlainReads \cup {"Get", "Type", "Persist", "LPop", "RPop"}, KeyReqs)
  \cup Calls({"Del", "Exists"}, KeyReqs \cup TwoKeyReqs)
  \cup Calls({"Rename"}, TwoKeyReqs)
  \cup Calls(ShardLoops, WsReqs)
  \cup Calls({"Set"}, SetReqs)
  \cup Calls({"Expire"}, TTLReqs)
  \cup Calls({"HSet"}, ElemValReqs)
  \cup Calls({"HIncrBy", "ZAdd", "ZIncrBy"}, ElemNumReqs)
  \cup Calls({"HGet", "HDel", "SAdd", "SRem", "ZRem"}, ElemReqs)
  \cup Calls({"LPush", "RPush"}, ValReqs)
  \cup Calls({"LSet", "LRem"}, ValNumReqs)

-----------------------------------------------------------------------------
VARIABLES
  store,      \* all shards: data, ttlKeys, versions, and the global entryCount
  lock,       \* lock[sh]: the client inside shard sh's write lock, or Free
  op,         \* op[c]: the call client c is in, and how far it is
  clock,      \* the wall clock
  reaper,     \* the reaper goroutine: waiting, sweeping shard i, stopped
  cancelled,  \* Close was called
  issued      \* calls begun so far

vars == <<store, lock, op, clock, reaper, cancelled, issued>>

(* pc: idle -> run -> (load -> evict -> insert) or (second) -> idle.       *)
(* i is the loop index; acc the names KEYS has collected; snap, a history  *)
(* copy of the versions at the start of KEYS.                              *)
Call(pc, req, now, i, acc, snap) ==
  [pc |-> pc, req |-> req, now |-> now, i |-> i, acc |-> acc, snap |-> snap]

Idle == Call("idle", NoReq, 0, 1, {}, <<>>)

AtPC(o, pc)       == Call(pc, o.req, o.now, o.i, o.acc, o.snap)
AtNext(o)         == Call(o.pc, o.req, o.now, o.i + 1, o.acc, o.snap)
Collected(o, ks)  == Call(o.pc, o.req, o.now, o.i + 1, o.acc \cup ks, o.snap)

Init ==
  /\ store = Store([k \in Keys |-> NoEntry], {}, [k \in Keys |-> 0], 0)
  /\ lock = [sh \in Shards |-> Free]
  /\ op = [c \in Clients |-> Idle]
  /\ clock = 0
  /\ reaper = [pc |-> "wait", i |-> 0]
  /\ cancelled = FALSE
  /\ issued = 0

Req(c) == op[c].req
Now(c) == op[c].now
Key(c) == op[c].req.keys[op[c].i]
Sh(c)  == ShardOf(Key(c))

(* A call starts: it computes its shard and reads the clock, no lock yet.  *)
Begin(c) ==
  /\ op[c].pc = "idle"
  /\ issued < MaxOps
  /\ issued' = issued + 1
  /\ \E r \in Requests :
       op' = [op EXCEPT ![c] =
                Call("run", r, clock, 1, {},
                     IF r.name \in {"Keys", "Scan"} THEN store.versions ELSE <<>>)]
  /\ UNCHANGED <<store, lock, clock, reaper, cancelled>>

(* c runs a method in `names' and finds the lock of its key's shard free.  *)
Running(c, names) ==
  /\ op[c].pc = "run"
  /\ op[c].req.name \in names
  /\ lock[Sh(c)] = Free

Finish(c, st) ==
  /\ store' = st
  /\ op' = [op EXCEPT ![c] = Idle]
  /\ UNCHANGED <<lock, clock, reaper, cancelled, issued>>

(* The step of a loop over the request's keys. *)
NextKey(c, st) ==
  /\ store' = st
  /\ op' = [op EXCEPT ![c] = IF op[c].i < Len(op[c].req.keys) THEN AtNext(op[c]) ELSE Idle]
  /\ UNCHANGED <<lock, clock, reaper, cancelled, issued>>

Fetched(c) == getForWriteLocked(store, Key(c), Now(c))

KindAt(st, k) == st.data[k].kind

-----------------------------------------------------------------------------
(* Reads.                                                                  *)

Get(c) ==
  /\ Running(c, {"Get"})
  /\ LET st == Fetched(c)
     IN  Finish(c, IF KindAt(st, Key(c)) = "string"
                   THEN Mutate(st, Key(c), Touched(st.data[Key(c)], Now(c)))
                   ELSE st)

HGet(c) ==
  /\ Running(c, {"HGet"})
  /\ LET st == Fetched(c)
         e  == st.data[Key(c)]
     IN  Finish(c, IF e.kind = "hash" /\ Req(c).elem \in DOMAIN e.val
                   THEN Mutate(st, Key(c), Touched(e, Now(c)))
                   ELSE st)

(* The other reads change nothing but what the lookup deletes.             *)
TTL(c) == Running(c, {"TTL"}) /\ Finish(c, Fetched(c))
HashRead(c) == Running(c, HashReads) /\ Finish(c, Fetched(c))
ListRead(c) == Running(c, ListReads) /\ Finish(c, Fetched(c))
SetRead(c)  == Running(c, SetReads)  /\ Finish(c, Fetched(c))
ZSetRead(c) == Running(c, ZSetReads) /\ Finish(c, Fetched(c))

(* A read under the read lock does not delete what it finds expired.       *)
Exists(c) == Running(c, {"Exists"}) /\ NextKey(c, store)
Type(c)   == Running(c, {"Type"}) /\ Finish(c, store)

(* Fault: the shards are counted from 1. *)
CollectFromSecondShard(c) ==
  LET sh == op[c].i
      found == {k \in Resident(store, sh) : k[1] = Req(c).ws /\ Live(store, k, Now(c))}
  IN  /\ op[c].pc = "run"
      /\ Req(c).name \in {"Keys", "Scan"}
      /\ op[c].i <= NumShards
      /\ op' = [op EXCEPT ![c] = Collected(op[c], found)]
      /\ UNCHANGED <<store, lock, clock, reaper, cancelled, issued>>

(* keysForWorkspace: one shard per step, with the `now' of the call.       *)
CollectKeys(c) ==
  LET sh == op[c].i - 1
      found == {k \in Resident(store, sh) : k[1] = Req(c).ws /\ Live(store, k, Now(c))}
  IN  /\ op[c].pc = "run"
      /\ Req(c).name \in {"Keys", "Scan"}
      /\ sh < NumShards
      /\ lock[sh] = Free
      /\ op' = [op EXCEPT ![c] = Collected(op[c], found)]
      /\ UNCHANGED <<store, lock, clock, reaper, cancelled, issued>>

(* Keys and Scan return: sorting, matching and paging touch no state.      *)
ReturnKeys(c) ==
  /\ op[c].pc = "run"
  /\ Req(c).name \in {"Keys", "Scan"}
  /\ op[c].i = NumShards + 1
  /\ Finish(c, store)

-----------------------------------------------------------------------------
(* Deleting, expiring and moving keys.                                     *)

Del(c) ==
  /\ Running(c, {"Del"})
  /\ LET st == Fetched(c)
     IN  NextKey(c, IF Present(st, Key(c)) THEN Remove(st, Key(c)) ELSE st)

Expire(c) ==
  /\ Running(c, {"Expire"})
  /\ LET st == Fetched(c)
     IN  Finish(c, IF ~Present(st, Key(c)) THEN st
                   ELSE IF Req(c).num <= 0 THEN Remove(st, Key(c))
                   ELSE setExpiryLocked(st, Key(c), Now(c) + Req(c).num))

Persist(c) ==
  /\ Running(c, {"Persist"})
  /\ LET st == Fetched(c)
     IN  Finish(c, IF Present(st, Key(c)) /\ st.data[Key(c)].expiresAt # NoTTL
                   THEN setExpiryLocked(st, Key(c), NoTTL)
                   ELSE st)

FlushDB(c) ==
  LET sh == op[c].i - 1
  IN  /\ op[c].pc = "run"
      /\ Req(c).name = "FlushDB"
      /\ lock[sh] = Free
      /\ store' = RemoveAll(store, {k \in Resident(store, sh) : k[1] = Req(c).ws})
      /\ op' = [op EXCEPT ![c] = IF op[c].i < NumShards THEN AtNext(op[c]) ELSE Idle]
      /\ UNCHANGED <<lock, clock, reaper, cancelled, issued>>

(* Fault: watchers of the old name are not told. *)
MovedOldUnversioned(st0, old, new, now) ==
  LET st == getForWriteLocked(st0, old, now)
  IN  IF ~Present(st, old) THEN st
      ELSE setEntryLocked(deleteEntryLocked(st, old), new, st.data[old])

(* No eviction check: a rename does not count as inserting a key.          *)
Moved(st0, old, new, now) ==
  LET st == getForWriteLocked(st0, old, now)
      e  == st.data[old]
  IN  IF ~Present(st, old) THEN st
      ELSE bumpVersionLocked(setEntryLocked(deleteEntryLocked(st, old), new, e), old)

OldKey(c) == Req(c).keys[1]
NewKey(c) == Req(c).keys[2]

(* Fault: the old key's shard is always locked first. *)
UnorderedLocks(c) == <<ShardOf(OldKey(c)), ShardOf(NewKey(c))>>

(* The shards of a rename, in the order it locks them. *)
RenameOrder(c) ==
  LET o == ShardOf(OldKey(c))
      n == ShardOf(NewKey(c))
  IN  IF o > n THEN <<n, o>> ELSE <<o, n>>

RenameWithinShard(c) ==
  /\ Running(c, {"Rename"})
  /\ ShardOf(OldKey(c)) = ShardOf(NewKey(c))
  /\ Finish(c, Moved(store, OldKey(c), NewKey(c), Now(c)))

RenameLockFirst(c) ==
  /\ op[c].pc = "run"
  /\ Req(c).name = "Rename"
  /\ ShardOf(OldKey(c)) # ShardOf(NewKey(c))
  /\ lock[RenameOrder(c)[1]] = Free
  /\ lock' = [lock EXCEPT ![RenameOrder(c)[1]] = c]
  /\ op' = [op EXCEPT ![c] = AtPC(op[c], "second")]
  /\ UNCHANGED <<store, clock, reaper, cancelled, issued>>

(* Fault: the second shard is written without its lock. *)
RenameWithOneLock(c) ==
  /\ op[c].pc = "second"
  /\ store' = Moved(store, OldKey(c), NewKey(c), Now(c))
  /\ lock' = [lock EXCEPT ![RenameOrder(c)[1]] = Free]
  /\ op' = [op EXCEPT ![c] = Idle]
  /\ UNCHANGED <<clock, reaper, cancelled, issued>>

RenameAcrossShards(c) ==
  /\ op[c].pc = "second"
  /\ lock[RenameOrder(c)[2]] = Free
  /\ store' = Moved(store, OldKey(c), NewKey(c), Now(c))
  /\ lock' = [lock EXCEPT ![RenameOrder(c)[1]] = Free]
  /\ op' = [op EXCEPT ![c] = Idle]
  /\ UNCHANGED <<clock, reaper, cancelled, issued>>

-----------------------------------------------------------------------------
(* Writes that may create their key.                                       *)

(* The kind a creating method needs; Set replaces whatever is there. *)
KindOf(name) ==
  CASE name = "Set" -> "string"
    [] name \in {"HSet", "HIncrBy"} -> "hash"
    [] name \in {"LPush", "RPush"} -> "list"
    [] name = "SAdd" -> "set"
    [] OTHER -> "zset"

NewContent(r, val) ==
  CASE r.name = "HSet"    -> MapPut(val, r.elem, r.val)
    [] r.name = "HIncrBy" -> HIncrBy(val, r.elem, r.num)
    [] r.name = "LPush"   -> LPush(val, <<r.val>>)
    [] r.name = "RPush"   -> RPush(val, <<r.val>>)
    [] r.name = "SAdd"    -> MapPut(val, r.elem, 0)
    [] r.name = "ZAdd"    -> MapPut(val, r.elem, r.num)
    [] r.name = "ZIncrBy" -> ZIncrBy(val, r.elem, r.num)

(* The body of a creating method once ensureKind gave it the entry e:      *)
(* HIncrBy may refuse the field, and ZIncrBy is no access to the LRU.      *)
Written(st, k, r, now) ==
  LET e == st.data[k]
      w == WithContent(e, NewContent(r, e.val))
  IN  IF r.name = "HIncrBy" /\ ~HIncrOK(e.val, r.elem) THEN st
      ELSE bumpVersionLocked(
             Mutate(st, k, IF r.name = "ZIncrBy" THEN w ELSE Touched(w, now)), k)

(* The key is absent: hold its shard and go through the eviction check.    *)
EnterInsert(c, st) ==
  /\ store' = st
  /\ lock' = [lock EXCEPT ![Sh(c)] = c]
  /\ op' = [op EXCEPT ![c] = AtPC(op[c], "load")]
  /\ UNCHANGED <<clock, reaper, cancelled, issued>>

(* ensureKind and the write: a live entry of another kind is an error.     *)
Create(c) ==
  /\ Running(c, Creators)
  /\ LET st == Fetched(c)
     IN  IF Present(st, Key(c))
         THEN Finish(c, IF KindAt(st, Key(c)) = KindOf(Req(c).name)
                        THEN Written(st, Key(c), Req(c), Now(c))
                        ELSE st)
         ELSE EnterInsert(c, st)

NewString(r, now) ==
  Entry("string", <<r.val>>, IF r.num > 0 THEN now + r.num ELSE NoTTL, now, 1)

Set(c) ==
  /\ Running(c, {"Set"})
  /\ LET st     == Fetched(c)
         exists == Present(st, Key(c))
         r      == Req(c)
         refused == \/ r.getOld /\ exists /\ KindAt(st, Key(c)) # "string"
                    \/ r.mode = "NX" /\ exists
                    \/ r.mode = "XX" /\ ~exists
     IN  IF refused THEN Finish(c, st)
         ELSE IF exists THEN Finish(c, setEntryLocked(st, Key(c), NewString(r, Now(c))))
         ELSE EnterInsert(c, st)

(* Fault: the test leaves out the key about to be inserted. *)
LoadCountOffByOne(c) ==
  /\ op[c].pc = "load"
  /\ LET room == MaxEntries <= 0 \/ store.entryCount <= MaxEntries
     IN  op' = [op EXCEPT ![c] = AtPC(op[c], IF room THEN "insert" ELSE "evict")]
  /\ UNCHANGED <<store, lock, clock, reaper, cancelled, issued>>

(* evictIfNeededLocked, part 1: is there room for one more?  entryCount    *)
(* belongs to all shards; only this client's shard is locked.              *)
LoadCount(c) ==
  /\ op[c].pc = "load"
  /\ LET room == MaxEntries <= 0 \/ store.entryCount + 1 <= MaxEntries
     IN  op' = [op EXCEPT ![c] = AtPC(op[c], IF room THEN "insert" ELSE "evict")]
  /\ UNCHANGED <<store, lock, clock, reaper, cancelled, issued>>

(* Part 2: drop a victim of the receiving shard; none if it is empty.      *)
Evict(c) ==
  /\ op[c].pc = "evict"
  /\ op' = [op EXCEPT ![c] = AtPC(op[c], "insert")]
  /\ \/ Resident(store, Sh(c)) = {} /\ store' = store
     \/ \E v \in Victims(store, Sh(c), Now(c)) : store' = Remove(store, v)
  /\ UNCHANGED <<lock, clock, reaper, cancelled, issued>>

Insert(c) ==
  /\ op[c].pc = "insert"
  /\ LET r == Req(c)
         k == Key(c)
     IN  store' = IF r.name = "Set"
                  THEN setEntryLocked(store, k, NewString(r, Now(c)))
                  ELSE Written(setEntryLocked(store, k, newEmptyEntry(KindOf(r.name), Now(c))),
                               k, r, Now(c))
  /\ lock' = [lock EXCEPT ![Sh(c)] = Free]
  /\ op' = [op EXCEPT ![c] = Idle]
  /\ UNCHANGED <<clock, reaper, cancelled, issued>>

-----------------------------------------------------------------------------
(* Writes to existing collections.  A collection that becomes empty goes.  *)

(* Fault: the emptied collection stays. *)
ShrunkKeepsEmpty(st, k, val) ==
  bumpVersionLocked(Mutate(st, k, WithContent(st.data[k], val)), k)

Shrunk(st, k, val) ==
  IF val = Empty THEN Remove(st, k)
  ELSE bumpVersionLocked(Mutate(st, k, WithContent(st.data[k], val)), k)

RemoveElem(c) ==
  /\ Running(c, {"HDel", "SRem", "ZRem"})
  /\ LET st   == Fetched(c)
         e    == st.data[Key(c)]
         kind == [HDel |-> "hash", SRem |-> "set", ZRem |-> "zset"][Req(c).name]
     IN  Finish(c, IF e.kind = kind /\ Req(c).elem \in DOMAIN e.val
                   THEN Shrunk(st, Key(c), MapDel(e.val, Req(c).elem))
                   ELSE st)

Pop(c) ==
  /\ Running(c, {"LPop", "RPop"})
  /\ LET st == Fetched(c)
         e  == st.data[Key(c)]
     IN  Finish(c, IF e.kind = "list" /\ e.val # Empty
                   THEN Shrunk(st, Key(c), IF Req(c).name = "LPop" THEN LPop(e.val) ELSE RPop(e.val))
                   ELSE st)

LRemove(c) ==
  /\ Running(c, {"LRem"})
  /\ LET st == Fetched(c)
         e  == st.data[Key(c)]
         r  == LRem(e.val, Req(c).num, Req(c).val)
     IN  Finish(c, IF e.kind = "list" /\ r.removed > 0
                   THEN Shrunk(st, Key(c), r.out)
                   ELSE st)

LSetAt(c) ==
  /\ Running(c, {"LSet"})
  /\ LET st == Fetched(c)
         e  == st.data[Key(c)]
     IN  Finish(c, IF e.kind = "list" /\ InRange(e.val, Req(c).num)
                   THEN bumpVersionLocked(
                          Mutate(st, Key(c), WithContent(e, LSet(e.val, Req(c).num, Req(c).val))), Key(c))
                   ELSE st)

-----------------------------------------------------------------------------
(* The reaper, the clock and Close.                                        *)

ReaperTick ==
  /\ reaper.pc = "wait"
  /\ reaper' = [pc |-> "sweep", i |-> 0]
  /\ UNCHANGED <<store, lock, op, clock, cancelled, issued>>

(* Faults: the reaper's loop runs one shard too far, or stops one early.  *)
SweepsPastLast(i) == IF i = NumShards THEN [pc |-> "wait", i |-> 0]
                     ELSE [pc |-> "sweep", i |-> i + 1]
SkipsLastShard(i) == IF i + 1 >= NumShards - 1 THEN [pc |-> "wait", i |-> 0]
                     ELSE [pc |-> "sweep", i |-> i + 1]

(* After shard i the sweep goes on to the next one, or ends. *)
AfterSweep(i) == IF i = NumShards - 1 THEN [pc |-> "wait", i |-> 0]
                 ELSE [pc |-> "sweep", i |-> i + 1]

(* SweepShard reads the clock inside the lock, so its `now' is never stale.*)
SweepShard ==
  /\ reaper.pc = "sweep"
  /\ lock[reaper.i] = Free
  /\ \E T \in Samples({k \in store.ttlKeys : ShardOf(k) = reaper.i}, SweepSampleSize) :
       store' = RemoveAll(store, {k \in T : Present(store, k) /\ expired(store.data[k], clock)})
  /\ reaper' = AfterSweep(reaper.i)
  /\ UNCHANGED <<lock, op, clock, cancelled, issued>>

(* ctx.Done() is only looked at between ticks. *)
ReaperStop ==
  /\ reaper.pc = "wait"
  /\ cancelled
  /\ reaper' = [pc |-> "stopped", i |-> 0]
  /\ UNCHANGED <<store, lock, op, clock, cancelled, issued>>

Close ==
  /\ "Close" \in Commands
  /\ ~cancelled
  /\ cancelled' = TRUE
  /\ UNCHANGED <<store, lock, op, clock, reaper, issued>>

Tick ==
  /\ clock < MaxTime
  /\ clock' = clock + 1
  /\ UNCHANGED <<store, lock, op, reaper, cancelled, issued>>

-----------------------------------------------------------------------------
(* What a client does once it has begun a call. *)
Proceed(c) ==
  \/ Get(c) \/ HGet(c) \/ TTL(c) \/ HashRead(c) \/ ListRead(c) \/ SetRead(c) \/ ZSetRead(c)
  \/ Exists(c) \/ Type(c) \/ CollectKeys(c) \/ ReturnKeys(c)
  \/ Del(c) \/ Expire(c) \/ Persist(c) \/ FlushDB(c)
  \/ RenameWithinShard(c) \/ RenameLockFirst(c) \/ RenameAcrossShards(c)
  \/ Create(c) \/ Set(c) \/ LoadCount(c) \/ Evict(c) \/ Insert(c)
  \/ RemoveElem(c) \/ Pop(c) \/ LRemove(c) \/ LSetAt(c)

Next ==
  \/ \E c \in Clients : Begin(c) \/ Proceed(c)
  \/ ReaperTick \/ SweepShard \/ ReaperStop \/ Close \/ Tick

Spec == Init /\ [][Next]_vars

(* Goroutines are scheduled and a mutex is handed over once it is free, so *)
(* a call that can go on does; the ticker keeps firing and the reaper      *)
(* keeps sweeping; time passes.  Two random choices need more: select      *)
(* picks at random among its ready cases, so ctx.Done(), once ready at     *)
(* every tick, is not passed over for ever; and a sweep examines keys in   *)
(* Go's random map order, so a key it could remove is not left out of      *)
(* every sample.                                                           *)
FairSpec ==
  /\ Spec
  /\ \A c \in Clients : WF_vars(Proceed(c))
  /\ WF_vars(ReaperTick) /\ WF_vars(SweepShard) /\ SF_vars(ReaperStop)
  /\ \A k \in Keys : SF_vars(SweepShard /\ k \in store.ttlKeys \ store'.ttlKeys)
  /\ WF_vars(Tick)

-----------------------------------------------------------------------------
(* Properties.                                                             *)

EntryOK(e) ==
  /\ e.kind \in Kinds \cup {"none"}
  /\ e.expiresAt \in Nat \cup {NoTTL}
  /\ e.lastAccess \in Nat
  /\ e.accessCount \in Nat

ReqType ==
  [name : Methods \cup {"none"}, ws : Workspaces \cup {"none"}, keys : Seq(Keys), elem : Int,
   val : Int, num : Int, mode : {"none", "NX", "XX"}, getOld : BOOLEAN]

OpType ==
  [pc : {"idle", "run", "load", "evict", "insert", "second"}, req : ReqType,
   now : Nat, i : Nat \ {0}, acc : SUBSET Keys, snap : [Keys -> Nat] \cup {<<>>}]

(* Types of the engine's state; the contents of entries are ContentsOK's.  *)
TypeOK ==
  /\ \A k \in Keys : EntryOK(store.data[k])
  /\ store.ttlKeys \subseteq Keys
  /\ store.versions \in [Keys -> Nat]
  /\ store.entryCount \in Int
  /\ lock \in [Shards -> Clients \cup {Free}]
  /\ op \in [Clients -> OpType]
  /\ \A c \in Clients : op[c].now <= clock
  /\ clock \in Nat
  /\ reaper \in [pc : {"wait", "sweep", "stopped"}, i : Shards]
  /\ cancelled \in BOOLEAN
  /\ issued \in 0..MaxOps

(* EntryCount() is exact: the atomic counter that every insert, overwrite, *)
(* delete, expiry, sweep, rename, flush and eviction adjusts on its own    *)
(* equals the number of entries in all shards.                             *)
CountExact == store.entryCount = Cardinality({k \in Keys : Present(store, k)})

(* The TTL index is exact: ttlKeys holds precisely the keys whose entry    *)
(* has an expiry, so the reaper neither misses a key nor samples dead ones.*)
TTLIndexExact ==
  store.ttlKeys = {k \in Keys : Present(store, k) /\ store.data[k].expiresAt # NoTTL}

IsContent(kind, v) ==
  CASE kind = "string" -> Len(v) = 1
    [] kind = "list"   -> v \in Seq(Int) /\ Len(v) > 0
    [] kind = "none"   -> v = Empty
    [] OTHER -> DOMAIN v # {} /\ DOMAIN v \subseteq Elems /\ \A x \in DOMAIN v : v[x] \in Int

(* No command leaves an empty collection behind, or a value of another     *)
(* kind than the entry says: a key whose collection ran empty is gone, so  *)
(* EXISTS and TYPE never show it.                                          *)
ContentsOK == \A k \in Keys : IsContent(store.data[k].kind, store.data[k].val)

Visible(e) == <<e.kind, e.val, e.expiresAt>>

(* The engine implements the contract WATCH relies on: whichever path      *)
(* changes a key - a write, a delete, lazy expiry, a sweep, an eviction, a *)
(* rename from or onto it, a flush - its version moves on, and no version  *)
(* ever goes back, across deletion and recreation too.                     *)
Watch == INSTANCE WatchSpec WITH
  Keys    <- Keys,
  Absent  <- Visible(NoEntry),
  seen    <- [k \in Keys |-> Visible(store.data[k])],
  version <- store.versions

WatchContract == Watch!Spec

(* The precondition of evictIfNeededLocked ("immediately before inserting  *)
(* a genuinely new key"): from the lookup that found the key absent to the *)
(* insertion, through the eviction check, no other call, rename or sweep   *)
(* brings the key into being.                                              *)
NewKeyStaysAbsent ==
  \A c \in Clients :
    op[c].pc \in {"load", "evict", "insert"} => ~Present(store, Key(c))

(* How far the cap can be exceeded when no key is renamed: clients that    *)
(* load entryCount at the same time, and inserts into empty shards, add at *)
(* most one entry for every shard but one.                                 *)
CapBound == MaxEntries > 0 => store.entryCount <= MaxEntries + NumShards - 1

(* Eviction prefers what is worth less: when the sample covers the shard,  *)
(* the victim is never an entry that was accessed more recently than a     *)
(* resident entry accessed no more often - whichever policy is configured, *)
(* and although `now' may be older than some accesses.                     *)
VictimNotBetter ==
  [][\A c \in Clients : op[c].pc = "evict" =>
       \A v, u \in Resident(store, Sh(c)) :
         LET x == store.data[v]
             y == store.data[u]
         IN  /\ op'[c].pc = "insert"
             /\ ~Present(store', v)
             /\ x.lastAccess <= Now(c)
             => ~(y.lastAccess < x.lastAccess /\ y.accessCount <= x.accessCount)]_store

(* A listing under way misses no key it should have seen: a key of the     *)
(* workspace in a shard already visited that is live, and that nobody      *)
(* modified since the call began, is in the result.                        *)
KeysComplete ==
  \A c \in Clients :
    op[c].pc = "run" /\ Req(c).name \in {"Keys", "Scan"} =>
      \A k \in Keys :
        /\ ShardOf(k) < op[c].i - 1
        /\ k[1] = Req(c).ws
        /\ Live(store, k, Now(c))
        /\ store.versions[k] = op[c].snap[k]
        => k \in op[c].acc

Lingers(k) == Present(store, k) /\ expired(store.data[k], clock)

(* Active expiry: an expired key nobody reads does not linger for ever,    *)
(* the reaper sweeps it (or somebody replaces it), unless the engine is    *)
(* closed, which stops the reaper.                                         *)
ExpiredKeysGo == \A k \in Keys : Lingers(k) ~> ~Lingers(k) \/ cancelled

(* Every engine call returns: no two renames in opposite directions, and   *)
(* no rename and insert, wait for each other's shard for ever; and so does *)
(* Close, which waits for the reaper, even in the middle of a sweep whose  *)
(* shards are in use.                                                      *)
CallsReturn ==
  /\ \A c \in Clients : op[c].pc # "idle" ~> op[c].pc = "idle"
  /\ cancelled ~> reaper.pc = "stopped"
=============================================================================
