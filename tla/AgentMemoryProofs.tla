--------------------------- MODULE AgentMemoryProofs ---------------------------
(***************************************************************************)
(* Proofs about the agents' memory, for any number of clients, workspaces, *)
(* ids, texts and calls, any cap on the history and any clock.  At the     *)
(* end, the vector store in which agents look their memories up, for any   *)
(* vectors whose lengths and distances are integers.                       *)
(***************************************************************************)
EXTENDS AgentMemory, Vector, Induction, FiniteSetTheorems, SequenceTheorems, TLAPS

IndexEntries == [content : Contents, agent : Agents, kind : Kinds]

TypeInv ==
  /\ records \in [Slots -> Memories \cup {None}]
  /\ history \in [Slots -> Seq(Memories)]
  /\ index \in [Slots -> IndexEntries \cup {None}]
  /\ op = [c \in Clients |-> op[c]]
  /\ clock \in Nat

(* A request that has all a memory needs. *)
Storable(r) ==
  /\ r.ws \in Workspaces /\ r.agent \in Agents /\ r.kind \in Kinds /\ r.content \in Contents
  /\ r.ttl \in Nat

(* What a call has when it is suspended. *)
CallOK(o) ==
  /\ o.pc = "idle" => o.req.name = "none" /\ o.req.id = 0
  /\ o.pc = "complete" => /\ o.req.name = "Consolidate" /\ o.req.id = 0 /\ o.req.ttl = 0
                          /\ o.req.ws \in Workspaces /\ o.req.agent \in Agents
  /\ o.pc = "embed" =>
       /\ o.req.name \in {"Put", "Search", "Consolidate"}
       /\ o.req.name \in {"Put", "Consolidate"} => Storable(o.req) /\ o.req.id \in Ids \cup {0}
       /\ o.req.name \in {"Search", "Consolidate"} => o.req.id = 0
       /\ o.req = [name |-> o.req.name, ws |-> o.req.ws, id |-> o.req.id, agent |-> o.req.agent,
                   kind |-> o.req.kind, content |-> o.req.content, ttl |-> o.req.ttl,
                   k |-> o.req.k, threshold |-> o.req.threshold]
  /\ o.pc = "store" =>
       /\ o.req.name \in {"Put", "Consolidate"}
       /\ Storable(o.req) /\ o.req.id \in Ids /\ o.now \in Nat
  /\ o.pc \in {"filter", "reply"} => o.req.name = "Search" /\ o.req.id = 0
  /\ o.pc \in {"idle", "embed", "store", "filter", "reply", "complete"}

(* The id generated for a summary is nobody else's: nothing is stored      *)
(* under it, and no other call in the workspace is about it.               *)
IdFresh(c) ==
  op[c].pc = "store" /\ Req(c).name = "Consolidate" =>
    /\ Req(c).id \in GeneratedIds /\ records[<<Req(c).ws, Req(c).id>>] = None
    /\ \A d \in Clients \ {c} : Req(d).ws = Req(c).ws => Req(d).id # Req(c).id

Inv ==
  /\ TypeInv
  /\ \A c \in Clients : CallOK(op[c])
  /\ \A c \in Clients : IdFresh(c)
  /\ RecordsInStep

-----------------------------------------------------------------------------
(* The versions of one slot. *)

(* h holds the versions before r, as many as the cap allows. *)
Before(h, r) ==
  LET n == Len(h)
  IN  /\ n = IF r.version - 1 > HistoryCap THEN HistoryCap ELSE r.version - 1
      /\ \A i \in 1..n : h[i].version = r.version - n + i - 1 /\ h[i].createdAt = r.createdAt

SlotOK(r, h, x) ==
  IF r = None THEN x = None /\ Len(h) = 0 ELSE x = Indexed(r) /\ Before(h, r)

LEMMA InStepBySlot ==
  RecordsInStep <=> \A s \in Slots : SlotOK(records[s], history[s], index[s])
BY DEF RecordsInStep, SlotOK, Before

LEMMA NewestType ==
  ASSUME NEW h \in Seq(Memories)
  PROVE  /\ NewestOf(h) \in Seq(Memories)
         /\ Len(NewestOf(h)) = IF Len(h) > HistoryCap THEN HistoryCap ELSE Len(h)
         /\ \A i \in 1..Len(NewestOf(h)) : NewestOf(h)[i] = h[Len(h) - Len(NewestOf(h)) + i]
<1>1. CASE Len(h) > HistoryCap
  <2> DEFINE m == Len(h) - HistoryCap + 1
  <2>1. m \in Int /\ Len(h) \in Int /\ m >= 1 /\ m <= Len(h) /\ Len(h) - m + 1 = HistoryCap
    BY <1>1, MemoryAssumption
  <2>2. \A i \in m..Len(h) : h[i] \in Memories
    BY <2>1
  <2>3. /\ SubSeq(h, m, Len(h)) \in Seq(Memories)
        /\ Len(SubSeq(h, m, Len(h))) = HistoryCap
        /\ \A i \in 1..HistoryCap : SubSeq(h, m, Len(h))[i] = h[m + i - 1]
    <3> HIDE DEF m
    <3> QED
      BY <2>1, <2>2, SubSeqProperties
  <2>4. NewestOf(h) = SubSeq(h, m, Len(h))
    BY <1>1 DEF NewestOf
  <2> QED
    BY <1>1, <2>1, <2>3, <2>4, MemoryAssumption
<1>2. CASE ~(Len(h) > HistoryCap)
  <2>1. NewestOf(h) = h
    BY <1>2 DEF NewestOf
  <2> QED
    BY <1>2, <2>1
<1> QED
  BY <1>1, <1>2

(* recordHistoryLocked before the next version goes in. *)
LEMMA NextVersion ==
  ASSUME NEW r \in Memories, NEW h \in Seq(Memories), Before(h, r),
         NEW q \in Memories, q.version = r.version + 1, q.createdAt = r.createdAt
  PROVE  Before(NewestOf(Append(h, r)), q)
<1> DEFINE g == Append(h, r)
           n == Len(h)
<1>1. g \in Seq(Memories) /\ Len(g) = n + 1 /\ n \in Nat
  OBVIOUS
<1>2. \A i \in 1..n : g[i] = h[i]
  OBVIOUS
<1>3. g[n + 1] = r
  OBVIOUS
<1>4. r.version \in Nat \ {0}
  BY DEF Memories
<1>0. /\ n = IF r.version - 1 > HistoryCap THEN HistoryCap ELSE r.version - 1
      /\ \A i \in 1..n : h[i].version = r.version - n + i - 1 /\ h[i].createdAt = r.createdAt
  BY DEF Before
<1> HIDE DEF g, n
<1>5. ASSUME NEW i \in 1..(n + 1)
      PROVE  g[i].version = r.version - n + i - 1 /\ g[i].createdAt = r.createdAt
  <2>1. CASE i = n + 1
    BY <1>1, <1>3, <1>4, <2>1
  <2>2. CASE i # n + 1
    <3>1. i \in 1..n
      BY <1>1, <2>2
    <3> QED
      BY <1>2, <1>0, <3>1
  <2> QED
    BY <2>1, <2>2
<1> DEFINE m == NewestOf(g)
<1>6. /\ Len(m) = IF n + 1 > HistoryCap THEN HistoryCap ELSE n + 1
      /\ \A i \in 1..Len(m) : m[i] = g[n + 1 - Len(m) + i]
  <2>1. /\ Len(m) = IF Len(g) > HistoryCap THEN HistoryCap ELSE Len(g)
        /\ \A i \in 1..Len(m) : m[i] = g[Len(g) - Len(m) + i]
    BY <1>1, NewestType
  <2> HIDE DEF m
  <2> QED
    BY <1>1, <2>1, SMTT(30)
<1> HIDE DEF m
<1>7. Len(m) \in Nat /\ Len(m) <= n + 1
  BY <1>1, <1>6, MemoryAssumption
<1>8. Len(m) = IF q.version - 1 > HistoryCap THEN HistoryCap ELSE q.version - 1
  BY <1>4, <1>6, <1>0, MemoryAssumption
<1>9. ASSUME NEW i \in 1..Len(m)
      PROVE  m[i].version = q.version - Len(m) + i - 1 /\ m[i].createdAt = q.createdAt
  <2> DEFINE j == n + 1 - Len(m) + i
  <2>1. j \in 1..(n + 1) /\ i \in Int
    BY <1>1, <1>7
  <2>2. m[i] = g[j]
    BY <1>6
  <2>3. g[j].version = r.version - n + j - 1 /\ g[j].createdAt = r.createdAt
    BY <1>5, <2>1
  <2>4. r.version - n + j - 1 = q.version - Len(m) + i - 1
    BY <1>1, <1>4, <1>7, q.version = r.version + 1
  <2> QED
    BY <2>2, <2>3, <2>4
<1> QED
  BY <1>8, <1>9 DEF Before, m, g

-----------------------------------------------------------------------------
(* Steps of one call. *)

Pending(d) == op[d].pc = "store" /\ Req(d).name = "Consolidate"

CallsOK == op = [c \in Clients |-> op[c]] /\ \A c \in Clients : CallOK(op[c]) /\ IdFresh(c)

(* Client c goes from op[c] to o. *)
LEMMA CallStep ==
  ASSUME CallsOK, NEW c \in Clients, NEW o, op' = [op EXCEPT ![c] = o], CallOK(o),
         \A d \in Clients \ {c} : Pending(d) =>
           /\ records'[<<Req(d).ws, Req(d).id>>] = None
           /\ o.req.ws = Req(d).ws => o.req.id # Req(d).id,
         o.pc = "store" /\ o.req.name = "Consolidate" =>
           /\ o.req.id \in GeneratedIds /\ records'[<<o.req.ws, o.req.id>>] = None
           /\ \A d \in Clients \ {c} : Req(d).ws = o.req.ws => Req(d).id # o.req.id
  PROVE  CallsOK'
<1>1. op'[c] = o /\ \A d \in Clients \ {c} : op'[d] = op[d]
  BY DEF CallsOK
<1>2. op' = [d \in Clients |-> op'[d]]
  BY DEF CallsOK
<1>3. ASSUME NEW d \in Clients PROVE CallOK(op'[d])
  BY <1>1 DEF CallsOK
<1>4. ASSUME NEW d \in Clients PROVE IdFresh(d)'
  <2>1. CASE d = c
    BY <1>1, <2>1 DEF IdFresh, Req
  <2>2. CASE d # c
    <3> SUFFICES ASSUME Pending(d)'
                 PROVE  /\ Req(d)'.id \in GeneratedIds /\ records'[<<Req(d)'.ws, Req(d)'.id>>] = None
                        /\ \A e \in Clients \ {d} : Req(e)'.ws = Req(d)'.ws => Req(e)'.id # Req(d)'.id
      BY DEF Pending, IdFresh
    <3>1. Pending(d) /\ Req(d)' = Req(d) /\ IdFresh(d)
      BY <1>1, <2>2 DEF Pending, Req, CallsOK
    <3>2. Req(d).id \in GeneratedIds
      BY <3>1 DEF IdFresh, Pending
    <3>3. \A e \in Clients \ {d} : Req(e)'.ws = Req(d).ws => Req(e)'.id # Req(d).id
      <4> TAKE e \in Clients \ {d}
      <4>1. CASE e = c
        BY <1>1, <2>2, <3>1, <4>1 DEF Req
      <4>2. CASE e # c
        BY <1>1, <3>1, <4>2 DEF Req, IdFresh, Pending
      <4> QED
        BY <4>1, <4>2
    <3> QED
      BY <2>2, <3>1, <3>2, <3>3
  <2> QED
    BY <2>1, <2>2
<1> QED
  BY <1>2, <1>3, <1>4 DEF CallsOK

(* The same, for a call that is about no id and stores nothing. *)
LEMMA QuietStep ==
  ASSUME CallsOK, NEW c \in Clients, NEW o, op' = [op EXCEPT ![c] = o], CallOK(o),
         o.pc # "store", o.req.id = 0,
         \A s \in Slots : records[s] = None => records'[s] = None
  PROVE  CallsOK'
<1>1. ASSUME NEW d \in Clients, Pending(d)
      PROVE  records'[<<Req(d).ws, Req(d).id>>] = None /\ o.req.id # Req(d).id
  <2>1. Req(d).ws \in Workspaces /\ Req(d).id \in Ids /\ records[<<Req(d).ws, Req(d).id>>] = None
    BY <1>1 DEF CallsOK, CallOK, Storable, Pending, IdFresh, Req
  <2>2. <<Req(d).ws, Req(d).id>> \in Slots /\ Req(d).id # 0
    BY <2>1, MemoryAssumption DEF Slots
  <2> QED
    BY <2>1, <2>2
<1> QED
  BY <1>1, CallStep

(* The store's own variables. *)
StoreOK ==
  /\ records \in [Slots -> Memories \cup {None}]
  /\ history \in [Slots -> Seq(Memories)]
  /\ index \in [Slots -> IndexEntries \cup {None}]
  /\ RecordsInStep

LEMMA InvSplit == Inv <=> CallsOK /\ StoreOK /\ clock \in Nat
BY DEF Inv, TypeInv, CallsOK, StoreOK

LEMMA StoreSame ==
  ASSUME StoreOK, UNCHANGED <<records, history, index>>
  PROVE  StoreOK' /\ \A s \in Slots : records[s] = None => records'[s] = None
BY DEF StoreOK, RecordsInStep

LEMMA DropStep ==
  ASSUME StoreOK, NEW S, Drop(S)
  PROVE  /\ StoreOK'
         /\ \A s \in Slots : records[s] = None => records'[s] = None
         /\ \A s \in Slots \ S : records'[s] = records[s]
<1>1. /\ records' \in [Slots -> Memories \cup {None}]
      /\ history' \in [Slots -> Seq(Memories)]
      /\ index' \in [Slots -> IndexEntries \cup {None}]
  <2>1. <<>> \in Seq(Memories)
    OBVIOUS
  <2> QED
    BY <2>1 DEF StoreOK, Drop
<1>2. ASSUME NEW s \in Slots PROVE SlotOK(records'[s], history'[s], index'[s])
  <2>1. CASE s \in S
    <3>1. records'[s] = None /\ history'[s] = <<>> /\ index'[s] = None
      BY <2>1 DEF Drop
    <3> QED
      BY <3>1 DEF SlotOK
  <2>2. CASE s \notin S
    <3>1. records'[s] = records[s] /\ history'[s] = history[s] /\ index'[s] = index[s]
      BY <2>2 DEF Drop
    <3>2. SlotOK(records[s], history[s], index[s])
      BY InStepBySlot DEF StoreOK
    <3> QED
      BY <3>1, <3>2
  <2> QED
    BY <2>1, <2>2
<1>3. RecordsInStep'
  BY <1>2 DEF RecordsInStep, SlotOK, Before
<1> QED
  BY <1>1, <1>3 DEF StoreOK, Drop

(* PutStore: what it stores, and that the slot stays in step. *)
LEMMA PutFacts ==
  ASSUME CallsOK, StoreOK, NEW c \in Clients, op[c].pc = "store"
  PROVE  LET s == <<Req(c).ws, Req(c).id>>
             rec == NewVersion(s, Req(c), op[c].now)
         IN  /\ s \in Slots /\ rec \in Memories /\ Indexed(rec) \in IndexEntries
             /\ records[s] # None =>
                  /\ records[s] \in Memories
                  /\ rec.version = records[s].version + 1 /\ rec.createdAt = records[s].createdAt
             /\ records[s] = None => rec.version = 1
<1> DEFINE s == <<Req(c).ws, Req(c).id>>
           rec == NewVersion(s, Req(c), op[c].now)
<1>1. Storable(Req(c)) /\ Req(c).id \in Ids /\ op[c].now \in Nat
  BY DEF CallsOK, CallOK, Req
<1>2. s \in Slots
  BY <1>1 DEF Slots, Storable
<1>3. records[s] # None => records[s] \in Memories
  BY <1>2 DEF StoreOK
<1> DEFINE created == IF records[s] = None THEN op[c].now ELSE records[s].createdAt
           version == IF records[s] = None THEN 1 ELSE records[s].version + 1
           expires == IF Req(c).ttl > 0 THEN op[c].now + Req(c).ttl ELSE NoTTL
<1>4. created \in Nat /\ version \in Nat \ {0} /\ expires \in Nat \cup {NoTTL}
  <2>1. created \in Nat /\ version \in Nat \ {0}
    BY <1>1, <1>3 DEF Memories
  <2>2. expires \in Nat \cup {NoTTL}
    BY <1>1 DEF Storable
  <2> QED
    BY <2>1, <2>2
<1>5. rec = [agent |-> Req(c).agent, kind |-> Req(c).kind, content |-> Req(c).content,
             createdAt |-> created, version |-> version, expiresAt |-> expires]
  BY DEF NewVersion
<1> HIDE DEF created, version, expires, rec
<1>6. rec \in Memories
  BY <1>1, <1>4, <1>5 DEF Memories, Storable
<1>7. Indexed(rec) \in IndexEntries
  BY <1>6 DEF Indexed, IndexEntries, Memories
<1>8. rec.version = version /\ rec.createdAt = created
  BY <1>5
<1> QED
  BY <1>2, <1>3, <1>6, <1>7, <1>8 DEF created, version, rec

LEMMA PutStep ==
  ASSUME CallsOK, StoreOK, NEW c \in Clients, PutStore(c)
  PROVE  /\ StoreOK'
         /\ records'[<<Req(c).ws, Req(c).id>>].version = 1
            \/ /\ records[<<Req(c).ws, Req(c).id>>] # None
               /\ records'[<<Req(c).ws, Req(c).id>>].version =
                    records[<<Req(c).ws, Req(c).id>>].version + 1
         /\ records'[<<Req(c).ws, Req(c).id>>] # None
         /\ \A s \in Slots \ {<<Req(c).ws, Req(c).id>>} : records'[s] = records[s]
<1> DEFINE s == <<Req(c).ws, Req(c).id>>
           rec == NewVersion(s, Req(c), op[c].now)
           old == records[s]
           h == history[s]
           g == IF old = None THEN h ELSE NewestOf(Append(h, old))
<1>1. /\ s \in Slots /\ rec \in Memories /\ Indexed(rec) \in IndexEntries
      /\ old # None =>
           /\ old \in Memories /\ rec.version = old.version + 1 /\ rec.createdAt = old.createdAt
      /\ old = None => rec.version = 1
  BY PutFacts DEF PutStore
<1>2. /\ records' = [records EXCEPT ![s] = rec] /\ index' = [index EXCEPT ![s] = Indexed(rec)]
      /\ history' = [history EXCEPT ![s] = g]
  BY DEF PutStore, recordHistoryLocked
<1>3. rec # None
  BY <1>1, MemoryAssumption
<1>4. h \in Seq(Memories) /\ SlotOK(old, h, index[s])
  BY <1>1, InStepBySlot DEF StoreOK
<1> HIDE DEF rec, old, h, s
<1>5. g \in Seq(Memories) /\ Before(g, rec)
  <2>1. CASE old = None
    <3>1. g = h /\ Len(h) = 0 /\ rec.version = 1
      BY <1>1, <1>4, <2>1 DEF SlotOK
    <3>2. 1..Len(h) = {}
      BY <3>1
    <3>3. Len(h) = IF rec.version - 1 > HistoryCap THEN HistoryCap ELSE rec.version - 1
      BY <3>1, MemoryAssumption
    <3> QED
      BY <1>4, <3>1, <3>2, <3>3 DEF Before
  <2>2. CASE old # None
    <3>1. g = NewestOf(Append(h, old)) /\ Append(h, old) \in Seq(Memories) /\ Before(h, old)
      BY <1>1, <1>4, <2>2 DEF SlotOK
    <3>2. g \in Seq(Memories)
      BY <3>1, NewestType
    <3>3. Before(g, rec)
      BY <1>1, <1>4, <2>2, <3>1, NextVersion
    <3> QED
      BY <3>2, <3>3
  <2> QED
    BY <2>1, <2>2
<1> HIDE DEF g
<1>6. /\ records' \in [Slots -> Memories \cup {None}]
      /\ history' \in [Slots -> Seq(Memories)]
      /\ index' \in [Slots -> IndexEntries \cup {None}]
  BY <1>1, <1>2, <1>5 DEF StoreOK
<1>7. /\ records'[s] = rec /\ history'[s] = g /\ index'[s] = Indexed(rec)
      /\ \A t \in Slots \ {s} : /\ records'[t] = records[t] /\ history'[t] = history[t]
                                /\ index'[t] = index[t]
  BY <1>1, <1>2 DEF StoreOK
<1>8. ASSUME NEW t \in Slots PROVE SlotOK(records'[t], history'[t], index'[t])
  <2>1. CASE t = s
    BY <1>3, <1>5, <1>7, <2>1 DEF SlotOK
  <2>2. CASE t # s
    <3>1. SlotOK(records[t], history[t], index[t])
      BY InStepBySlot DEF StoreOK
    <3> QED
      BY <1>7, <2>2, <3>1
  <2> QED
    BY <2>1, <2>2
<1>9. StoreOK'
  BY <1>6, <1>8 DEF StoreOK, RecordsInStep, SlotOK, Before
<1> QED
  BY <1>1, <1>3, <1>7, <1>9 DEF s, old

(* Every step of one client. *)
LEMMA InitInv == Init => Inv
<1> SUFFICES ASSUME Init PROVE Inv
  OBVIOUS
<1>1. TypeInv
  <2>1. <<>> \in Seq(Memories)
    OBVIOUS
  <2> QED
    BY <2>1 DEF Init, TypeInv
<1>2. \A c \in Clients : op[c] = Idle
  BY DEF Init
<1>3. \A c \in Clients : CallOK(op[c]) /\ IdFresh(c)
  BY <1>2 DEF Idle, NoReq, CallOK, IdFresh, Req
<1>4. RecordsInStep
  BY DEF Init, RecordsInStep
<1> QED
  BY <1>1, <1>3, <1>4 DEF Inv

LEMMA IdleOK == CallOK(Idle) /\ Idle.pc = "idle" /\ Idle.req.id = 0
BY DEF CallOK, Idle, NoReq

LEMMA BeginInv ==
  ASSUME Inv, NEW c \in Clients, PutBegin(c) \/ Remember(c)
  PROVE  Inv'
<1>1. CallsOK /\ StoreOK /\ clock \in Nat
  BY InvSplit
<1>2. PICK w \in Workspaces, a \in Agents, k \in Kinds, x \in Contents, t \in TTLs :
        \E i \in KnownIds(w) \cup {0} : op' = [op EXCEPT ![c] = PutRequest(w, i, a, k, x, t)]
  BY DEF PutBegin, Remember
<1>3. PICK i \in KnownIds(w) \cup {0} : op' = [op EXCEPT ![c] = PutRequest(w, i, a, k, x, t)]
  BY <1>2
<1> DEFINE o == PutRequest(w, i, a, k, x, t)
<1>4. i \in Ids \cup {0} /\ t \in Nat
  BY MemoryAssumption DEF KnownIds
<1>5. /\ o.pc = "embed" /\ o.req.ws = w /\ o.req.id = i
      /\ o.req = [name |-> "Put", ws |-> w, id |-> i, agent |-> a, kind |-> k,
                  content |-> x, ttl |-> t, k |-> 0, threshold |-> NoThreshold]
  BY DEF PutRequest, Idle, NoReq
<1>6. CallOK(o)
  <2> HIDE DEF o
  <2> QED
    BY <1>4, <1>5 DEF CallOK, Storable
<1>7. ASSUME NEW d \in Clients \ {c}, Pending(d)
      PROVE  /\ records'[<<Req(d).ws, Req(d).id>>] = None
             /\ o.req.ws = Req(d).ws => o.req.id # Req(d).id
  <2>1. Req(d).id \in GeneratedIds /\ records[<<Req(d).ws, Req(d).id>>] = None
    BY <1>1, <1>7 DEF CallsOK, IdFresh, Pending
  <2>2. Req(d).id # 0 /\ records' = records
    BY <2>1, MemoryAssumption DEF PutBegin, Remember
  <2>3. i # 0 /\ w = Req(d).ws => i # Req(d).id
    BY <2>1 DEF KnownIds
  <2> HIDE DEF o
  <2> QED
    BY <1>5, <2>1, <2>2, <2>3
<1>8. CallsOK'
  <2> HIDE DEF o
  <2>1. op' = [op EXCEPT ![c] = o]
    BY <1>3 DEF o
  <2> QED
    BY <1>1, <1>5, <1>6, <1>7, <2>1, CallStep
<1>9. StoreOK' /\ clock' \in Nat
  BY <1>1, StoreSame DEF PutBegin, Remember
<1> QED
  BY <1>8, <1>9 DEF Inv, TypeInv, CallsOK, StoreOK

LEMMA EmbeddedInv ==
  ASSUME Inv, NEW c \in Clients, PutEmbedded(c)
  PROVE  Inv'
<1>1. CallsOK /\ StoreOK /\ clock \in Nat
  BY InvSplit
<1>2. PICK i \in IdsFor(Req(c)) :
        op' = [op EXCEPT ![c] = [Idle EXCEPT !.pc = "store", !.req = [Req(c) EXCEPT !.id = i],
                                             !.now = clock]]
  BY DEF PutEmbedded
<1> DEFINE q == [Req(c) EXCEPT !.id = i]
           o == [Idle EXCEPT !.pc = "store", !.req = q, !.now = clock]
<1>3. /\ Req(c).name \in {"Put", "Consolidate"} /\ Storable(Req(c)) /\ Req(c).id \in Ids \cup {0}
      /\ Req(c).name = "Consolidate" => Req(c).id = 0
      /\ Req(c) = [name |-> Req(c).name, ws |-> Req(c).ws, id |-> Req(c).id, agent |-> Req(c).agent,
                   kind |-> Req(c).kind, content |-> Req(c).content, ttl |-> Req(c).ttl,
                   k |-> Req(c).k, threshold |-> Req(c).threshold]
  BY <1>1 DEF PutEmbedded, CallsOK, CallOK, Req
<1>4. /\ q.name = Req(c).name /\ q.ws = Req(c).ws /\ q.id = i /\ q.agent = Req(c).agent
      /\ q.kind = Req(c).kind /\ q.content = Req(c).content /\ q.ttl = Req(c).ttl
  BY <1>3
<1>5. /\ i \in Ids
      /\ Req(c).id # 0 => i = Req(c).id
      /\ Req(c).id = 0 => /\ i \in GeneratedIds /\ records[<<Req(c).ws, i>>] = None
                          /\ \A d \in Clients : Req(d).id # i
  BY <1>3, MemoryAssumption DEF IdsFor, Req
<1> HIDE DEF q
<1>6. o.pc = "store" /\ o.req = q /\ o.now = clock
  BY DEF Idle
<1>7. op' = [op EXCEPT ![c] = o]
  BY <1>2 DEF q
<1> HIDE DEF o
<1>8. CallOK(o)
  BY <1>1, <1>3, <1>4, <1>5, <1>6 DEF CallOK, Storable
<1>9. ASSUME NEW d \in Clients \ {c}, Pending(d)
      PROVE  /\ records'[<<Req(d).ws, Req(d).id>>] = None
             /\ o.req.ws = Req(d).ws => o.req.id # Req(d).id
  <2>1. /\ records[<<Req(d).ws, Req(d).id>>] = None
        /\ Req(c).ws = Req(d).ws => Req(c).id # Req(d).id
    BY <1>1, <1>9 DEF CallsOK, IdFresh, Pending
  <2>2. records' = records
    BY DEF PutEmbedded
  <2> QED
    BY <1>4, <1>5, <1>6, <2>1, <2>2
<1>10. o.req.name = "Consolidate" =>
         /\ o.req.id \in GeneratedIds /\ records'[<<o.req.ws, o.req.id>>] = None
         /\ \A d \in Clients \ {c} : Req(d).ws = o.req.ws => Req(d).id # o.req.id
  BY <1>3, <1>4, <1>5, <1>6 DEF PutEmbedded
<1>11. CallsOK'
  BY <1>1, <1>7, <1>8, <1>9, <1>10, CallStep
<1>12. StoreOK' /\ clock' \in Nat
  BY <1>1, StoreSame DEF PutEmbedded
<1> QED
  BY <1>11, <1>12 DEF Inv, TypeInv, CallsOK, StoreOK

LEMMA StoreInv ==
  ASSUME Inv, NEW c \in Clients, PutStore(c)
  PROVE  Inv'
<1>1. CallsOK /\ StoreOK /\ clock \in Nat /\ op[c].pc = "store"
  BY InvSplit DEF PutStore
<1>2. StoreOK' /\ \A s \in Slots \ {<<Req(c).ws, Req(c).id>>} : records'[s] = records[s]
  BY <1>1, PutStep
<1>3. ASSUME NEW d \in Clients \ {c}, Pending(d)
      PROVE  records'[<<Req(d).ws, Req(d).id>>] = None /\ Req(d).id # 0
  <2>1. /\ Req(d).ws \in Workspaces /\ Req(d).id \in Ids
        /\ records[<<Req(d).ws, Req(d).id>>] = None
        /\ Req(c).ws = Req(d).ws => Req(c).id # Req(d).id
    BY <1>1, <1>3 DEF CallsOK, CallOK, Storable, IdFresh, Pending, Req
  <2>2. <<Req(d).ws, Req(d).id>> # <<Req(c).ws, Req(c).id>> /\ <<Req(d).ws, Req(d).id>> \in Slots
    BY <2>1 DEF Slots
  <2> QED
    BY <1>2, <2>1, <2>2, MemoryAssumption
<1>4. op' = [op EXCEPT ![c] = Idle] /\ clock' = clock
  BY DEF PutStore
<1>5. CallsOK'
  BY <1>1, <1>3, <1>4, IdleOK, CallStep
<1> QED
  BY <1>1, <1>2, <1>4, <1>5 DEF Inv, TypeInv, CallsOK, StoreOK

LEMMA SearchInv ==
  ASSUME Inv, NEW c \in Clients,
         \/ EmbedFails(c) \/ SearchBegin(c) \/ Recall(c) \/ Rank(c) \/ SearchReturns(c)
         \/ CompletionFails(c)
  PROVE  Inv'
<1>1. CallsOK /\ StoreOK /\ clock \in Nat
  BY InvSplit
<1>2. UNCHANGED <<records, history, index, clock>>
  BY DEF EmbedFails, SearchBegin, Recall, Rank, SearchReturns, CompletionFails
<1>3. StoreOK' /\ \A s \in Slots : records[s] = None => records'[s] = None
  BY <1>1, <1>2, StoreSame
<1>4. ASSUME NEW o, op' = [op EXCEPT ![c] = o], CallOK(o), o.pc # "store", o.req.id = 0
      PROVE  Inv'
  <2>1. CallsOK'
    BY <1>1, <1>3, <1>4, QuietStep
  <2> QED
    BY <1>1, <1>2, <1>3, <2>1 DEF Inv, TypeInv, CallsOK, StoreOK
<1>5. CASE EmbedFails(c) \/ SearchReturns(c) \/ CompletionFails(c)
  BY <1>4, <1>5, IdleOK DEF EmbedFails, SearchReturns, CompletionFails
<1>6. CASE SearchBegin(c) \/ Recall(c)
  <2>1. PICK w \in Workspaces, a \in Agents \cup {None}, kd \in Kinds \cup {None}, k \in Ks, th \in Thresholds :
          op' = [op EXCEPT ![c] = SearchRequest(w, a, kd, k, th)]
    BY <1>6 DEF SearchBegin, Recall
  <2> DEFINE o == SearchRequest(w, a, kd, k, th)
             kk == IF k <= 0 THEN DefaultK ELSE k
  <2>2. /\ o.pc = "embed"
        /\ o.req = [name |-> "Search", ws |-> w, id |-> 0, agent |-> a, kind |-> kd,
                    content |-> None, ttl |-> 0, k |-> kk, threshold |-> th]
    BY DEF SearchRequest, Idle, NoReq
  <2> HIDE DEF o, kk
  <2>3. CallOK(o) /\ o.pc # "store" /\ o.req.id = 0
    BY <2>2 DEF CallOK
  <2> QED
    BY <1>4, <2>1, <2>3 DEF o
<1>7. CASE Rank(c)
  <2> DEFINE raw == VectorSearch(Req(c))
             o == [Idle EXCEPT !.pc = "filter", !.req = Req(c), !.raw = raw]
  <2>1. op' = [op EXCEPT ![c] = o]
    BY <1>7 DEF Rank
  <2>2. Req(c).name = "Search" /\ Req(c).id = 0
    BY <1>1, <1>7 DEF Rank, CallsOK, CallOK, Req
  <2> HIDE DEF raw
  <2>3. o.pc = "filter" /\ o.req = Req(c)
    BY DEF Idle
  <2> HIDE DEF o
  <2>4. CallOK(o)
    BY <2>2, <2>3 DEF CallOK
  <2> QED
    BY <1>4, <2>1, <2>2, <2>3, <2>4
<1> QED
  BY <1>5, <1>6, <1>7

LEMMA FilterInv ==
  ASSUME Inv, NEW c \in Clients, Filter(c)
  PROVE  Inv'
<1>1. CallsOK /\ StoreOK /\ clock \in Nat
  BY InvSplit
<1> DEFINE S == Expired({op[c].raw[i].slot : i \in 1..Len(op[c].raw)})
<1>2. Drop(S) /\ clock' = clock /\ op[c].pc = "filter"
  BY DEF Filter
<1> HIDE DEF S
<1>3. StoreOK' /\ \A s \in Slots : records[s] = None => records'[s] = None
  BY <1>1, <1>2, DropStep
<1>4. PICK out : op' = [op EXCEPT ![c] = [Idle EXCEPT !.pc = "reply", !.req = Req(c), !.out = out]]
  BY DEF Filter
<1> DEFINE o == [Idle EXCEPT !.pc = "reply", !.req = Req(c), !.out = out]
<1>5. o.pc = "reply" /\ o.req = Req(c) /\ Req(c).name = "Search" /\ Req(c).id = 0
  BY <1>1, <1>2 DEF Idle, CallsOK, CallOK, Req
<1>6. op' = [op EXCEPT ![c] = o]
  BY <1>4
<1> HIDE DEF o
<1>7. CallOK(o) /\ o.pc # "store" /\ o.req.id = 0
  BY <1>5 DEF CallOK
<1>8. CallsOK'
  BY <1>1, <1>3, <1>6, <1>7, QuietStep
<1> QED
  BY <1>1, <1>2, <1>3, <1>8 DEF Inv, TypeInv, CallsOK, StoreOK

LEMMA LookupInv ==
  ASSUME Inv, NEW c \in Clients, Lookup(c)
  PROVE  Inv'
<1>1. CallsOK /\ StoreOK /\ clock \in Nat
  BY InvSplit
<1>2. PICK s \in Slots : Drop(Expired({s}))
  BY DEF Lookup
<1>3. StoreOK' /\ \A t \in Slots : records[t] = None => records'[t] = None
  BY <1>1, <1>2, DropStep
<1>4. op' = op /\ clock' = clock /\ op' = [op EXCEPT ![c] = op[c]]
  BY <1>1 DEF Lookup, CallsOK
<1>5. \A d \in Clients : IdFresh(d)'
  <2> SUFFICES ASSUME NEW d \in Clients, Pending(d)
               PROVE  records'[<<Req(d).ws, Req(d).id>>] = None
    BY <1>1, <1>4 DEF IdFresh, Pending, CallsOK, Req
  <2>1. /\ Req(d).ws \in Workspaces /\ Req(d).id \in Ids
        /\ records[<<Req(d).ws, Req(d).id>>] = None
    BY <1>1 DEF CallsOK, CallOK, Storable, IdFresh, Pending, Req
  <2> QED
    BY <1>3, <2>1 DEF Slots
<1>6. CallsOK'
  BY <1>1, <1>4, <1>5 DEF CallsOK
<1> QED
  BY <1>1, <1>3, <1>4, <1>6 DEF Inv, TypeInv, CallsOK, StoreOK

LEMMA ConsolidateInv ==
  ASSUME Inv, NEW c \in Clients, Consolidate(c)
  PROVE  Inv'
<1>1. CallsOK /\ StoreOK /\ clock \in Nat
  BY InvSplit
<1>2. PICK w \in Workspaces, a \in Agents, kd \in Kinds :
        /\ Drop(Expired({s \in Slots : s[1] = w}))
        /\ Summarises(c, [NoReq EXCEPT !.name = "Consolidate", !.ws = w, !.agent = a, !.kind = kd])
  BY DEF Consolidate
<1>3. StoreOK' /\ \A t \in Slots : records[t] = None => records'[t] = None
  BY <1>1, <1>2, DropStep
<1>4. clock' = clock /\ op[c].pc = "idle"
  BY DEF Consolidate, Calls
<1> DEFINE r == [NoReq EXCEPT !.name = "Consolidate", !.ws = w, !.agent = a, !.kind = kd]
<1>5. /\ r.name = "Consolidate" /\ r.id = 0 /\ r.ttl = 0 /\ r.ws = w /\ r.agent = a /\ r.kind = kd
  BY DEF NoReq
<1>6. CASE op' = op
  <2>1. op' = [op EXCEPT ![c] = op[c]] /\ CallOK(op[c]) /\ Req(c).id = 0
    BY <1>1, <1>4, <1>6 DEF CallsOK, CallOK, Req
  <2>2. CallsOK'
    BY <1>1, <1>3, <1>4, <2>1, QuietStep DEF Req
  <2> QED
    BY <1>1, <1>3, <1>4, <2>2 DEF Inv, TypeInv, CallsOK, StoreOK
<1>7. CASE op' # op
  <2> DEFINE src == List(r)
             reps == dedupe(List(r))
             o == [Idle EXCEPT !.pc = "complete", !.req = r, !.sources = src, !.reps = reps]
  <2>1. op' = [op EXCEPT ![c] = o]
    BY <1>2, <1>7 DEF Summarises
  <2> HIDE DEF src, reps, r
  <2>2. o.pc = "complete" /\ o.req = r
    BY DEF Idle
  <2> HIDE DEF o
  <2>3. CallOK(o)
    BY <1>5, <2>2 DEF CallOK
  <2>4. CallsOK'
    BY <1>1, <1>3, <1>5, <2>1, <2>2, <2>3, QuietStep
  <2> QED
    BY <1>1, <1>3, <1>4, <2>4 DEF Inv, TypeInv, CallsOK, StoreOK
<1> QED
  BY <1>6, <1>7

LEMMA SummarisedInv ==
  ASSUME Inv, NEW c \in Clients, Summarised(c)
  PROVE  Inv'
<1>1. CallsOK /\ StoreOK /\ clock \in Nat
  BY InvSplit
<1>2. PICK x \in Contents :
        op' = [op EXCEPT ![c] = [Idle EXCEPT !.pc = "embed",
                 !.req = [NoReq EXCEPT !.name = "Consolidate", !.ws = Req(c).ws, !.agent = Req(c).agent,
                                       !.kind = "long_term", !.content = x]]]
  BY DEF Summarised
<1>3. UNCHANGED <<records, history, index, clock>> /\ op[c].pc = "complete"
  BY DEF Summarised
<1>4. StoreOK' /\ \A s \in Slots : records[s] = None => records'[s] = None
  BY <1>1, <1>3, StoreSame
<1>5. Req(c).ws \in Workspaces /\ Req(c).agent \in Agents
  BY <1>1, <1>3 DEF CallsOK, CallOK, Req
<1> DEFINE o == [Idle EXCEPT !.pc = "embed",
                   !.req = [NoReq EXCEPT !.name = "Consolidate", !.ws = Req(c).ws, !.agent = Req(c).agent,
                                         !.kind = "long_term", !.content = x]]
<1>6. /\ o.pc = "embed"
      /\ o.req = [name |-> "Consolidate", ws |-> Req(c).ws, id |-> 0, agent |-> Req(c).agent,
                  kind |-> "long_term", content |-> x, ttl |-> 0, k |-> 0, threshold |-> NoThreshold]
  BY DEF Idle, NoReq
<1>7. op' = [op EXCEPT ![c] = o]
  BY <1>2
<1> HIDE DEF o
<1>8. CallOK(o)
  BY <1>5, <1>6, MemoryAssumption DEF CallOK, Storable
<1>9. o.req.id = 0 /\ o.pc # "store"
  BY <1>6
<1>10. CallsOK'
  BY <1>1, <1>4, <1>7, <1>8, <1>9, QuietStep
<1> QED
  BY <1>1, <1>3, <1>4, <1>10 DEF Inv, TypeInv, CallsOK, StoreOK

LEMMA UnchangedInv ==
  ASSUME Inv, UNCHANGED <<records, history, index, op>>, clock' \in Nat
  PROVE  Inv'
<1>1. RecordsInStep'
  BY DEF Inv, RecordsInStep
<1>2. ASSUME NEW c \in Clients PROVE CallOK(op'[c]) /\ IdFresh(c)'
  BY DEF Inv, IdFresh, Req
<1> QED
  BY <1>1, <1>2 DEF Inv, TypeInv

LEMMA NextInv ==
  ASSUME Inv, [Next]_vars
  PROVE  Inv'
<1>1. CASE UNCHANGED vars
  BY <1>1, UnchangedInv DEF vars, Inv, TypeInv
<1>2. CASE Tick
  BY <1>2, UnchangedInv DEF Tick, Inv, TypeInv
<1>3. ASSUME NEW c \in Clients,
             \/ PutBegin(c) \/ Remember(c) \/ EmbedFails(c) \/ PutEmbedded(c) \/ PutStore(c)
             \/ Lookup(c)
             \/ SearchBegin(c) \/ Recall(c) \/ Rank(c) \/ Filter(c) \/ SearchReturns(c)
             \/ Consolidate(c) \/ Summarised(c) \/ CompletionFails(c)
      PROVE  Inv'
  BY <1>3, BeginInv, EmbeddedInv, StoreInv, SearchInv, FilterInv, LookupInv, ConsolidateInv,
     SummarisedInv
<1> QED
  BY <1>1, <1>2, <1>3 DEF Next, Silent

(* The inductive invariant of the memory. *)
THEOREM Invariance == Spec => []Inv
<1>1. Init => Inv
  BY InitInv
<1>2. Inv /\ [Next]_vars => Inv'
  BY NextInv
<1> QED
  BY <1>1, <1>2, PTL DEF Spec

(* Records, search index and history agree after every call of Put, Get,   *)
(* History, List, Search and Consolidate, whatever interleaves.            *)
THEOREM RecordsCorrect == Spec => []RecordsInStep
<1>1. Inv => RecordsInStep
  BY DEF Inv
<1> QED
  BY <1>1, Invariance, PTL

-----------------------------------------------------------------------------
(* What a step may not do. *)

LEMMA ExpiredDies ==
  ASSUME NEW S, NEW s \in Slots, Live(s)
  PROVE  s \notin Expired(S)
BY DEF Expired, Live

(* What a step does to the records. *)
LEMMA RecordSteps ==
  ASSUME Inv, [Next]_vars
  PROVE  \/ records' = records
         \/ \E S : Drop(Expired(S)) /\ records' # records
         \/ \E c \in Clients : PutStore(c)
<1>1. CASE UNCHANGED vars \/ Tick
  BY <1>1 DEF vars, Tick
<1>2. ASSUME NEW c \in Clients, Lookup(c) \/ Filter(c) \/ Consolidate(c)
      PROVE  \E S : Drop(Expired(S))
  <2>1. CASE Lookup(c)
    BY <2>1 DEF Lookup
  <2>2. CASE Filter(c)
    BY <2>2 DEF Filter
  <2>3. CASE Consolidate(c)
    BY <2>3 DEF Consolidate
  <2> QED
    BY <1>2, <2>1, <2>2, <2>3
<1>3. ASSUME NEW c \in Clients,
             \/ PutBegin(c) \/ Remember(c) \/ EmbedFails(c) \/ PutEmbedded(c)
             \/ SearchBegin(c) \/ Recall(c) \/ Rank(c) \/ SearchReturns(c)
             \/ Summarised(c) \/ CompletionFails(c)
      PROVE  records' = records
  BY <1>3 DEF PutBegin, Remember, EmbedFails, PutEmbedded, SearchBegin, Recall, Rank,
              SearchReturns, Summarised, CompletionFails
<1> QED
  BY <1>1, <1>2, <1>3 DEF Next, Silent

LEMMA LiveStep ==
  ASSUME Inv, [Next]_vars, NEW s \in Slots, Live(s)
  PROVE  /\ records'[s] # None
         /\ records'[s].version \in {records[s].version, records[s].version + 1}
<1>1. CallsOK /\ StoreOK /\ records[s] # None
  BY InvSplit DEF Live
<1>2. CASE records' = records
  BY <1>1, <1>2
<1>3. ASSUME NEW S, Drop(Expired(S))
      PROVE  records'[s] = records[s]
  BY <1>1, <1>3, DropStep, ExpiredDies
<1>4. ASSUME NEW c \in Clients, PutStore(c)
      PROVE  /\ records'[s] # None
             /\ records'[s].version \in {records[s].version, records[s].version + 1}
  <2>1. CASE s = <<Req(c).ws, Req(c).id>>
    <3>1. records'[s] # None
      BY <1>1, <1>4, <2>1, PutStep
    <3>2. records'[s].version = records[s].version + 1
      <4> DEFINE rec == NewVersion(s, Req(c), op[c].now)
      <4>1. rec.version = records[s].version + 1
        BY <1>1, <1>4, <2>1, PutFacts DEF PutStore
      <4>2. records' = [records EXCEPT ![s] = rec]
        BY <1>4, <2>1 DEF PutStore
      <4> QED
        BY <1>1, <4>1, <4>2 DEF StoreOK
    <3> QED
      BY <3>1, <3>2
  <2>2. CASE s # <<Req(c).ws, Req(c).id>>
    BY <1>1, <1>4, <2>2, PutStep
  <2> QED
    BY <2>1, <2>2
<1> QED
  BY <1>1, <1>2, <1>3, <1>4, RecordSteps

(* No reader and no writer drops a memory that has not expired: a step     *)
(* leaves it, or replaces it by its next version.                          *)
THEOREM LiveKept == Spec => LiveMemoryKept
<1>1. Inv /\ [Next]_vars =>
        [\A s \in Slots :
           Live(s) => records'[s] # None
                      /\ records'[s].version \in {records[s].version, records[s].version + 1}]_vars
  BY LiveStep
<1> QED
  BY <1>1, Invariance, PTL DEF Spec, LiveMemoryKept

LEMMA ConsolidationStep ==
  ASSUME Inv, [Next]_vars, NEW c \in Clients
  PROVE  LeavesMemories(c)
<1>1. CallsOK /\ StoreOK
  BY InvSplit
<1> SUFFICES ASSUME "Consolidate" \in {Req(c).name, op'[c].req.name}, op'[c] # op[c],
                    NEW s \in Slots, Live(s)
             PROVE  records'[s] = records[s]
  BY DEF LeavesMemories
<1>2. CASE records' = records
  BY <1>2
<1>3. ASSUME NEW S, Drop(Expired(S))
      PROVE  records'[s] = records[s]
  BY <1>1, <1>3, DropStep, ExpiredDies
<1>4. ASSUME NEW d \in Clients, PutStore(d)
      PROVE  records'[s] = records[s]
  <2>1. op' = [op EXCEPT ![d] = Idle] /\ op[d].pc = "store"
    BY <1>4 DEF PutStore
  <2>2. d = c /\ op'[c] = Idle
    BY <1>1, <2>1 DEF CallsOK
  <2>3. Req(c).name = "Consolidate"
    BY <2>2 DEF Idle, NoReq
  <2>4. records[<<Req(c).ws, Req(c).id>>] = None
    BY <1>1, <2>1, <2>2, <2>3 DEF CallsOK, IdFresh
  <2>5. s # <<Req(c).ws, Req(c).id>>
    BY <2>4 DEF Live
  <2> QED
    BY <1>1, <1>4, <2>2, <2>5, PutStep
<1> QED
  BY <1>2, <1>3, <1>4, RecordSteps

(* Consolidation changes no live memory, with none of its steps: the id    *)
(* under which its summary is stored is nobody's, up to the moment it is   *)
(* stored, although it was chosen earlier and without a lock.              *)
THEOREM SummariesHarmless == Spec => [][\A c \in Clients : LeavesMemories(c)]_vars
<1>1. Inv /\ [Next]_vars => [\A c \in Clients : LeavesMemories(c)]_vars
  BY ConsolidationStep
<1> QED
  BY <1>1, Invariance, PTL DEF Spec

-----------------------------------------------------------------------------
(* Lineages. *)

(* Cutting the history off at its cap before the next version goes in      *)
(* cuts the lineage off after.                                             *)
LEMMA KeptAppend ==
  ASSUME NEW l \in Seq(Memories), NEW q \in Memories
  PROVE  Append(NewestOf(l), q) = Lineages!Kept(Append(l, q))
<1> DEFINE x == Append(l, q)
           n == Len(l)
<1>1. x \in Seq(Memories) /\ Len(x) = n + 1 /\ n \in Nat /\ HistoryCap \in Nat \ {0}
  BY MemoryAssumption
<1>2. (\A i \in 1..n : x[i] = l[i]) /\ x[n + 1] = q
  OBVIOUS
<1>3. CASE n > HistoryCap
  <2> DEFINE a == SubSeq(l, n - HistoryCap + 1, n)
             b == SubSeq(x, n + 1 - HistoryCap, n + 1)
             c == Append(a, q)
  <2>1. /\ a \in Seq(Memories) /\ Len(a) = HistoryCap
        /\ \A i \in 1..HistoryCap : a[i] = l[n - HistoryCap + 1 + i - 1]
    <3> DEFINE m == n - HistoryCap + 1
    <3>1. m \in Int /\ n \in Int /\ m >= 1 /\ m <= n /\ n - m + 1 = HistoryCap
      BY <1>1, <1>3
    <3>2. \A i \in m..n : l[i] \in Memories
      BY <3>1
    <3> HIDE DEF m
    <3>3. /\ SubSeq(l, m, n) \in Seq(Memories) /\ Len(SubSeq(l, m, n)) = HistoryCap
          /\ \A i \in 1..HistoryCap : SubSeq(l, m, n)[i] = l[m + i - 1]
      BY <3>1, <3>2, SubSeqProperties
    <3> QED
      BY <3>3 DEF m
  <2>2. /\ b \in Seq(Memories) /\ Len(b) = HistoryCap + 1
        /\ \A i \in 1..HistoryCap + 1 : b[i] = x[n + 1 - HistoryCap + i - 1]
    <3> DEFINE m == n + 1 - HistoryCap
               e == n + 1
    <3> HIDE DEF x, n
    <3>1. m \in Int /\ e \in Int /\ m >= 1 /\ m <= e /\ e - m + 1 = HistoryCap + 1 /\ e = Len(x)
      BY <1>1, <1>3
    <3>2. \A i \in m..e : x[i] \in Memories
      BY <1>1, <3>1
    <3> HIDE DEF m, e
    <3>3. /\ SubSeq(x, m, e) \in Seq(Memories) /\ Len(SubSeq(x, m, e)) = HistoryCap + 1
          /\ \A i \in 1..HistoryCap + 1 : SubSeq(x, m, e)[i] = x[m + i - 1]
      BY <3>1, <3>2, SubSeqProperties
    <3> QED
      BY <3>3 DEF m, e
  <2>3. /\ c \in Seq(Memories) /\ Len(c) = HistoryCap + 1
        /\ (\A i \in 1..HistoryCap : c[i] = a[i]) /\ c[HistoryCap + 1] = q
    <3> HIDE DEF a
    <3> QED
      BY <1>1, <2>1
  <2>4. NewestOf(l) = a
    BY <1>3 DEF NewestOf
  <2>5. Lineages!Kept(x) = b
    <3>1. Len(x) > HistoryCap + 1 /\ Len(x) - HistoryCap = n + 1 - HistoryCap
      <4> HIDE DEF x, n
      <4> QED
        BY <1>1, <1>3
    <3> HIDE DEF x, n
    <3> QED
      BY <1>1, <3>1 DEF Lineages!Kept
  <2>6. ASSUME NEW i \in 1..HistoryCap + 1 PROVE c[i] = b[i]
    <3> HIDE DEF a, b, c, x, n
    <3>1. b[i] = x[n + 1 - HistoryCap + i - 1] /\ i \in Int
      BY <2>2
    <3>2. CASE i = HistoryCap + 1
      <4>1. n + 1 - HistoryCap + i - 1 = n + 1
        BY <1>1, <3>2
      <4> QED
        BY <1>2, <2>3, <3>1, <3>2, <4>1
    <3>3. CASE i # HistoryCap + 1
      <4>1. i \in 1..HistoryCap /\ n - HistoryCap + i \in 1..n
        BY <1>1, <1>3, <3>3
      <4>2. n + 1 - HistoryCap + i - 1 = n - HistoryCap + i /\ n - HistoryCap + 1 + i - 1 = n - HistoryCap + i
        BY <1>1, <4>1
      <4>3. c[i] = l[n - HistoryCap + i]
        BY <2>1, <2>3, <4>1, <4>2
      <4> QED
        BY <1>2, <3>1, <4>1, <4>2, <4>3
    <3> QED
      BY <3>2, <3>3
  <2>7. c = b
    <3> HIDE DEF a, b, c
    <3> QED
      BY <2>2, <2>3, <2>6
  <2> QED
    BY <2>4, <2>5, <2>7
<1>4. CASE ~(n > HistoryCap)
  <2>1. NewestOf(l) = l
    BY <1>4 DEF NewestOf
  <2>2. ~(Len(x) > HistoryCap + 1)
    <3> HIDE DEF x, n
    <3> QED
      BY <1>1, <1>4
  <2>3. Lineages!Kept(x) = x
    <3> HIDE DEF x
    <3> QED
      BY <2>2 DEF Lineages!Kept
  <2> QED
    BY <2>1, <2>3
<1> QED
  BY <1>3, <1>4

LEMMA CurrentVersion ==
  ASSUME NEW h \in Seq(Memories), NEW r \in Memories
  PROVE  Append(h, r) # <<>> /\ Lineages!Current(Append(h, r)) = r
BY DEF Lineages!Current

(* Put continues a lineage. *)
LEMMA PutContinues ==
  ASSUME CallsOK, StoreOK, NEW c \in Clients, PutStore(c),
         NEW s, s = <<Req(c).ws, Req(c).id>>
  PROVE  Lineages!Put(s) /\ s \in Slots
<1> DEFINE rec == NewVersion(s, Req(c), op[c].now)
           old == records[s]
           h == history[s]
           g == IF old = None THEN h ELSE NewestOf(Append(h, old))
           l == [t \in Slots |-> Lineage(t)]
<1>1. /\ s \in Slots /\ rec \in Memories
      /\ old # None =>
           /\ old \in Memories /\ rec.version = old.version + 1 /\ rec.createdAt = old.createdAt
      /\ old = None => rec.version = 1
  BY PutFacts DEF PutStore
<1>2. records' = [records EXCEPT ![s] = rec] /\ history' = [history EXCEPT ![s] = g] /\ clock' = clock
  BY DEF PutStore, recordHistoryLocked
<1>3. rec # None
  BY <1>1, MemoryAssumption
<1>4. h \in Seq(Memories) /\ (old = None => Len(h) = 0)
  BY <1>1, InStepBySlot DEF StoreOK, SlotOK
<1>5. /\ records'[s] = rec /\ history'[s] = g
      /\ \A t \in Slots \ {s} : records'[t] = records[t] /\ history'[t] = history[t]
  <2> HIDE DEF rec, g
  <2> QED
    BY <1>1, <1>2 DEF StoreOK
<1>6. g \in Seq(Memories)
  <2> HIDE DEF h, old
  <2>1. old # None => Append(h, old) \in Seq(Memories)
    BY <1>1, <1>4
  <2> QED
    BY <1>4, <2>1, NewestType
<1>7. Lineage(s)' = Append(g, rec)
  <2> HIDE DEF rec, g
  <2> QED
    BY <1>3, <1>5 DEF Lineage
<1>8. Lineage(s) = IF old = None THEN <<>> ELSE Append(h, old)
  BY DEF Lineage
<1>9. Append(g, rec) # <<>> /\ Lineages!Current(Append(g, rec)) = rec
  <2> HIDE DEF rec, g
  <2> QED
    BY <1>1, <1>6, CurrentVersion
<1>10. Lineages!Follows(Lineage(s), rec)
  <2> HIDE DEF rec, h, old
  <2>1. CASE old = None
    BY <1>1, <1>8, <2>1 DEF Lineages!Follows
  <2>2. CASE old # None
    <3>1. Append(h, old) # <<>> /\ Lineages!Current(Append(h, old)) = old
      BY <1>1, <1>4, <2>2, CurrentVersion
    <3> QED
      BY <1>1, <1>8, <2>2, <3>1 DEF Lineages!Follows
  <2> QED
    BY <2>1, <2>2
<1>11. Append(g, rec) = Lineages!Kept(Append(Lineage(s), rec))
  <2> HIDE DEF rec, h, old
  <2>1. CASE old = None
    <3>1. h = <<>> /\ g = <<>>
      BY <1>4, <2>1
    <3>2. <<>> \in Seq(Memories) /\ NewestOf(<<>>) = <<>>
      <4>1. Len(<<>>) = 0 /\ ~(0 > HistoryCap)
        BY MemoryAssumption
      <4> QED
        BY <4>1 DEF NewestOf
    <3>3. Append(NewestOf(<<>>), rec) = Lineages!Kept(Append(<<>>, rec))
      BY <1>1, <3>2, KeptAppend
    <3> QED
      BY <1>8, <2>1, <3>1, <3>2, <3>3
  <2>2. CASE old # None
    <3>1. Append(h, old) \in Seq(Memories) /\ g = NewestOf(Append(h, old))
      BY <1>1, <1>4, <2>2
    <3> QED
      BY <1>1, <1>8, <2>2, <3>1, KeptAppend
  <2> QED
    BY <2>1, <2>2
<1>12. \A t \in Slots \ {s} : Lineage(t)' = Lineage(t)
  BY <1>5 DEF Lineage
<1>13. l' = [l EXCEPT ![s] = Lineages!Kept(Append(l[s], rec))]
  <2>1. l[s] = Lineage(s) /\ l'[s] = Lineage(s)' /\ l' = [t \in Slots |-> l'[t]]
    BY <1>1
  <2>2. \A t \in Slots \ {s} : l'[t] = l[t]
    BY <1>12
  <2>3. l = [t \in Slots |-> l[t]]
    OBVIOUS
  <2> HIDE DEF l, rec, g
  <2> QED
    BY <1>1, <1>7, <1>11, <2>1, <2>2, <2>3
<1>14. l'[s] = Append(g, rec) /\ l[s] = Lineage(s)
  BY <1>1, <1>7
<1>15. /\ l'[s] # <<>> /\ Lineages!Follows(l[s], Lineages!Current(l'[s]))
       /\ l' = [l EXCEPT ![s] = Lineages!Kept(Append(l[s], Lineages!Current(l'[s])))]
  <2> HIDE DEF l, rec, g
  <2> QED
    BY <1>9, <1>10, <1>13, <1>14
<1> QED
  BY <1>1, <1>2, <1>15 DEF Lineages!Put

(* A reader ends those that are over. *)
LEMMA DropForgets ==
  ASSUME StoreOK, NEW S, Drop(Expired(S)), clock' = clock
  PROVE  \E R \in SUBSET Slots : Lineages!Forget(R)
<1> DEFINE R == Expired(S) \cap Slots
           l == [t \in Slots |-> Lineage(t)]
<1>1. ASSUME NEW s \in R PROVE Lineages!Over(s)
  <2>1. s \in Slots /\ records[s] # None /\ expired(records[s], clock)
    BY <1>1 DEF Expired
  <2>2. records[s] \in Memories /\ history[s] \in Seq(Memories)
    BY <2>1 DEF StoreOK
  <2>3. Append(history[s], records[s]) # <<>> /\ Lineages!Current(Append(history[s], records[s])) = records[s]
    BY <2>2, CurrentVersion
  <2>4. l[s] = Append(history[s], records[s])
    BY <2>1 DEF Lineage
  <2> QED
    BY <2>1, <2>3, <2>4 DEF Lineages!Over, expired
<1>2. ASSUME NEW s \in Slots PROVE Lineage(s)' = IF s \in R THEN <<>> ELSE l[s]
  <2>1. /\ s \in R => records'[s] = None
        /\ s \notin R => records'[s] = records[s] /\ history'[s] = history[s]
    BY DEF Drop
  <2> QED
    BY <2>1 DEF Lineage
<1>3. l' = [s \in Slots |-> IF s \in R THEN <<>> ELSE l[s]]
  BY <1>2
<1>4. Lineages!Forget(R)
  BY <1>1, <1>3 DEF Lineages!Forget
<1> QED
  BY <1>4

(* The memory store implements lineages: what Put, Get, History, List,     *)
(* Search and Consolidate do to records and history, step by step.         *)
THEOREM LineageCorrect == Spec => LineageContract
<1>1. Init => Lineages!Init
  BY DEF Init, Lineages!Init, Lineage
<1>2. Inv /\ [Next]_vars => [Lineages!Next]_<<[s \in Slots |-> Lineage(s)], clock>>
  <2> SUFFICES ASSUME Inv, [Next]_vars
               PROVE  \/ Lineages!Next
                      \/ UNCHANGED <<[s \in Slots |-> Lineage(s)], clock>>
    OBVIOUS
  <2>1. CallsOK /\ StoreOK
    BY InvSplit
  <2>2. CASE UNCHANGED <<records, history, clock>>
    BY <2>2 DEF Lineage
  <2>3. CASE Tick
    BY <2>3 DEF Tick, Lineage, Lineages!Next, Lineages!Wait
  <2>4. ASSUME NEW c \in Clients, Lookup(c) \/ Filter(c) \/ Consolidate(c)
        PROVE  Lineages!Next
    <3>1. clock' = clock /\ \E S : Drop(Expired(S))
      <4>1. CASE Lookup(c)
        BY <4>1 DEF Lookup
      <4>2. CASE Filter(c)
        BY <4>2 DEF Filter
      <4>3. CASE Consolidate(c)
        BY <4>3 DEF Consolidate
      <4> QED
        BY <2>4, <4>1, <4>2, <4>3
    <3> QED
      BY <2>1, <3>1, DropForgets DEF Lineages!Next
  <2>5. ASSUME NEW c \in Clients, PutStore(c)
        PROVE  Lineages!Next
    <3>1. PICK s : s = <<Req(c).ws, Req(c).id>>
      OBVIOUS
    <3> QED
      BY <2>1, <2>5, <3>1, PutContinues DEF Lineages!Next
  <2>6. ASSUME NEW c \in Clients,
               \/ PutBegin(c) \/ Remember(c) \/ EmbedFails(c) \/ PutEmbedded(c)
               \/ SearchBegin(c) \/ Recall(c) \/ Rank(c) \/ SearchReturns(c)
               \/ Summarised(c) \/ CompletionFails(c)
        PROVE  UNCHANGED <<records, history, clock>>
    BY <2>6 DEF PutBegin, Remember, EmbedFails, PutEmbedded, SearchBegin, Recall, Rank,
                SearchReturns, Summarised, CompletionFails
  <2>7. CASE UNCHANGED vars
    BY <2>2, <2>7 DEF vars
  <2> QED
    BY <2>2, <2>3, <2>4, <2>5, <2>6, <2>7 DEF Next, Silent
<1> QED
  BY <1>1, <1>2, Invariance, PTL DEF Spec, LineageContract, Lineages!Spec

-----------------------------------------------------------------------------
(* What Consolidate puts before the language model. *)

Present == {s \in Slots : records[s] # None}

(* There are only ever finitely many memories. *)
LEMMA PresentStep ==
  ASSUME Inv, IsFiniteSet(Present), [Next]_vars
  PROVE  IsFiniteSet(Present')
<1>1. CallsOK /\ StoreOK
  BY InvSplit
<1>2. CASE records' = records
  BY <1>2 DEF Present
<1>3. ASSUME NEW S, Drop(Expired(S)) PROVE IsFiniteSet(Present')
  <2>1. Present' \in SUBSET Present
    BY <1>1, <1>3, DropStep DEF Present
  <2> QED
    BY <2>1, FS_Subset
<1>4. ASSUME NEW c \in Clients, PutStore(c) PROVE IsFiniteSet(Present')
  <2> DEFINE s == <<Req(c).ws, Req(c).id>>
  <2>1. \A t \in Slots \ {s} : records'[t] = records[t]
    BY <1>1, <1>4, PutStep
  <2>2. Present' \in SUBSET (Present \cup {s})
    BY <2>1 DEF Present
  <2>3. IsFiniteSet(Present \cup {s})
    BY FS_AddElement
  <2> QED
    BY <2>2, <2>3, FS_Subset
<1> QED
  BY <1>2, <1>3, <1>4, RecordSteps

NewerPairs(S) == {p \in S \X S : Newer(p[1], p[2])}

(* Memories of one workspace are totally ordered by age and id. *)
LEMMA NewerOrder ==
  ASSUME StoreOK, NEW w, NEW S, S \subseteq Present, \A s \in S : s[1] = w
  PROVE  StrictOrder(S, NewerPairs(S))
<1> DEFINE at(s) == records[s].createdAt
<1>1. ASSUME NEW s \in S PROVE at(s) \in Nat /\ s[2] \in Nat /\ s = <<w, s[2]>>
  <2>1. s \in Slots /\ records[s] \in Memories
    BY DEF Present, StoreOK
  <2>2. Ids \subseteq Nat
    BY MemoryAssumption
  <2>3. s[2] \in Nat /\ s = <<w, s[2]>>
    <3>1. s \in Workspaces \X Ids
      BY <2>1 DEF Slots
    <3>2. PICK v \in Workspaces, i \in Ids : s = <<v, i>>
      BY <3>1
    <3> QED
      BY <2>2, <3>2
  <2> QED
    BY <2>1, <2>3 DEF Memories
<1>2. \A s, t \in S : <<s, t>> \in NewerPairs(S) <=> at(s) > at(t) \/ (at(s) = at(t) /\ s[2] < t[2])
  BY DEF NewerPairs, Newer
<1> HIDE DEF at
<1>3. \A s \in S : <<s, s>> \notin NewerPairs(S)
  BY <1>1, <1>2
<1>4. ASSUME NEW s \in S, NEW t \in S, NEW u \in S,
             <<s, t>> \in NewerPairs(S), <<t, u>> \in NewerPairs(S)
      PROVE  <<s, u>> \in NewerPairs(S)
  BY <1>1, <1>2, <1>4
<1>5. ASSUME NEW s \in S, NEW t \in S
      PROVE  s = t \/ <<s, t>> \in NewerPairs(S) \/ <<t, s>> \in NewerPairs(S)
  <2>1. CASE s[2] = t[2]
    <3>1. s = t
      BY <1>1, <2>1
    <3> QED
      BY <3>1
  <2>2. CASE s[2] # t[2]
    BY <1>1, <1>2, <2>2
  <2> QED
    BY <2>1, <2>2
<1> QED
  BY <1>3, <1>4, <1>5 DEF StrictOrder

LEMMA NewestFirstLists ==
  ASSUME StoreOK, NEW w, NEW S, S \subseteq Present, IsFiniteSet(S), \A s \in S : s[1] = w
  PROVE  Lists(NewestFirst(S), S, NewerPairs(S))
<1>1. \A s \in S : Above(s, S, NewerPairs(S)) = {t \in S : Newer(t, s)}
  BY DEF Above, NewerPairs
<1> DEFINE f == NewestFirst(S)
           C(i) == CHOOSE s \in S : Cardinality({t \in S : Newer(t, s)}) = i - 1
<1>2. f = [i \in 1..Cardinality(S) |-> f[i]]
  <2>1. f = [i \in 1..Cardinality(S) |-> C(i)]
    BY DEF NewestFirst
  <2> HIDE DEF f, C
  <2> QED
    BY <2>1
<1>3. ASSUME NEW i \in 1..Cardinality(S),
             \E s \in S : Cardinality(Above(s, S, NewerPairs(S))) = i - 1
      PROVE  f[i] \in S /\ Cardinality(Above(f[i], S, NewerPairs(S))) = i - 1
  <2>1. \E s \in S : Cardinality({t \in S : Newer(t, s)}) = i - 1
    BY <1>1, <1>3
  <2>2. f[i] = CHOOSE s \in S : Cardinality({t \in S : Newer(t, s)}) = i - 1
    BY DEF NewestFirst
  <2>3. f[i] \in S /\ Cardinality({t \in S : Newer(t, f[i])}) = i - 1
    BY <2>1, <2>2
  <2> QED
    BY <1>1, <2>3
<1>4. StrictOrder(S, NewerPairs(S))
  BY NewerOrder
<1> HIDE DEF f
<1>5. Lists(f, S, NewerPairs(S))
  BY <1>2, <1>3, <1>4, Sorting
<1> QED
  BY <1>5 DEF f

(* K represents the first i memories of the order. *)
Represents(K, order, i) ==
  /\ \A s \in K : \E j \in 1..i : s = order[j]
  /\ \A j \in 1..i : order[j] \in K \/ \E t \in K : AlikeSlots(order[j], t) /\ Newer(t, order[j])
  /\ \A s, t \in K : s # t => ~AlikeSlots(s, t)

LEMMA OneMore ==
  ASSUME StoreOK, NEW S, S \subseteq Present, NEW order, Lists(order, S, NewerPairs(S)),
         NEW i \in 1..Cardinality(S), NEW K, Represents(K, order, i - 1)
  PROVE  Represents(IF \E s \in K : AlikeSlots(order[i], s) THEN K ELSE K \cup {order[i]}, order, i)
<1> DEFINE n == Cardinality(S)
           x == order[i]
<1>1. n \in Nat /\ i \in 1..n /\ x \in S /\ \A j \in 1..n : order[j] \in S
  BY DEF Lists
<1>2. \A j \in 1..i : j \in 1..n /\ (j \in 1..(i - 1) \/ j = i)
  BY <1>1
<1>3. \A j \in 1..(i - 1) : j \in 1..i /\ j \in 1..n /\ j < i
  BY <1>1
<1>4. \A j \in 1..(i - 1) : Newer(order[j], x)
  BY <1>1, <1>3 DEF Lists, NewerPairs
<1>5. \A s \in K : s \in S /\ Newer(s, x) /\ \E j \in 1..i : s = order[j]
  BY <1>1, <1>3, <1>4 DEF Represents
<1>6. \A s, t \in S : AlikeSlots(s, t) => AlikeSlots(t, s)
  <2>0. \A s \in S : records[s] \in Memories
    BY DEF Present, StoreOK
  <2>1. \A s \in S : records[s].content \in Contents
    BY <2>0 DEF Memories
  <2>2. \A a, b \in Contents : <<a, b>> \in Alike => <<b, a>> \in Alike
    BY MemoryAssumption
  <2> QED
    BY <2>1, <2>2 DEF AlikeSlots
<1>7. CASE \E s \in K : AlikeSlots(x, s)
  <2>1. \A j \in 1..i : order[j] \in K \/ \E t \in K : AlikeSlots(order[j], t) /\ Newer(t, order[j])
    BY <1>2, <1>5, <1>7 DEF Represents
  <2>2. Represents(K, order, i)
    BY <1>5, <2>1 DEF Represents
  <2> QED
    BY <1>7, <2>2
<1>8. CASE ~\E s \in K : AlikeSlots(x, s)
  <2> DEFINE L == K \cup {x}
  <2>1. \A s \in L : \E j \in 1..i : s = order[j]
    BY <1>1, <1>5
  <2>2. \A j \in 1..i : order[j] \in L \/ \E t \in L : AlikeSlots(order[j], t) /\ Newer(t, order[j])
    BY <1>2 DEF Represents
  <2>3. ASSUME NEW s \in L, NEW t \in L, s # t PROVE ~AlikeSlots(s, t)
    BY <1>1, <1>5, <1>6, <1>8, <2>3 DEF Represents
  <2>4. Represents(L, order, i)
    BY <2>1, <2>2, <2>3 DEF Represents
  <2> QED
    BY <1>8, <2>4
<1> QED
  BY <1>7, <1>8

(* dedupe, for every set of memories of a workspace. *)
LEMMA DedupeRight ==
  ASSUME StoreOK, NEW w, NEW S, S \subseteq Present, IsFiniteSet(S), \A s \in S : s[1] = w
  PROVE  /\ dedupe(S) \subseteq S
         /\ \A s \in S : s \in dedupe(S) \/ \E t \in dedupe(S) : AlikeSlots(s, t) /\ Newer(t, s)
         /\ \A s, t \in dedupe(S) : s # t => ~AlikeSlots(s, t)
<1> DEFINE n == Cardinality(S)
           order == NewestFirst(S)
           V(i, K) == IF \E s \in K : AlikeSlots(order[i], s) THEN K ELSE K \cup {order[i]}
           Q == SUBSET S
           e == {}
           G == [i \in 1..n |-> [K \in Q |-> V(i, K)]]
           Rec(f) == f = [i \in 0..n |-> IF i = 0 THEN e ELSE V(i, f[i - 1])]
           kept == CHOOSE f : Rec(f)
<1>1. Lists(order, S, NewerPairs(S))
  BY NewestFirstLists
<1>2. n \in Nat /\ \A i \in 1..n : order[i] \in S
  BY <1>1 DEF Lists
<1>3. dedupe(S) = kept[n]
  BY DEF dedupe
<1>4. \A i \in 1..n, K \in Q : V(i, K) \in Q
  BY <1>2
<1>5. ASSUME NEW i \in 1..n, NEW K, Represents(K, order, i - 1) PROVE Represents(V(i, K), order, i)
  BY <1>1, <1>5, OneMore
<1>6. Represents(e, order, 0) /\ e \in Q
  BY DEF Represents
<1> HIDE DEF n, order, V, Q, e
<1>7. G \in [1..n -> [Q -> Q]]
  BY <1>4
<1>8. PICK f \in [0..n -> Q] : DefinedBy(f, n, e, G)
  <2> HIDE DEF G
  <2> QED
    BY <1>2, <1>6, <1>7, Recursion, Zenon
<1>9. ASSUME NEW i \in 1..n PROVE f[i] = V(i, f[i - 1])
  <2>1. i - 1 \in 0..n
    BY <1>2
  <2>2. f[i - 1] \in Q
    BY <2>1
  <2> QED
    BY <1>8, <2>2 DEF DefinedBy
<1>10. Rec(f)
  <2>1. ASSUME NEW i \in 0..n PROVE f[i] = IF i = 0 THEN e ELSE V(i, f[i - 1])
    <3>1. CASE i = 0
      BY <1>8, <3>1 DEF DefinedBy
    <3>2. CASE i # 0
      <4>1. i \in 1..n
        BY <1>2, <3>2
      <4> QED
        BY <1>9, <3>2, <4>1
    <3> QED
      BY <3>1, <3>2
  <2> QED
    BY <2>1
<1>11. Rec(kept)
  <2> HIDE DEF Rec
  <2> QED
    BY <1>10
<1> HIDE DEF kept
<1>12. kept[0] = e
  BY <1>2, <1>11
<1>13. ASSUME NEW i \in 1..n PROVE kept[i] = V(i, kept[i - 1])
  <2>1. i \in 0..n /\ i # 0
    BY <1>2
  <2> QED
    BY <1>11, <2>1
<1> DEFINE T == {i \in 0..n : Represents(kept[i], order, i)}
<1>14. 0 \in T
  BY <1>2, <1>6, <1>12
<1>15. ASSUME NEW i \in 0..(n - 1), i \in T PROVE i + 1 \in T
  <2>1. i + 1 \in 1..n /\ i + 1 \in 0..n /\ (i + 1) - 1 = i
    BY <1>2
  <2>2. Represents(V(i + 1, kept[i]), order, i + 1)
    BY <1>5, <1>15, <2>1
  <2>3. kept[i + 1] = V(i + 1, kept[i])
    BY <1>13, <2>1
  <2> QED
    BY <2>1, <2>2, <2>3
<1>16. 0..n \subseteq T
  <2> HIDE DEF T
  <2> QED
    BY <1>2, <1>14, <1>15, UpTo
<1>17. Represents(dedupe(S), order, n)
  BY <1>2, <1>3, <1>16
<1>18. \A s \in S : \E i \in 1..n : order[i] = s
  BY <1>1 DEF Lists, n
<1> QED
  BY <1>2, <1>17, <1>18 DEF Represents

-----------------------------------------------------------------------------
(* What a search ranks and returns. *)

Hits == [slot : Slots, score : Int]

(* Ranked candidates: no more than asked for, best first. *)
RankedOK(raw, k) ==
  /\ raw \in Seq(Hits) /\ Len(raw) <= k
  /\ \A i, j \in 1..Len(raw) : i < j => raw[i].score >= raw[j].score

SearchOK(o) ==
  /\ o.pc = "embed" /\ o.req.name = "Search" => o.req.k \in Nat
  /\ o.pc = "filter" => o.req.k \in Nat /\ RankedOK(o.raw, o.req.k)

BetterPairs(S) == {p \in S \X S : Better(p[1], p[2])}

LEMMA VectorSearchRanks ==
  ASSUME StoreOK, IsFiniteSet(Present), NEW r, r.k \in Nat
  PROVE  RankedOK(VectorSearch(r), r.k)
<1> DEFINE S == {s \in Slots : /\ s[1] = r.ws /\ index[s] # None
                               /\ Matches(index[s], r) /\ Score(s) # NaN}
           R == BetterPairs(S)
           all == Ranked(S)
           n == Cardinality(S)
           C(i) == CHOOSE s \in S : Cardinality({t \in S : Better(t, s)}) = i - 1
           m == IF Len(all) > r.k THEN r.k ELSE Len(all)
           hit(i) == [slot |-> all[i], score |-> Score(all[i])]
           raw == VectorSearch(r)
<1>1. IsFiniteSet(S)
  <2>1. S \in SUBSET Present
    BY DEF Present, StoreOK, RecordsInStep
  <2> QED
    BY <2>1, FS_Subset
<1>2. ASSUME NEW s \in S PROVE Score(s) \in Int /\ s[2] \in Nat /\ s = <<r.ws, s[2]>>
  <2>1. index[s] \in IndexEntries
    BY DEF StoreOK
  <2>2. index[s].content \in Contents
    BY <2>1 DEF IndexEntries
  <2>3. Similarity \in [Contents -> Int \cup {NaN}] /\ Ids \subseteq Nat
    BY MemoryAssumption
  <2>4. Score(s) \in Int
    BY <2>2, <2>3 DEF Score
  <2>5. s \in Workspaces \X Ids /\ s[1] = r.ws
    BY DEF Slots
  <2>6. PICK v \in Workspaces, i \in Ids : s = <<v, i>>
    BY <2>5
  <2> QED
    BY <2>3, <2>4, <2>5, <2>6
<1>3. S \subseteq Slots
  OBVIOUS
<1>4. raw = [i \in 1..m |-> hit(i)]
  BY DEF VectorSearch
<1> HIDE DEF S
<1>5. \A s, t \in S : <<s, t>> \in R <=> Score(s) > Score(t) \/ (Score(s) = Score(t) /\ s[2] < t[2])
  BY DEF BetterPairs, Better
<1>6. StrictOrder(S, R)
  <2> HIDE DEF R
  <2>1. \A s \in S : <<s, s>> \notin R
    BY <1>2, <1>5
  <2>2. ASSUME NEW s \in S, NEW t \in S, NEW u \in S, <<s, t>> \in R, <<t, u>> \in R
        PROVE  <<s, u>> \in R
    BY <1>2, <1>5, <2>2
  <2>3. ASSUME NEW s \in S, NEW t \in S PROVE s = t \/ <<s, t>> \in R \/ <<t, s>> \in R
    <3>1. CASE s[2] = t[2]
      <4>1. s = t
        BY <1>2, <3>1
      <4> QED
        BY <4>1
    <3>2. CASE s[2] # t[2]
      BY <1>2, <1>5, <3>2
    <3> QED
      BY <3>1, <3>2
  <2> QED
    BY <2>1, <2>2, <2>3 DEF StrictOrder
<1>7. all = [i \in 1..n |-> all[i]]
  <2>1. all = [i \in 1..n |-> C(i)]
    BY DEF Ranked
  <2> HIDE DEF all, C
  <2> QED
    BY <2>1
<1>8. ASSUME NEW i \in 1..n, \E s \in S : Cardinality(Above(s, S, R)) = i - 1
      PROVE  all[i] \in S /\ Cardinality(Above(all[i], S, R)) = i - 1
  <2>1. \A s \in S : Above(s, S, R) = {t \in S : Better(t, s)}
    BY DEF Above, BetterPairs
  <2>2. \E s \in S : Cardinality({t \in S : Better(t, s)}) = i - 1
    BY <1>8, <2>1
  <2>3. all[i] = CHOOSE s \in S : Cardinality({t \in S : Better(t, s)}) = i - 1
    BY DEF Ranked
  <2>4. all[i] \in S /\ Cardinality({t \in S : Better(t, all[i])}) = i - 1
    BY <2>2, <2>3
  <2> QED
    BY <2>1, <2>4
<1> HIDE DEF all, R
<1>9. Lists(all, S, R)
  BY <1>1, <1>6, <1>7, <1>8, Sorting
<1>10. n \in Nat /\ Len(all) = n /\ \A i \in 1..n : all[i] \in S
  <2>1. n \in Nat /\ all \in [1..n -> S]
    BY <1>9 DEF Lists
  <2> HIDE DEF n
  <2>2. all \in Seq(S) /\ Len(all) = n
    BY <2>1
  <2> QED
    BY <2>1, <2>2
<1>11. m \in Nat /\ m <= n /\ m <= r.k
  BY <1>10
<1> HIDE DEF m, n
<1>12. ASSUME NEW i \in 1..m PROVE i \in 1..n /\ all[i] \in S /\ hit(i) \in Hits
  <2>1. i \in 1..n
    BY <1>10, <1>11
  <2>2. all[i] \in S
    BY <1>10, <2>1
  <2> QED
    BY <1>2, <1>3, <2>1, <2>2 DEF Hits
<1>13. \A i \in 1..m : hit(i).score = Score(all[i])
  OBVIOUS
<1> HIDE DEF hit, raw
<1>14. raw \in Seq(Hits) /\ Len(raw) = m /\ \A i \in 1..m : raw[i] = hit(i)
  BY <1>4, <1>11, <1>12
<1>15. ASSUME NEW i \in 1..m, NEW j \in 1..m, i < j PROVE raw[i].score >= raw[j].score
  <2>1. <<all[i], all[j]>> \in R
    BY <1>9, <1>12, <1>15 DEF Lists, n
  <2>2. Score(all[i]) > Score(all[j]) \/ Score(all[i]) = Score(all[j])
    BY <1>5, <1>12, <2>1
  <2>3. Score(all[i]) \in Int /\ Score(all[j]) \in Int
    BY <1>2, <1>12
  <2>4. raw[i].score = Score(all[i]) /\ raw[j].score = Score(all[j])
    BY <1>13, <1>14
  <2> QED
    BY <2>2, <2>3, <2>4
<1>16. RankedOK(raw, r.k)
  BY <1>11, <1>14, <1>15 DEF RankedOK
<1> QED
  BY <1>16 DEF raw

(* q is what is returned of the first i candidates. *)
ReturnedOK(q, raw, i) ==
  /\ q \in Seq(Hits) /\ Len(q) <= i
  /\ \A j \in 1..Len(q) : Live(q[j].slot)
  /\ \A j, l \in 1..Len(q) : j < l => q[j].score >= q[l].score
  /\ \A j \in 1..Len(q), l \in (i + 1)..Len(raw) : q[j].score >= raw[l].score

LEMMA OneMoreResult ==
  ASSUME NEW raw \in Seq(Hits), NEW k, RankedOK(raw, k), NEW i \in 1..Len(raw),
         NEW q, ReturnedOK(q, raw, i - 1)
  PROVE  /\ ReturnedOK(q, raw, i)
         /\ Live(raw[i].slot) => ReturnedOK(Append(q, raw[i]), raw, i)
<1> DEFINE x == raw[i]
           n == Len(q)
           p == Append(q, x)
<1>1. /\ q \in Seq(Hits) /\ n \in Nat /\ n <= i - 1 /\ i \in Nat /\ Len(raw) \in Nat /\ x \in Hits
      /\ \A l \in 1..Len(raw) : raw[l] \in Hits
  BY DEF ReturnedOK
<1>2. \A l \in (i + 1)..Len(raw) : l \in ((i - 1) + 1)..Len(raw) /\ l \in 1..Len(raw) /\ i < l
  BY <1>1
<1>3. i \in ((i - 1) + 1)..Len(raw)
  BY <1>1
<1>4. ReturnedOK(q, raw, i)
  BY <1>1, <1>2 DEF ReturnedOK
<1>5. ASSUME Live(x.slot) PROVE ReturnedOK(p, raw, i)
  <2>1. /\ p \in Seq(Hits) /\ Len(p) = n + 1 /\ p[n + 1] = x
        /\ \A j \in 1..n : p[j] = q[j]
    BY <1>1
  <2> HIDE DEF p, x, n
  <2>2. \A j \in 1..Len(p) : j \in 1..n \/ j = n + 1
    BY <1>1, <2>1
  <2>3. \A j \in 1..n : Live(q[j].slot) /\ q[j].score >= x.score
    BY <1>3 DEF ReturnedOK, x, n
  <2>4. \A j \in 1..Len(p) : Live(p[j].slot)
    BY <1>5, <2>1, <2>2, <2>3
  <2>5. ASSUME NEW j \in 1..Len(p), NEW l \in 1..Len(p), j < l PROVE p[j].score >= p[l].score
    <3>1. j \in 1..n
      BY <1>1, <2>1, <2>2, <2>5
    <3>2. CASE l = n + 1
      BY <2>1, <2>3, <3>1, <3>2
    <3>3. CASE l # n + 1
      BY <2>1, <2>2, <2>5, <3>1, <3>3 DEF ReturnedOK, n
    <3> QED
      BY <3>2, <3>3
  <2>6. ASSUME NEW j \in 1..Len(p), NEW l \in (i + 1)..Len(raw) PROVE p[j].score >= raw[l].score
    <3>1. CASE j \in 1..n
      BY <1>2, <2>1, <3>1 DEF ReturnedOK, n
    <3>2. CASE j = n + 1
      BY <1>2, <2>1, <3>2 DEF RankedOK, x
    <3> QED
      BY <2>2, <3>1, <3>2
  <2>7. Len(p) <= i
    BY <1>1, <2>1
  <2> QED
    BY <2>1, <2>4, <2>5, <2>6, <2>7 DEF ReturnedOK
<1> QED
  BY <1>4, <1>5

LEMMA ResultsRight ==
  ASSUME NEW c \in Clients, NEW k, RankedOK(op[c].raw, k)
  PROVE  ReturnedOK(Results(c), op[c].raw, Len(op[c].raw))
<1> DEFINE raw == op[c].raw
           n == Len(raw)
           V(i, q) == IF Keeps(c, raw[i]) THEN Append(q, raw[i]) ELSE q
           Q == Seq(Hits)
           e == <<>>
           G == [i \in 1..n |-> [q \in Q |-> V(i, q)]]
           Rec(f) == f = [i \in 0..n |-> IF i = 0 THEN e ELSE V(i, f[i - 1])]
           kept == CHOOSE f : Rec(f)
<1>1. raw \in Seq(Hits) /\ n \in Nat /\ \A i \in 1..n : raw[i] \in Hits
  BY DEF RankedOK
<1>2. Results(c) = kept[n]
  <2>1. Results(c) = (CHOOSE f : f = [i \in 0..n |-> IF i = 0 THEN e
                                         ELSE IF Keeps(c, raw[i]) THEN Append(f[i - 1], raw[i])
                                         ELSE f[i - 1]])[n]
    BY DEF Results
  <2> QED
    BY <2>1
<1>3. e \in Q /\ ReturnedOK(e, raw, 0)
  <2>1. e \in Q /\ Len(e) = 0
    OBVIOUS
  <2> HIDE DEF e
  <2> QED
    BY <2>1 DEF ReturnedOK
<1>4. \A i \in 1..n, q \in Q : V(i, q) \in Q
  BY <1>1
<1>5. ASSUME NEW i \in 1..n, NEW q, ReturnedOK(q, raw, i - 1) PROVE ReturnedOK(V(i, q), raw, i)
  <2>1. ReturnedOK(q, raw, i) /\ (Live(raw[i].slot) => ReturnedOK(Append(q, raw[i]), raw, i))
    BY <1>1, <1>5, OneMoreResult
  <2>2. CASE Keeps(c, raw[i])
    BY <2>1, <2>2 DEF Keeps
  <2>3. CASE ~Keeps(c, raw[i])
    BY <2>1, <2>3
  <2> QED
    BY <2>2, <2>3
<1> HIDE DEF n, raw, V, Q, e
<1>6. G \in [1..n -> [Q -> Q]]
  BY <1>4
<1>7. PICK f \in [0..n -> Q] : DefinedBy(f, n, e, G)
  <2> HIDE DEF G
  <2> QED
    BY <1>1, <1>3, <1>6, Recursion, Zenon
<1>8. ASSUME NEW i \in 1..n PROVE f[i] = V(i, f[i - 1])
  <2>1. i - 1 \in 0..n
    BY <1>1
  <2>2. f[i - 1] \in Q
    BY <2>1
  <2> QED
    BY <1>7, <2>2 DEF DefinedBy
<1>9. Rec(f)
  <2>1. ASSUME NEW i \in 0..n PROVE f[i] = IF i = 0 THEN e ELSE V(i, f[i - 1])
    <3>1. CASE i = 0
      BY <1>7, <3>1 DEF DefinedBy
    <3>2. CASE i # 0
      <4>1. i \in 1..n
        BY <1>1, <3>2
      <4> QED
        BY <1>8, <3>2, <4>1
    <3> QED
      BY <3>1, <3>2
  <2> QED
    BY <2>1
<1>10. Rec(kept)
  <2> HIDE DEF Rec
  <2> QED
    BY <1>9
<1> HIDE DEF kept
<1>11. kept[0] = e
  BY <1>1, <1>10
<1>12. ASSUME NEW i \in 1..n PROVE kept[i] = V(i, kept[i - 1])
  <2>1. i \in 0..n /\ i # 0
    BY <1>1
  <2> QED
    BY <1>10, <2>1
<1> DEFINE T == {i \in 0..n : ReturnedOK(kept[i], raw, i)}
<1>13. 0 \in T
  BY <1>1, <1>3, <1>11
<1>14. ASSUME NEW i \in 0..(n - 1), i \in T PROVE i + 1 \in T
  <2>1. i + 1 \in 1..n /\ i + 1 \in 0..n /\ (i + 1) - 1 = i
    BY <1>1
  <2>2. ReturnedOK(V(i + 1, kept[i]), raw, i + 1)
    BY <1>5, <1>14, <2>1
  <2>3. kept[i + 1] = V(i + 1, kept[i])
    BY <1>12, <2>1
  <2> QED
    BY <2>1, <2>2, <2>3
<1>15. 0..n \subseteq T
  <2> HIDE DEF T
  <2> QED
    BY <1>1, <1>13, <1>14, UpTo
<1>16. ReturnedOK(Results(c), raw, n)
  BY <1>1, <1>2, <1>15
<1> QED
  BY <1>16 DEF raw, n

-----------------------------------------------------------------------------
(* Searches and consolidations, step by step. *)

FoundInv == IsFiniteSet(Present) /\ \A c \in Clients : SearchOK(op[c])

(* A step changes one call, or none. *)
LEMMA OneCall ==
  ASSUME CallsOK, NEW c \in Clients, NEW o, op' = [op EXCEPT ![c] = o]
  PROVE  op'[c] = o /\ \A d \in Clients \ {c} : op'[d] = op[d]
BY DEF CallsOK

LEMMA SearchStep ==
  ASSUME Inv, FoundInv, NEW c \in Clients,
         \/ PutBegin(c) \/ Remember(c) \/ EmbedFails(c) \/ PutEmbedded(c) \/ PutStore(c)
         \/ Lookup(c)
         \/ SearchBegin(c) \/ Recall(c) \/ Rank(c) \/ Filter(c) \/ SearchReturns(c)
         \/ Consolidate(c) \/ Summarised(c) \/ CompletionFails(c)
  PROVE  \A d \in Clients : SearchOK(op'[d])
<1>1. CallsOK /\ StoreOK
  BY InvSplit
<1>2. ASSUME NEW o, op' = [op EXCEPT ![c] = o], SearchOK(o)
      PROVE  \A d \in Clients : SearchOK(op'[d])
  BY <1>1, <1>2, OneCall DEF FoundInv
<1>3. ASSUME NEW o, o.pc \notin {"embed", "filter"} PROVE SearchOK(o)
  BY <1>3 DEF SearchOK
<1>4. CASE PutBegin(c) \/ Remember(c)
  <2>1. PICK w \in Workspaces, a \in Agents, k \in Kinds, x \in Contents, t \in TTLs :
          \E i \in KnownIds(w) \cup {0} : op' = [op EXCEPT ![c] = PutRequest(w, i, a, k, x, t)]
    BY <1>4 DEF PutBegin, Remember
  <2>2. PICK i \in KnownIds(w) \cup {0} : op' = [op EXCEPT ![c] = PutRequest(w, i, a, k, x, t)]
    BY <2>1
  <2>3. PutRequest(w, i, a, k, x, t).pc = "embed" /\ PutRequest(w, i, a, k, x, t).req.name = "Put"
    BY DEF PutRequest, Idle, NoReq
  <2>4. SearchOK(PutRequest(w, i, a, k, x, t))
    BY <2>3 DEF SearchOK
  <2> QED
    BY <1>2, <2>2, <2>4
<1>5. CASE EmbedFails(c) \/ PutStore(c) \/ SearchReturns(c) \/ CompletionFails(c)
  BY <1>2, <1>3, <1>5, IdleOK DEF EmbedFails, PutStore, SearchReturns, CompletionFails
<1>6. CASE PutEmbedded(c)
  <2>1. PICK i : op' = [op EXCEPT ![c] = [Idle EXCEPT !.pc = "store", !.req = [Req(c) EXCEPT !.id = i],
                                                      !.now = clock]]
    BY <1>6 DEF PutEmbedded
  <2> DEFINE q == [Req(c) EXCEPT !.id = i]
             o == [Idle EXCEPT !.pc = "store", !.req = q, !.now = clock]
  <2>2. op' = [op EXCEPT ![c] = o]
    BY <2>1
  <2> HIDE DEF q
  <2>3. o.pc = "store"
    BY DEF Idle
  <2> HIDE DEF o
  <2> QED
    BY <1>2, <1>3, <2>2, <2>3
<1>7. CASE Lookup(c)
  BY <1>7 DEF Lookup, FoundInv
<1>8. CASE SearchBegin(c) \/ Recall(c)
  <2>1. PICK w \in Workspaces, a \in Agents \cup {None}, kd \in Kinds \cup {None}, k \in Ks, th \in Thresholds :
          op' = [op EXCEPT ![c] = SearchRequest(w, a, kd, k, th)]
    BY <1>8 DEF SearchBegin, Recall
  <2> DEFINE o == SearchRequest(w, a, kd, k, th)
             kk == IF k <= 0 THEN DefaultK ELSE k
  <2>2. kk \in Nat
    BY MemoryAssumption
  <2>3. o.pc = "embed" /\ o.req.k = kk
    BY DEF SearchRequest, Idle, NoReq
  <2> HIDE DEF o, kk
  <2>4. SearchOK(o)
    BY <2>2, <2>3 DEF SearchOK
  <2> QED
    BY <1>2, <2>1, <2>4 DEF o
<1>9. CASE Rank(c)
  <2> DEFINE raw == VectorSearch(Req(c))
             o == [Idle EXCEPT !.pc = "filter", !.req = Req(c), !.raw = raw]
  <2>1. op' = [op EXCEPT ![c] = o] /\ Req(c).k \in Nat
    BY <1>9 DEF Rank, FoundInv, SearchOK, Req
  <2>2. RankedOK(raw, Req(c).k)
    BY <1>1, <2>1, VectorSearchRanks DEF FoundInv
  <2> HIDE DEF raw
  <2>3. o.pc = "filter" /\ o.req = Req(c) /\ o.raw = raw
    BY DEF Idle
  <2> HIDE DEF o
  <2>4. SearchOK(o)
    BY <2>1, <2>2, <2>3 DEF SearchOK
  <2> QED
    BY <1>2, <2>1, <2>4
<1>10. CASE Filter(c)
  <2> DEFINE out == Results(c)
             o == [Idle EXCEPT !.pc = "reply", !.req = Req(c), !.out = out]
  <2>1. op' = [op EXCEPT ![c] = o]
    BY <1>10 DEF Filter
  <2> HIDE DEF out
  <2>2. o.pc = "reply"
    BY DEF Idle
  <2> HIDE DEF o
  <2> QED
    BY <1>2, <1>3, <2>1, <2>2
<1>11. CASE Consolidate(c)
  <2>1. PICK r : Summarises(c, r)
    BY <1>11 DEF Consolidate
  <2>2. CASE op' = op
    BY <2>2 DEF FoundInv
  <2>3. CASE op' # op
    <3> DEFINE src == List(r)
               reps == dedupe(List(r))
               o == [Idle EXCEPT !.pc = "complete", !.req = r, !.sources = src, !.reps = reps]
    <3>1. op' = [op EXCEPT ![c] = o]
      BY <2>1, <2>3 DEF Summarises
    <3> HIDE DEF src, reps
    <3>2. o.pc = "complete"
      BY DEF Idle
    <3> HIDE DEF o
    <3> QED
      BY <1>2, <1>3, <3>1, <3>2
  <2> QED
    BY <2>2, <2>3
<1>12. CASE Summarised(c)
  <2>1. PICK x \in Contents :
          op' = [op EXCEPT ![c] = [Idle EXCEPT !.pc = "embed",
                   !.req = [NoReq EXCEPT !.name = "Consolidate", !.ws = Req(c).ws, !.agent = Req(c).agent,
                                         !.kind = "long_term", !.content = x]]]
    BY <1>12 DEF Summarised
  <2> DEFINE q == [NoReq EXCEPT !.name = "Consolidate", !.ws = Req(c).ws, !.agent = Req(c).agent,
                                !.kind = "long_term", !.content = x]
             o == [Idle EXCEPT !.pc = "embed", !.req = q]
  <2>2. q.name = "Consolidate"
    BY DEF NoReq
  <2>3. op' = [op EXCEPT ![c] = o]
    BY <2>1
  <2> HIDE DEF q
  <2>4. o.pc = "embed" /\ o.req = q
    BY DEF Idle
  <2> HIDE DEF o
  <2>5. SearchOK(o)
    BY <2>2, <2>4 DEF SearchOK
  <2> QED
    BY <1>2, <2>3, <2>5
<1> QED
  BY <1>4, <1>5, <1>6, <1>7, <1>8, <1>9, <1>10, <1>11, <1>12

LEMMA FoundNext ==
  ASSUME Inv, FoundInv, [Next]_vars
  PROVE  FoundInv'
<1>1. IsFiniteSet(Present')
  BY PresentStep DEF FoundInv
<1>2. \A d \in Clients : SearchOK(op'[d])
  <2>1. CASE op' = op
    BY <2>1 DEF FoundInv
  <2>2. CASE op' # op
    BY <2>2, SearchStep DEF Next, Tick, Silent, vars
  <2> QED
    BY <2>1, <2>2
<1> QED
  BY <1>1, <1>2 DEF FoundInv

LEMMA FoundAlways == Spec => []FoundInv
<1>1. Init => FoundInv
  <2> SUFFICES ASSUME Init PROVE FoundInv
    OBVIOUS
  <2>1. Present = {}
    BY DEF Init, Present
  <2>2. \A c \in Clients : SearchOK(op[c])
    BY IdleOK DEF Init, SearchOK
  <2> QED
    BY <2>1, <2>2, FS_EmptySet DEF FoundInv
<1>2. Inv /\ FoundInv /\ [Next]_vars => FoundInv'
  BY FoundNext
<1> QED
  BY <1>1, <1>2, Invariance, PTL DEF Spec

(* Only the client's own step changes its call. *)
LEMMA OwnStep ==
  ASSUME Inv, Next, NEW c \in Clients, op'[c] # op[c]
  PROVE  \/ PutBegin(c) \/ Remember(c) \/ EmbedFails(c) \/ PutEmbedded(c) \/ PutStore(c)
         \/ SearchBegin(c) \/ Recall(c) \/ Rank(c) \/ Filter(c) \/ SearchReturns(c)
         \/ Consolidate(c) \/ Summarised(c) \/ CompletionFails(c)
<1>1. CallsOK
  BY InvSplit
<1>2. ASSUME NEW d \in Clients,
             \/ PutBegin(d) \/ Remember(d) \/ EmbedFails(d) \/ PutEmbedded(d) \/ PutStore(d)
             \/ SearchBegin(d) \/ Recall(d) \/ Rank(d) \/ Filter(d) \/ SearchReturns(d)
             \/ Consolidate(d) \/ Summarised(d) \/ CompletionFails(d)
      PROVE  d = c
  <2>1. op' = op \/ \E o : op' = [op EXCEPT ![d] = o]
    <3>1. CASE PutBegin(d) \/ Remember(d) \/ EmbedFails(d) \/ PutEmbedded(d) \/ PutStore(d)
      BY <3>1, Zenon DEF PutBegin, Remember, EmbedFails, PutEmbedded, PutStore
    <3>2. CASE SearchBegin(d) \/ Recall(d) \/ Rank(d) \/ Filter(d) \/ SearchReturns(d)
      BY <3>2, Zenon DEF SearchBegin, Recall, Rank, Filter, SearchReturns
    <3>3. CASE Summarised(d) \/ CompletionFails(d)
      BY <3>3, Zenon DEF Summarised, CompletionFails
    <3>4. CASE Consolidate(d)
      <4>1. PICK r : Summarises(d, r)
        BY <3>4 DEF Consolidate
      <4> DEFINE o == [Idle EXCEPT !.pc = "complete", !.req = r, !.sources = List(r), !.reps = dedupe(List(r))]
      <4>2. op' = op \/ op' = [op EXCEPT ![d] = o]
        BY <4>1 DEF Summarises
      <4> HIDE DEF o
      <4> QED
        BY <4>2
    <3> QED
      BY <1>2, <3>1, <3>2, <3>3, <3>4
  <2> QED
    BY <1>1, <2>1, OneCall
<1>3. op' # op
  OBVIOUS
<1>4. ASSUME NEW d \in Clients PROVE ~Lookup(d)
  BY <1>3 DEF Lookup
<1>5. ~Tick /\ ~Silent
  BY <1>3 DEF Tick, Silent, vars
<1> QED
  BY <1>2, <1>4, <1>5 DEF Next

LEMMA FilterReturns ==
  ASSUME Inv, FoundInv, Next, NEW c \in Clients
  PROVE  ReturnsLive(c)
<1> SUFFICES ASSUME op[c].pc = "filter", op'[c].pc = "reply"
             PROVE  LET out == op'[c].out
                    IN  /\ Len(out) <= Req(c).k
                        /\ \A i \in 1..Len(out) : Live(out[i].slot)
                        /\ \A i, j \in 1..Len(out) : i < j => out[i].score >= out[j].score
  BY DEF ReturnsLive
<1>1. CallsOK
  BY InvSplit
<1>2. Filter(c)
  <2>1. op'[c] # op[c]
    OBVIOUS
  <2> QED
    BY <2>1, OwnStep DEF PutBegin, Remember, EmbedFails, PutEmbedded, PutStore, SearchBegin, Recall,
       Rank, SearchReturns, Consolidate, Summarised, CompletionFails, Calls
<1> DEFINE q == Results(c)
           o == [Idle EXCEPT !.pc = "reply", !.req = Req(c), !.out = q]
<1>3. op' = [op EXCEPT ![c] = o]
  BY <1>2 DEF Filter
<1>4. Req(c).k \in Nat /\ RankedOK(op[c].raw, Req(c).k)
  BY DEF FoundInv, SearchOK, Req
<1>5. ReturnedOK(q, op[c].raw, Len(op[c].raw))
  BY <1>4, ResultsRight
<1>6. Len(op[c].raw) <= Req(c).k /\ Len(op[c].raw) \in Nat
  BY <1>4 DEF RankedOK
<1> HIDE DEF q
<1>7. o.out = q
  BY DEF Idle
<1> HIDE DEF o
<1>8. op'[c].out = q
  BY <1>1, <1>3, <1>7, OneCall
<1>9. Len(q) \in Nat /\ Len(q) <= Len(op[c].raw)
  BY <1>5 DEF ReturnedOK
<1>10. Len(q) <= Req(c).k
  BY <1>4, <1>6, <1>9
<1> QED
  BY <1>5, <1>8, <1>10 DEF ReturnedOK

(* MEMORY.SEARCH and AGENT.RECALL return live memories only, at most K and *)
(* best first, although the ranking was done on the index as it was before *)
(* the store's lock was taken, and any number of writers and readers came  *)
(* in between.                                                             *)
THEOREM SearchCorrect == Spec => SearchReturnsLive
<1>1. Inv /\ FoundInv /\ [Next]_vars => [\A c \in Clients : ReturnsLive(c)]_vars
  BY FilterReturns
<1> QED
  BY <1>1, Invariance, FoundAlways, PTL DEF Spec, SearchReturnsLive

LEMMA ConsolidateSays ==
  ASSUME Inv, FoundInv, Next, NEW c \in Clients
  PROVE  SaysEverything(c)
<1> SUFFICES ASSUME op'[c].pc = "complete", op[c].pc = "idle"
             PROVE  LET o == op'[c]
                    IN  /\ o.reps \subseteq o.sources
                        /\ \A s \in o.sources :
                             s \in o.reps \/ \E t \in o.reps : AlikeSlots(s, t) /\ Newer(t, s)
                        /\ \A s, t \in o.reps : s # t => ~AlikeSlots(s, t)
  BY DEF SaysEverything
<1>1. CallsOK /\ StoreOK
  BY InvSplit
<1>2. op'[c] # op[c]
  OBVIOUS
<1>3. ASSUME NEW o, op' = [op EXCEPT ![c] = o], o.pc = "embed" PROVE FALSE
  BY <1>1, <1>3, OneCall
<1>4. ~PutBegin(c) /\ ~Remember(c)
  <2> SUFFICES ASSUME PutBegin(c) \/ Remember(c) PROVE FALSE
    OBVIOUS
  <2>1. PICK w, a, k, x, t, i : op' = [op EXCEPT ![c] = PutRequest(w, i, a, k, x, t)]
    BY DEF PutBegin, Remember
  <2>2. PutRequest(w, i, a, k, x, t).pc = "embed"
    BY DEF PutRequest, Idle
  <2> QED
    BY <1>3, <2>1, <2>2
<1>5. ~SearchBegin(c) /\ ~Recall(c)
  <2> SUFFICES ASSUME SearchBegin(c) \/ Recall(c) PROVE FALSE
    OBVIOUS
  <2>1. PICK w, a, kd, k, th : op' = [op EXCEPT ![c] = SearchRequest(w, a, kd, k, th)]
    BY DEF SearchBegin, Recall
  <2>2. SearchRequest(w, a, kd, k, th).pc = "embed"
    BY DEF SearchRequest, Idle
  <2> QED
    BY <1>3, <2>1, <2>2
<1>6. Consolidate(c)
  BY <1>2, <1>4, <1>5, OwnStep DEF EmbedFails, PutEmbedded, PutStore, Rank, Filter, SearchReturns,
     Summarised, CompletionFails
<1>7. PICK w \in Workspaces, a \in Agents, kd \in Kinds :
        Summarises(c, [NoReq EXCEPT !.name = "Consolidate", !.ws = w, !.agent = a, !.kind = kd])
  BY <1>6 DEF Consolidate
<1> DEFINE r == [NoReq EXCEPT !.name = "Consolidate", !.ws = w, !.agent = a, !.kind = kd]
           S == List(r)
           K == dedupe(S)
           o == [Idle EXCEPT !.pc = "complete", !.req = r, !.sources = S, !.reps = K]
<1>8. op' = [op EXCEPT ![c] = o]
  <2>1. op' # op
    BY <1>2
  <2> QED
    BY <1>7, <2>1 DEF Summarises
<1>9. S \subseteq Present /\ \A s \in S : s[1] = r.ws
  BY DEF List, Live, Present
<1> HIDE DEF r, S
<1>10. IsFiniteSet(S)
  BY <1>9, FS_Subset DEF FoundInv
<1>11. /\ K \subseteq S
       /\ \A s \in S : s \in K \/ \E t \in K : AlikeSlots(s, t) /\ Newer(t, s)
       /\ \A s, t \in K : s # t => ~AlikeSlots(s, t)
  BY <1>1, <1>9, <1>10, DedupeRight
<1> HIDE DEF K
<1>12. o.sources = S /\ o.reps = K
  BY DEF Idle
<1> HIDE DEF o
<1>13. op'[c].sources = S /\ op'[c].reps = K
  BY <1>1, <1>8, <1>12, OneCall
<1> QED
  BY <1>11, <1>13

(* Consolidation destroys no live memory, leaves none unsaid and says none *)
(* twice: dedupe is right for every set of memories and every symmetric    *)
(* likeness of texts.                                                      *)
THEOREM ConsolidationCorrect == Spec => ConsolidationSound
<1>1. Inv /\ FoundInv /\ [Next]_vars =>
        [\A c \in Clients : LeavesMemories(c) /\ SaysEverything(c)]_vars
  BY ConsolidationStep, ConsolidateSays
<1> QED
  BY <1>1, Invariance, FoundAlways, PTL DEF Spec, ConsolidationSound

-----------------------------------------------------------------------------
(* The vector store.  First, sums, and the inequality of Cauchy and Schwarz. *)

(* The partial sums of s. *)
IsSum(sum, s) ==
  /\ sum[0] = 0
  /\ \A i \in 1..Len(s) : sum[i] = sum[i - 1] + s[i]
  /\ Total(s) = sum[Len(s)]

LEMMA TotalSum ==
  ASSUME NEW s \in Seq(Int)
  PROVE  \E sum \in [0..Len(s) -> Int] : IsSum(sum, s)
<1> DEFINE n == Len(s)
           G == [i \in 1..n |-> [x \in Int |-> x + s[i]]]
           Rec(f) == f = [i \in 0..n |-> IF i = 0 THEN 0 ELSE f[i - 1] + s[i]]
           sum == CHOOSE f : Rec(f)
<1>1. n \in Nat /\ \A i \in 1..n : s[i] \in Int
  OBVIOUS
<1>2. Total(s) = sum[n]
  BY DEF Total
<1> HIDE DEF n
<1>3. G \in [1..n -> [Int -> Int]]
  BY <1>1
<1>4. PICK f \in [0..n -> Int] : DefinedBy(f, n, 0, G)
  <2> HIDE DEF G
  <2>1. 0 \in Int
    OBVIOUS
  <2> QED
    BY <1>1, <1>3, <2>1, Recursion, Zenon
<1>5. ASSUME NEW i \in 1..n PROVE f[i] = f[i - 1] + s[i]
  <2>1. i - 1 \in 0..n
    BY <1>1
  <2>2. f[i - 1] \in Int
    BY <2>1
  <2> QED
    BY <1>4, <2>2 DEF DefinedBy
<1>6. Rec(f)
  <2>1. ASSUME NEW i \in 0..n PROVE f[i] = IF i = 0 THEN 0 ELSE f[i - 1] + s[i]
    <3>1. CASE i = 0
      BY <1>4, <3>1 DEF DefinedBy
    <3>2. CASE i # 0
      <4>1. i \in 1..n
        BY <1>1, <3>2
      <4> QED
        BY <1>5, <3>2, <4>1
    <3> QED
      BY <3>1, <3>2
  <2> QED
    BY <2>1
<1>7. Rec(sum)
  <2> HIDE DEF Rec
  <2> QED
    BY <1>6
<1> HIDE DEF sum
<1>8. sum[0] = 0
  BY <1>1, <1>7
<1>9. ASSUME NEW i \in 1..n PROVE sum[i] = sum[i - 1] + s[i]
  <2>1. i \in 0..n /\ i # 0
    BY <1>1
  <2> QED
    BY <1>7, <2>1
<1>10. \A i \in 0..n : sum[i] \in Int
  <2>1. ASSUME NEW i \in 1..n, sum[i - 1] \in Int PROVE sum[i] \in Int
    <3>1. sum[i] = sum[i - 1] + s[i] /\ s[i] \in Int
      BY <1>1, <1>9
    <3> QED
      BY <2>1, <3>1
  <2>2. sum[0] \in Int
    BY <1>8
  <2> QED
    BY <1>1, <2>1, <2>2, StaysIn
<1>11. sum \in [0..n -> Int]
  BY <1>7, <1>10
<1>12. IsSum(sum, s)
  BY <1>2, <1>8, <1>9 DEF IsSum, n
<1> QED
  BY <1>11, <1>12 DEF n

LEMMA TotalType ==
  ASSUME NEW s \in Seq(Int) PROVE Total(s) \in Int
<1>1. PICK sum \in [0..Len(s) -> Int] : IsSum(sum, s)
  BY TotalSum
<1>2. Len(s) \in 0..Len(s)
  OBVIOUS
<1> QED
  BY <1>1, <1>2 DEF IsSum

(* A sum of natural numbers is one, and 0 only if they all are 0. *)
LEMMA TotalNat ==
  ASSUME NEW s \in Seq(Nat) PROVE Total(s) \in Nat
<1>1. s \in Seq(Int)
  OBVIOUS
<1>2. PICK sum \in [0..Len(s) -> Int] : IsSum(sum, s)
  BY <1>1, TotalSum
<1> DEFINE n == Len(s)
<1>3. n \in Nat /\ n \in 0..n
  OBVIOUS
<1>4. \A i \in 0..n : sum[i] \in Nat
  <2>1. sum[0] \in Nat
    BY <1>2 DEF IsSum
  <2>2. ASSUME NEW i \in 1..n, sum[i - 1] \in Nat PROVE sum[i] \in Nat
    <3>1. sum[i] = sum[i - 1] + s[i] /\ s[i] \in Nat
      BY <1>2 DEF IsSum
    <3> QED
      BY <2>2, <3>1
  <2> HIDE DEF n
  <2> QED
    BY <1>3, <2>1, <2>2, StaysIn
<1> QED
  BY <1>2, <1>3, <1>4 DEF IsSum

(* The products and the squares that are summed up. *)
Products(a, b) == [i \in 1..Len(a) |-> a[i] * b[i]]
Combined(a, b, t, u) == [i \in 1..Len(a) |-> (t * a[i] - u * b[i]) * (t * a[i] - u * b[i])]

LEMMA ProductsType ==
  ASSUME NEW a \in Seq(Int), NEW b \in Seq(Int), Len(b) = Len(a)
  PROVE  Products(a, b) \in Seq(Int) /\ Len(Products(a, b)) = Len(a)
<1>1. Len(a) \in Nat /\ \A i \in 1..Len(a) : a[i] \in Int /\ b[i] \in Int
  OBVIOUS
<1>2. \A i \in 1..Len(a) : a[i] * b[i] \in Int
  BY <1>1
<1> QED
  BY <1>1, <1>2 DEF Products

LEMMA SquareNat ==
  ASSUME NEW x \in Int PROVE x * x \in Nat
OBVIOUS

LEMMA CombinedType ==
  ASSUME NEW a \in Seq(Int), NEW b \in Seq(Int), Len(b) = Len(a), NEW t \in Int, NEW u \in Int
  PROVE  Combined(a, b, t, u) \in Seq(Nat) /\ Len(Combined(a, b, t, u)) = Len(a)
<1>1. Len(a) \in Nat /\ \A i \in 1..Len(a) : a[i] \in Int /\ b[i] \in Int
  OBVIOUS
<1>2. ASSUME NEW i \in 1..Len(a)
      PROVE  (t * a[i] - u * b[i]) * (t * a[i] - u * b[i]) \in Nat
  <2>1. t * a[i] - u * b[i] \in Int
    BY <1>1
  <2> QED
    BY <2>1, SquareNat
<1> QED
  BY <1>1, <1>2 DEF Combined

(* (t a - u b)^2, expanded. *)
LEMMA SquareExpands ==
  ASSUME NEW a \in Int, NEW b \in Int, NEW t \in Int, NEW u \in Int
  PROVE  (t * a - u * b) * (t * a - u * b) = t * t * (a * a) - 2 * t * u * (a * b) + u * u * (b * b)
OBVIOUS

LEMMA CombinedTotal ==
  ASSUME NEW a \in Seq(Int), NEW b \in Seq(Int), Len(b) = Len(a), NEW t \in Int, NEW u \in Int
  PROVE  Total(Combined(a, b, t, u)) =
           t * t * Dot(a, a) - 2 * t * u * Dot(a, b) + u * u * Dot(b, b)
<1> DEFINE n == Len(a)
           s == Combined(a, b, t, u)
           A == Products(a, a)
           C == Products(a, b)
           B == Products(b, b)
<1>1. n \in Nat /\ n \in 0..n /\ \A i \in 1..n : a[i] \in Int /\ b[i] \in Int
  OBVIOUS
<1>2. /\ s \in Seq(Int) /\ Len(s) = n /\ A \in Seq(Int) /\ Len(A) = n
      /\ C \in Seq(Int) /\ Len(C) = n /\ B \in Seq(Int) /\ Len(B) = n
  <2>1. s \in Seq(Nat) /\ Len(s) = n
    BY CombinedType
  <2>2. s \in Seq(Int)
    <3> HIDE DEF s
    <3> QED
      BY <2>1
  <2> QED
    BY <2>1, <2>2, ProductsType
<1>3. \A i \in 1..n :
        /\ s[i] = (t * a[i] - u * b[i]) * (t * a[i] - u * b[i])
        /\ A[i] = a[i] * a[i] /\ C[i] = a[i] * b[i] /\ B[i] = b[i] * b[i]
  BY DEF Combined, Products
<1>4. Dot(a, a) = Total(A) /\ Dot(a, b) = Total(C) /\ Dot(b, b) = Total(B)
  BY DEF Dot, Products
<1> HIDE DEF n, s, A, B, C
<1>5. PICK ss \in [0..n -> Int] : IsSum(ss, s)
  BY <1>2, TotalSum
<1>6. PICK sa \in [0..n -> Int] : IsSum(sa, A)
  BY <1>2, TotalSum
<1>7. PICK sc \in [0..n -> Int] : IsSum(sc, C)
  BY <1>2, TotalSum
<1>8. PICK sb \in [0..n -> Int] : IsSum(sb, B)
  BY <1>2, TotalSum
<1> DEFINE Sum(x, z, y) == t * t * x - 2 * t * u * z + u * u * y
           T == {i \in 0..n : ss[i] = Sum(sa[i], sc[i], sb[i])}
<1>9. 0 \in T
  BY <1>1, <1>2, <1>5, <1>6, <1>7, <1>8 DEF IsSum
<1>10. ASSUME NEW i \in 0..(n - 1), i \in T PROVE i + 1 \in T
  <2> DEFINE k == i + 1
  <2>1. k \in 1..n /\ k \in 0..n /\ k - 1 = i /\ i \in 0..n
    BY <1>1
  <2> HIDE DEF k
  <2>2. /\ ss[k] = ss[i] + s[k] /\ sa[k] = sa[i] + A[k]
        /\ sc[k] = sc[i] + C[k] /\ sb[k] = sb[i] + B[k]
    BY <1>2, <1>5, <1>6, <1>7, <1>8, <2>1 DEF IsSum
  <2>a. sa[i] \in Int /\ sc[i] \in Int /\ sb[i] \in Int
    BY <2>1
  <2>b. A[k] \in Int /\ B[k] \in Int /\ C[k] \in Int
    <3>1. \A q \in Seq(Int) : Len(q) = n => q[k] \in Int
      BY <2>1
    <3> QED
      BY <1>2, <3>1
  <2>3. /\ sa[i] \in Int /\ sc[i] \in Int /\ sb[i] \in Int
        /\ A[k] \in Int /\ B[k] \in Int /\ C[k] \in Int
    BY <2>a, <2>b
  <2>4. s[k] = Sum(A[k], C[k], B[k])
    <3>0. a[k] \in Int /\ b[k] \in Int /\ s[k] = (t * a[k] - u * b[k]) * (t * a[k] - u * b[k])
      BY <1>1, <1>3, <2>1
    <3>1. s[k] = t * t * (a[k] * a[k]) - 2 * t * u * (a[k] * b[k]) + u * u * (b[k] * b[k])
      <4> DEFINE x == a[k]
                 y == b[k]
      <4>1. x \in Int /\ y \in Int /\ s[k] = (t * x - u * y) * (t * x - u * y)
        BY <3>0
      <4> SUFFICES s[k] = t * t * (x * x) - 2 * t * u * (x * y) + u * u * (y * y)
        OBVIOUS
      <4> HIDE DEF x, y
      <4>2. (t * x - u * y) * (t * x - u * y) = t * t * (x * x) - 2 * t * u * (x * y) + u * u * (y * y)
        BY <4>1, SquareExpands
      <4> QED
        BY <4>1, <4>2
    <3> QED
      BY <1>3, <2>1, <3>1
  <2>5. ss[i] = Sum(sa[i], sc[i], sb[i])
    BY <1>10
  <2> HIDE DEF Sum
  <2>6. Sum(sa[k], sc[k], sb[k]) = Sum(sa[i], sc[i], sb[i]) + Sum(A[k], C[k], B[k])
    <3> DEFINE x == sa[i]
               y == sb[i]
               z == sc[i]
               p == A[k]
               q == C[k]
               r == B[k]
    <3>1. x \in Int /\ y \in Int /\ z \in Int /\ p \in Int /\ q \in Int /\ r \in Int
      BY <2>3
    <3>2. Sum(sa[k], sc[k], sb[k]) = Sum(x + p, z + q, y + r)
      BY <2>2
    <3> HIDE DEF x, y, z, p, q, r
    <3>3. Sum(x + p, z + q, y + r) = Sum(x, z, y) + Sum(p, q, r)
      BY <3>1 DEF Sum
    <3> QED
      BY <3>2, <3>3, Zenon DEF x, y, z, p, q, r
  <2> QED
    BY <2>1, <2>2, <2>4, <2>5, <2>6 DEF k
<1>11. n \in T
  <2> HIDE DEF T
  <2>1. 0..n \subseteq T
    BY <1>1, <1>9, <1>10, UpTo
  <2> QED
    BY <1>1, <2>1
<1> QED
  BY <1>2, <1>4, <1>5, <1>6, <1>7, <1>8, <1>11 DEF IsSum, s

LEMMA DotType ==
  ASSUME NEW a \in Seq(Int), NEW b \in Seq(Int), Len(b) = Len(a)
  PROVE  Dot(a, b) \in Int /\ Dot(a, a) \in Nat
<1>1. Dot(a, b) = Total(Products(a, b)) /\ Dot(a, a) = Total(Products(a, a))
  BY DEF Dot, Products
<1>2. Dot(a, b) \in Int
  BY <1>1, ProductsType, TotalType
<1>3. Products(a, a) \in Seq(Nat)
  <2>1. Len(a) \in Nat /\ \A i \in 1..Len(a) : a[i] \in Int
    OBVIOUS
  <2>2. \A i \in 1..Len(a) : a[i] * a[i] \in Nat
    BY <2>1, SquareNat
  <2> QED
    BY <2>1, <2>2 DEF Products
<1> QED
  BY <1>1, <1>2, <1>3, TotalNat

LEMMA DistanceType ==
  ASSUME NEW a \in Seq(Int), NEW b \in Seq(Int), Len(b) = Len(a)
  PROVE  SquaredDistance(a, b) \in Nat
<1> DEFINE s == [i \in 1..Len(a) |-> (a[i] - b[i]) * (a[i] - b[i])]
<1>1. Len(a) \in Nat /\ \A i \in 1..Len(a) : a[i] - b[i] \in Int
  OBVIOUS
<1>2. \A i \in 1..Len(a) : (a[i] - b[i]) * (a[i] - b[i]) \in Nat
  BY <1>1, SquareNat
<1>3. s \in Seq(Nat)
  BY <1>1, <1>2
<1>4. SquaredDistance(a, b) = Total(s)
  BY DEF SquaredDistance
<1> HIDE DEF s
<1> QED
  BY <1>3, <1>4, TotalNat

(* What is used of multiplication. *)
LEMMA Cancel ==
  ASSUME NEW x \in Int, NEW y \in Int, NEW c \in Nat \ {0}
  PROVE  (x * c < y * c <=> x < y) /\ (x * c = y * c <=> x = y)
OBVIOUS

LEMMA Grows ==
  ASSUME NEW x \in Nat, NEW y \in Nat, x < y PROVE x * x < y * y
<1>1. x * x <= x * y
  OBVIOUS
<1>2. x * y < y * y
  OBVIOUS
<1> QED
  BY <1>1, <1>2

LEMMA CauchySchwarz ==
  ASSUME NEW a \in Seq(Int), NEW b \in Seq(Int), Len(b) = Len(a), Dot(b, b) # 0
  PROVE  Dot(a, b) * Dot(a, b) <= Dot(a, a) * Dot(b, b)
<1> DEFINE A == Dot(a, a)
           B == Dot(b, b)
           C == Dot(a, b)
<1>1. A \in Nat /\ B \in Nat \ {0} /\ C \in Int
  BY DotType
<1>2. B * B * A - 2 * B * C * C + C * C * B \in Nat
  <2>1. ASSUME NEW t \in Int, NEW u \in Int PROVE t * t * A - 2 * t * u * C + u * u * B \in Nat
    <3>1. Total(Combined(a, b, t, u)) \in Nat
      BY CombinedType, TotalNat
    <3> QED
      BY <3>1, CombinedTotal
  <2> HIDE DEF A, B, C
  <2>2. B \in Int
    BY <1>1
  <2> QED
    BY <1>1, <2>1, <2>2
<1> SUFFICES C * C <= A * B
  OBVIOUS
<1> HIDE DEF A, B, C
<1>3. B * B * A - 2 * B * C * C + C * C * B = (A * B - C * C) * B
  BY <1>1
<1>4. A * B - C * C \in Int
  BY <1>1
<1>5. ~((A * B - C * C) * B < 0 * B)
  BY <1>1, <1>2, <1>3
<1>6. ~(A * B - C * C < 0)
  <2> DEFINE x == A * B - C * C
  <2>1. x \in Int /\ ~(x * B < 0 * B)
    BY <1>4, <1>5
  <2> HIDE DEF x
  <2>2. ~(x < 0)
    BY <1>1, <2>1, Cancel
  <2> QED
    BY <2>2 DEF x
<1> QED
  BY <1>1, <1>4, <1>6

LEMMA Root ==
  ASSUME NEW x \in Nat, IsSquare(x)
  PROVE  Sqrt(x) \in Nat /\ Sqrt(x) * Sqrt(x) = x
<1>1. Sqrt(x) \in 0..x /\ Sqrt(x) * Sqrt(x) = x
  BY DEF Sqrt, IsSquare
<1> QED
  BY <1>1

-----------------------------------------------------------------------------
(* Fractions, and the order of results. *)

Fractions == [num : Int, den : Nat \ {0}]

LEMMA CrossOrder ==
  ASSUME NEW a \in Int, NEW b \in Int, NEW c \in Int,
         NEW p \in Nat \ {0}, NEW q \in Nat \ {0}, NEW r \in Nat \ {0}
  PROVE  /\ a * q < b * p /\ b * r < c * q => a * r < c * p
         /\ a * q < b * p /\ b * r = c * q => a * r < c * p
         /\ a * q = b * p /\ b * r < c * q => a * r < c * p
         /\ a * q = b * p /\ b * r = c * q => a * r = c * p
<1>1. /\ a * q < b * p => (a * q) * r < (b * p) * r
      /\ a * q = b * p => (a * q) * r = (b * p) * r
      /\ b * r < c * q => (b * r) * p < (c * q) * p
      /\ b * r = c * q => (b * r) * p = (c * q) * p
  <2>1. ASSUME NEW x \in Int, NEW y \in Int, NEW z \in Nat \ {0}
        PROVE  (x < y => x * z < y * z) /\ (x = y => x * z = y * z)
    BY Cancel
  <2>2. a * q \in Int /\ b * p \in Int /\ b * r \in Int /\ c * q \in Int
    OBVIOUS
  <2> QED
    BY <2>1, <2>2
<1>2. (a * q) * r = (a * r) * q /\ (b * p) * r = (b * r) * p /\ (c * q) * p = (c * p) * q
  OBVIOUS
<1>3. (a * q) * r \in Int /\ (b * r) * p \in Int /\ (c * q) * p \in Int
  OBVIOUS
<1>4. a * r \in Int /\ c * p \in Int
  OBVIOUS
<1>5. ((a * r) * q < (c * p) * q => a * r < c * p) /\ ((a * r) * q = (c * p) * q => a * r = c * p)
  BY <1>4, Cancel
<1> QED
  BY <1>1, <1>2, <1>3, <1>5

LEMMA FractionOrder ==
  ASSUME NEW x \in Fractions, NEW y \in Fractions, NEW z \in Fractions
  PROVE  /\ ~Less(x, x) /\ Equal(x, x)
         /\ Less(x, y) \/ Less(y, x) \/ Equal(x, y)
         /\ ~(Less(x, y) /\ Less(y, x)) /\ ~(Less(x, y) /\ Equal(x, y))
         /\ Equal(x, y) <=> Equal(y, x)
         /\ Less(x, y) /\ Less(y, z) => Less(x, z)
         /\ Less(x, y) /\ Equal(y, z) => Less(x, z)
         /\ Equal(x, y) /\ Less(y, z) => Less(x, z)
         /\ Equal(x, y) /\ Equal(y, z) => Equal(x, z)
<1> DEFINE a == x.num
           b == y.num
           c == z.num
           p == x.den
           q == y.den
           r == z.den
<1>1. /\ a \in Int /\ b \in Int /\ c \in Int
      /\ p \in Nat \ {0} /\ q \in Nat \ {0} /\ r \in Nat \ {0}
  BY DEF Fractions
<1>2. /\ Less(x, y) <=> a * q < b * p
      /\ Less(y, x) <=> b * p < a * q
      /\ Less(x, x) <=> a * p < a * p
      /\ Less(y, z) <=> b * r < c * q
      /\ Less(x, z) <=> a * r < c * p
      /\ Equal(x, y) <=> a * q = b * p
      /\ Equal(y, x) <=> b * p = a * q
      /\ Equal(x, x) <=> a * p = a * p
      /\ Equal(y, z) <=> b * r = c * q
      /\ Equal(x, z) <=> a * r = c * p
  BY DEF Less, Equal
<1> HIDE DEF a, b, c, p, q, r
<1>3. a * q \in Int /\ b * p \in Int /\ a * p \in Int
  BY <1>1
<1>4. ~Less(x, x) /\ Equal(x, x)
  BY <1>2, <1>3
<1>5. Less(x, y) \/ Less(y, x) \/ Equal(x, y)
  BY <1>2, <1>3
<1>6. ~(Less(x, y) /\ Less(y, x)) /\ ~(Less(x, y) /\ Equal(x, y)) /\ (Equal(x, y) <=> Equal(y, x))
  BY <1>2, <1>3
<1>7. /\ a * q < b * p /\ b * r < c * q => a * r < c * p
      /\ a * q < b * p /\ b * r = c * q => a * r < c * p
      /\ a * q = b * p /\ b * r < c * q => a * r < c * p
      /\ a * q = b * p /\ b * r = c * q => a * r = c * p
  BY <1>1, CrossOrder
<1> QED
  BY <1>2, <1>4, <1>5, <1>6, <1>7

(* The order a search sorts by. *)
Ranking(scores, higher) ==
  {p \in (DOMAIN scores) \X (DOMAIN scores) : Precedes(scores, higher, p[1], p[2])}

(* Scores that can be ranked. *)
Rankable(scores) ==
  /\ IsFiniteSet(DOMAIN scores) /\ DOMAIN scores \subseteq Int
  /\ \A i \in DOMAIN scores : scores[i] \in Fractions

LEMMA RankingStrict ==
  ASSUME NEW scores, Rankable(scores), NEW higher
  PROVE  StrictOrder(DOMAIN scores, Ranking(scores, higher))
<1> DEFINE D == DOMAIN scores
           R == Ranking(scores, higher)
           Pr(i, j) == Precedes(scores, higher, i, j)
<1>1. \A i \in D : i \in Int /\ scores[i] \in Fractions
  BY DEF Rankable
<1>2. \A i, j \in D : <<i, j>> \in R <=> Pr(i, j)
  BY DEF Ranking
<1>3. ASSUME NEW i \in D PROVE ~Pr(i, i)
  <2>1. ~Less(scores[i], scores[i]) /\ ~(i < i)
    BY <1>1, FractionOrder
  <2> QED
    BY <2>1 DEF Precedes
<1>4. ASSUME NEW i \in D, NEW j \in D, NEW k \in D, Pr(i, j), Pr(j, k) PROVE Pr(i, k)
  <2> DEFINE x == scores[i]
             y == scores[j]
             z == scores[k]
  <2>1. x \in Fractions /\ y \in Fractions /\ z \in Fractions /\ i \in Int /\ j \in Int /\ k \in Int
    BY <1>1
  <2>2. /\ IF higher THEN Less(y, x) \/ (Equal(x, y) /\ i < j) ELSE Less(x, y) \/ (Equal(x, y) /\ i < j)
        /\ IF higher THEN Less(z, y) \/ (Equal(y, z) /\ j < k) ELSE Less(y, z) \/ (Equal(y, z) /\ j < k)
    BY <1>4 DEF Precedes
  <2> SUFFICES IF higher THEN Less(z, x) \/ (Equal(x, z) /\ i < k) ELSE Less(x, z) \/ (Equal(x, z) /\ i < k)
    BY DEF Precedes
  <2> HIDE DEF x, y, z
  <2>3. /\ Less(x, y) /\ Less(y, z) => Less(x, z)
        /\ Less(x, y) /\ Equal(y, z) => Less(x, z)
        /\ Equal(x, y) /\ Less(y, z) => Less(x, z)
        /\ Equal(x, y) /\ Equal(y, z) => Equal(x, z)
    BY <2>1, FractionOrder
  <2>4. /\ Less(z, y) /\ Less(y, x) => Less(z, x)
        /\ Less(z, y) /\ Equal(y, x) => Less(z, x)
        /\ Equal(z, y) /\ Less(y, x) => Less(z, x)
    BY <2>1, FractionOrder
  <2>5. (Equal(x, y) <=> Equal(y, x)) /\ (Equal(y, z) <=> Equal(z, y))
    BY <2>1, FractionOrder
  <2>6. i < j /\ j < k => i < k
    BY <2>1
  <2> QED
    BY <2>2, <2>3, <2>4, <2>5, <2>6
<1>5. ASSUME NEW i \in D, NEW j \in D, i # j PROVE Pr(i, j) \/ Pr(j, i)
  <2>1. /\ Less(scores[i], scores[j]) \/ Less(scores[j], scores[i]) \/ Equal(scores[i], scores[j])
        /\ Equal(scores[i], scores[j]) <=> Equal(scores[j], scores[i])
    BY <1>1, FractionOrder
  <2>2. i < j \/ j < i
    BY <1>1, <1>5
  <2> QED
    BY <2>1, <2>2 DEF Precedes
<1> HIDE DEF D, R, Pr
<1>6. StrictOrder(D, R)
  BY <1>2, <1>3, <1>4, <1>5 DEF StrictOrder
<1> QED
  BY <1>6 DEF D, R

(* f holds, for each place up to the k-th, the id that belongs there. *)
BestOf(f, D, R, k) ==
  LET n == Smaller(k, Cardinality(D))
  IN  /\ n \in Nat
      /\ f = [r \in 1..n |-> f[r]]
      /\ \A r \in 1..n : f[r] \in D /\ Cardinality(Above(f[r], D, R)) = r - 1

LEMMA SearchBest ==
  ASSUME NEW ns, NEW q, NEW m, NEW k \in Nat \ {0}, Rankable(Scores(ns, q, m))
  PROVE  BestOf(Search(ns, q, k, m), DOMAIN Scores(ns, q, m),
                Ranking(Scores(ns, q, m), HigherIsBetter(q, m)), k)
<1> DEFINE scores == Scores(ns, q, m)
           h == HigherIsBetter(q, m)
           D == DOMAIN scores
           R == Ranking(scores, h)
           n == Smaller(k, Cardinality(D))
           f == Search(ns, q, k, m)
           Place(i) == 1 + Cardinality({j \in D : Precedes(scores, h, j, i)})
<1>1. f = [r \in 1..n |-> CHOOSE i \in D : Place(i) = r]
  BY DEF Search
<1>2. ASSUME NEW i \in D PROVE {j \in D : Precedes(scores, h, j, i)} = Above(i, D, R)
  BY DEF Above, Ranking
<1>3. IsFiniteSet(D) /\ StrictOrder(D, R)
  BY RankingStrict DEF Rankable
<1>4. Cardinality(D) \in Nat /\ \A i \in 1..Cardinality(D) : \E s \in D : Cardinality(Above(s, D, R)) = i - 1
  <2> HIDE DEF D, R
  <2> QED
    BY <1>3, Places
<1>5. n \in Nat /\ n <= Cardinality(D)
  <2> HIDE DEF D
  <2> QED
    BY <1>4 DEF Smaller
<1>6. \A s \in D : Cardinality(Above(s, D, R)) \in Nat
  <2> TAKE s \in D
  <2>1. Above(s, D, R) \in SUBSET D
    BY DEF Above
  <2> HIDE DEF D, R
  <2> QED
    BY <1>3, <2>1, FS_Subset, FS_CardinalityType
<1> HIDE DEF D, R, n, f, h, scores
<1>7. ASSUME NEW r \in 1..n PROVE f[r] \in D /\ Cardinality(Above(f[r], D, R)) = r - 1
  <2> DEFINE P(i) == Place(i) = r
  <2>1. r \in 1..Cardinality(D)
    BY <1>4, <1>5
  <2>2. PICK s \in D : Cardinality(Above(s, D, R)) = r - 1
    BY <1>4, <2>1
  <2>3. P(s)
    BY <1>2, <2>2
  <2>4. f[r] = CHOOSE i \in D : P(i)
    BY <1>1
  <2>5. f[r] \in D /\ P(f[r])
    <3> HIDE DEF P
    <3> QED
      BY <2>3, <2>4
  <2>6. Place(f[r]) = 1 + Cardinality(Above(f[r], D, R))
    BY <1>2, <2>5
  <2>7. Cardinality(Above(f[r], D, R)) \in Nat
    BY <1>6, <2>5
  <2> QED
    BY <2>5, <2>6, <2>7
<1>8. f = [r \in 1..n |-> f[r]]
  <2> DEFINE F(r) == CHOOSE i \in D : Place(i) = r
  <2>1. f = [r \in 1..n |-> F(r)]
    BY <1>1
  <2> HIDE DEF F
  <2> QED
    BY <2>1
<1>9. BestOf(f, D, R, k)
  BY <1>5, <1>7, <1>8 DEF BestOf, n
<1> QED
  BY <1>9 DEF f, D, R, h, scores

(* There is only one such list. *)
LEMMA BestUnique ==
  ASSUME NEW D, NEW R, NEW k, NEW f, NEW g, IsFiniteSet(D), StrictOrder(D, R),
         BestOf(f, D, R, k), BestOf(g, D, R, k)
  PROVE  f = g
<1> DEFINE n == Smaller(k, Cardinality(D))
<1>1. \A s, t \in D : Cardinality(Above(s, D, R)) = Cardinality(Above(t, D, R)) => s = t
  BY Places
<1>2. /\ f = [r \in 1..n |-> f[r]] /\ g = [r \in 1..n |-> g[r]]
      /\ \A r \in 1..n : f[r] \in D /\ Cardinality(Above(f[r], D, R)) = r - 1
      /\ \A r \in 1..n : g[r] \in D /\ Cardinality(Above(g[r], D, R)) = r - 1
  BY DEF BestOf
<1> HIDE DEF n
<1>3. \A r \in 1..n : f[r] = g[r]
  BY <1>1, <1>2
<1> QED
  BY <1>2, <1>3, Zenon

(* Searches that rank the same ids in the same order find the same. *)
LEMMA SameSearch ==
  ASSUME NEW ns1, NEW q1, NEW m1, NEW ns2, NEW q2, NEW m2, NEW k \in Int,
         Rankable(Scores(ns1, q1, m1)), Rankable(Scores(ns2, q2, m2)),
         DOMAIN Scores(ns1, q1, m1) = DOMAIN Scores(ns2, q2, m2),
         Ranking(Scores(ns1, q1, m1), HigherIsBetter(q1, m1))
           = Ranking(Scores(ns2, q2, m2), HigherIsBetter(q2, m2))
  PROVE  Search(ns1, q1, k, m1) = Search(ns2, q2, k, m2)
<1> DEFINE D == DOMAIN Scores(ns1, q1, m1)
           R == Ranking(Scores(ns1, q1, m1), HigherIsBetter(q1, m1))
           f == Search(ns1, q1, k, m1)
           g == Search(ns2, q2, k, m2)
<1>0. CASE k <= 0
  BY <1>0 DEF Search
<1> SUFFICES ASSUME k > 0 PROVE f = g
  BY <1>0
<1>1. BestOf(f, D, R, k)
  BY SearchBest
<1>2. BestOf(g, D, R, k)
  <2>1. BestOf(g, DOMAIN Scores(ns2, q2, m2), Ranking(Scores(ns2, q2, m2), HigherIsBetter(q2, m2)), k)
    BY SearchBest
  <2> QED
    BY <2>1
<1>3. IsFiniteSet(D) /\ StrictOrder(D, R)
  BY RankingStrict DEF Rankable
<1>4. f = g
  <2> HIDE DEF f, g, D, R
  <2> QED
    BY <1>1, <1>2, <1>3, BestUnique
<1> QED
  BY <1>4

-----------------------------------------------------------------------------
(* What the scores of a search are. *)

Raw(a, b, m) == CHOOSE x \in rawScore(a, b, m) : TRUE

(* What a namespace holds. *)
Stored(ns) ==
  /\ IsFiniteSet(DOMAIN ns) /\ DOMAIN ns \subseteq VectorIds
  /\ \A i \in DOMAIN ns : ns[i] \in Entries

(* The ids that get a score. *)
Matching(ns, v, f, m) ==
  {i \in DOMAIN ns : /\ matchesFilter(ns[i].metadata, f)
                     /\ Len(ns[i].vector) = Len(v)
                     /\ rawScore(v, ns[i].vector, m) # {}}

LEMMA ScoresPure ==
  ASSUME NEW ns, NEW v, NEW f, NEW m
  PROVE  Scores(ns, Query(v, f, {}), m) = [id \in Matching(ns, v, f, m) |-> Raw(v, ns[id].vector, m)]
BY DEF Scores, Query, Matching, Raw

LEMMA ScoresHybrid ==
  ASSUME NEW ns, NEW v, NEW f, NEW m, NEW w, NEW al
  PROVE  Scores(ns, Query(v, f, Weighing(w, al)), m) =
           [id \in Matching(ns, v, f, m) |->
              Blend(Fraction(al, 2), normalizeForBlend(Raw(v, ns[id].vector, m), m),
                    keywordScore(w, ns[id].text))]
<1> DEFINE q == Query(v, f, Weighing(w, al))
           r == [words |-> w, alpha |-> Fraction(al, 2)]
           h == CHOOSE x \in q.hybrid : TRUE
<1>1. q.vector = v /\ q.filter = f /\ q.hybrid = {r} /\ q.hybrid # {}
  BY DEF Query, Weighing
<1>2. h = r
  BY <1>1
<1>3. h.words = w /\ h.alpha = Fraction(al, 2)
  <2> HIDE DEF h
  <2> QED
    BY <1>2
<1>4. Scores(ns, q, m) =
        [id \in {i \in DOMAIN ns : /\ matchesFilter(ns[i].metadata, q.filter)
                                   /\ Len(ns[i].vector) = Len(q.vector)
                                   /\ rawScore(q.vector, ns[i].vector, m) # {}} |->
           IF q.hybrid = {} THEN CHOOSE x \in rawScore(q.vector, ns[id].vector, m) : TRUE
           ELSE Blend(h.alpha, normalizeForBlend(CHOOSE x \in rawScore(q.vector, ns[id].vector, m) : TRUE, m),
                      keywordScore(h.words, ns[id].text))]
  BY DEF Scores
<1> HIDE DEF q, h, r
<1>5. Scores(ns, q, m) =
        [id \in Matching(ns, v, f, m) |->
           Blend(h.alpha, normalizeForBlend(Raw(v, ns[id].vector, m), m),
                      keywordScore(h.words, ns[id].text))]
  BY <1>1, <1>4 DEF Matching, Raw
<1> QED
  BY <1>3, <1>5 DEF q

LEMMA RawType ==
  ASSUME NEW v \in QueryVectors, NEW e \in Entries, NEW m \in Metrics,
         Len(e.vector) = Len(v), rawScore(v, e.vector, m) # {}
  PROVE  /\ Raw(v, e.vector, m) \in Fractions
         /\ Raw(v, e.vector, m) \in rawScore(v, e.vector, m)
         /\ m = "euclidean" => Raw(v, e.vector, m).num \in Nat
<1> DEFINE b == e.vector
           x == Raw(v, b, m)
<1>1. v \in Seq(Int) /\ b \in Seq(Int) /\ Len(b) = Len(v)
  BY VectorAssumption DEF QueryVectors
<1>2. IsSquare(Dot(v, v)) /\ IsSquare(Dot(b, b)) /\ IsSquare(SquaredDistance(v, b))
  BY <1>1, VectorAssumption DEF QueryVectors
<1>3. x \in rawScore(v, b, m)
  BY DEF Raw
<1>4. v # <<>>
  BY DEF rawScore
<1>5. m = "dot" \/ m = "euclidean" \/ m = "cosine"
  BY DEF Metrics
<1>6. Dot(v, b) \in Int /\ Dot(v, v) \in Nat /\ Dot(b, b) \in Nat /\ SquaredDistance(v, b) \in Nat
  BY <1>1, DotType, DistanceType
<1> HIDE DEF b, x
<1>7. CASE m = "dot"
  <2>1. x = Fraction(Dot(v, b), 1)
    BY <1>1, <1>3, <1>4, <1>7 DEF rawScore
  <2> QED
    BY <1>3, <1>6, <1>7, <2>1 DEF Fraction, Fractions, x, b
<1>8. CASE m = "euclidean"
  <2>1. x = Fraction(Euclidean(v, b), 1)
    BY <1>1, <1>3, <1>4, <1>8 DEF rawScore
  <2>2. Euclidean(v, b) \in Nat
    BY <1>2, <1>6, Root DEF Euclidean
  <2> QED
    BY <1>3, <1>6, <1>8, <2>1, <2>2 DEF Fraction, Fractions, x, b
<1>9. CASE m = "cosine"
  <2>1. x \in Cosine(v, b)
    BY <1>1, <1>3, <1>4, <1>9 DEF rawScore
  <2>2. Dot(v, v) # 0 /\ Dot(b, b) # 0 /\ x = Fraction(Dot(v, b), Sqrt(Dot(v, v)) * Sqrt(Dot(b, b)))
    BY <2>1 DEF Cosine
  <2>3. /\ Sqrt(Dot(v, v)) \in Nat /\ Sqrt(Dot(v, v)) * Sqrt(Dot(v, v)) = Dot(v, v)
        /\ Sqrt(Dot(b, b)) \in Nat /\ Sqrt(Dot(b, b)) * Sqrt(Dot(b, b)) = Dot(b, b)
    BY <1>2, <1>6, Root
  <2> DEFINE s == Sqrt(Dot(v, v))
             t == Sqrt(Dot(b, b))
  <2>4. s \in Nat \ {0} /\ t \in Nat \ {0}
    BY <2>2, <2>3
  <2>5. x = Fraction(Dot(v, b), s * t)
    BY <2>2
  <2> HIDE DEF s, t
  <2>6. s * t \in Nat \ {0}
    BY <2>4
  <2>7. x \in Fractions
    BY <1>6, <2>5, <2>6 DEF Fraction, Fractions
  <2> QED
    BY <1>3, <1>9, <2>7 DEF x, b
<1> QED
  BY <1>5, <1>7, <1>8, <1>9

LEMMA KeywordType ==
  ASSUME NEW w \in Words, NEW e \in Entries
  PROVE  keywordScore(w, e.text) \in Fractions
<1>1. IsFiniteSet(w)
  BY VectorAssumption DEF Words
<1>2. CASE w = {} \/ e.text = {}
  BY <1>2 DEF keywordScore, Fraction, Fractions
<1>3. CASE w # {} /\ e.text # {}
  <2>1. Cardinality(w) \in Nat /\ Cardinality(w) # 0
    BY <1>1, <1>3, FS_CardinalityType, FS_EmptySet
  <2>2. w \cap e.text \in SUBSET w
    OBVIOUS
  <2>3. Cardinality(w \cap e.text) \in Nat
    BY <1>1, <2>2, FS_Subset, FS_CardinalityType
  <2>4. keywordScore(w, e.text) = Fraction(Cardinality(w \cap e.text), Cardinality(w))
    BY <1>3 DEF keywordScore
  <2> QED
    BY <2>1, <2>3, <2>4 DEF Fraction, Fractions
<1> QED
  BY <1>2, <1>3

LEMMA NormType ==
  ASSUME NEW x \in Fractions, NEW m, m = "euclidean" => x.num \in Nat
  PROVE  normalizeForBlend(x, m) \in Fractions
<1>1. x.num \in Int /\ x.den \in Nat \ {0}
  BY DEF Fractions
<1>2. CASE m = "euclidean"
  <2>1. x.den \in Int /\ x.den + x.num \in Nat \ {0}
    BY <1>1, <1>2
  <2> QED
    BY <1>2, <2>1 DEF normalizeForBlend, Fraction, Fractions
<1>3. CASE m # "euclidean"
  BY <1>3 DEF normalizeForBlend
<1> QED
  BY <1>2, <1>3

LEMMA BlendType ==
  ASSUME NEW al \in 0..2, NEW x \in Fractions, NEW y \in Fractions
  PROVE  Blend(Fraction(al, 2), x, y) \in Fractions
<1> DEFINE a == x.num
           b == y.num
           p == x.den
           q == y.den
<1>1. a \in Int /\ b \in Int /\ p \in Nat \ {0} /\ q \in Nat \ {0}
  BY DEF Fractions
<1>2. Blend(Fraction(al, 2), x, y) = [num |-> al * a * q + (2 - al) * b * p, den |-> 2 * p * q]
  BY DEF Blend, Fraction
<1> HIDE DEF a, b, p, q
<1>3. al * a * q + (2 - al) * b * p \in Int /\ 2 * p * q \in Nat \ {0}
  <2>1. p * q \in Nat \ {0}
    BY <1>1
  <2>2. 2 * p * q = 2 * (p * q)
    BY <1>1
  <2>3. al \in Int /\ 2 - al \in Int
    OBVIOUS
  <2>4. al * a * q + (2 - al) * b * p \in Int
    BY <1>1, <2>3
  <2> QED
    BY <2>1, <2>2, <2>4
<1> QED
  BY <1>2, <1>3 DEF Fractions

LEMMA ScoresType ==
  ASSUME NEW ns, Stored(ns), NEW v \in QueryVectors, NEW f, NEW m \in Metrics, NEW w \in Words
  PROVE  /\ \A i \in Matching(ns, v, f, m) :
              LET x == Raw(v, ns[i].vector, m)
              IN  /\ x \in Fractions /\ x \in rawScore(v, ns[i].vector, m)
                  /\ m = "euclidean" => x.num \in Nat
                  /\ normalizeForBlend(x, m) \in Fractions
                  /\ keywordScore(w, ns[i].text) \in Fractions
         /\ Rankable(Scores(ns, Query(v, f, {}), m))
         /\ \A al \in 0..2 : Rankable(Scores(ns, Query(v, f, Weighing(w, al)), m))
<1> DEFINE M == Matching(ns, v, f, m)
           X(i) == Raw(v, ns[i].vector, m)
           N(i) == normalizeForBlend(X(i), m)
           K(i) == keywordScore(w, ns[i].text)
<1>1. M \in SUBSET DOMAIN ns
  BY DEF Matching
<1>2. IsFiniteSet(M) /\ M \subseteq Int
  <2>1. IsFiniteSet(M)
    BY <1>1, FS_Subset DEF Stored
  <2> QED
    BY <1>1, <2>1, VectorAssumption DEF Stored
<1>3. ASSUME NEW i \in M
      PROVE  /\ X(i) \in Fractions /\ X(i) \in rawScore(v, ns[i].vector, m)
             /\ m = "euclidean" => X(i).num \in Nat
             /\ N(i) \in Fractions /\ K(i) \in Fractions
  <2> DEFINE e == ns[i]
  <2>1. e \in Entries
    BY <1>1 DEF Stored
  <2>2. Len(e.vector) = Len(v) /\ rawScore(v, e.vector, m) # {}
    BY DEF Matching
  <2>3. X(i) = Raw(v, e.vector, m) /\ K(i) = keywordScore(w, e.text)
    OBVIOUS
  <2> HIDE DEF e, K
  <2>4. K(i) \in Fractions
    BY <2>1, <2>3, KeywordType
  <2>5. /\ X(i) \in Fractions /\ X(i) \in rawScore(v, e.vector, m)
        /\ m = "euclidean" => X(i).num \in Nat
    <3> HIDE DEF X
    <3> QED
      BY <2>1, <2>2, <2>3, RawType, Zenon
  <2> HIDE DEF X
  <2>6. N(i) \in Fractions
    BY <2>5, NormType, Zenon
  <2> QED
    BY <2>4, <2>5, <2>6 DEF e
<1>4. Rankable(Scores(ns, Query(v, f, {}), m))
  <2> DEFINE s == Scores(ns, Query(v, f, {}), m)
  <2>1. s = [i \in M |-> X(i)]
    BY ScoresPure
  <2> HIDE DEF s, M, X
  <2>2. DOMAIN s = M /\ \A i \in M : s[i] = X(i)
    BY <2>1
  <2>3. Rankable(s)
    BY <1>2, <1>3, <2>2 DEF Rankable
  <2> QED
    BY <2>3 DEF s
<1>5. ASSUME NEW al \in 0..2 PROVE Rankable(Scores(ns, Query(v, f, Weighing(w, al)), m))
  <2> DEFINE s == Scores(ns, Query(v, f, Weighing(w, al)), m)
  <2>1. s = [i \in M |-> Blend(Fraction(al, 2), N(i), K(i))]
    BY ScoresHybrid
  <2>2. \A i \in M : Blend(Fraction(al, 2), N(i), K(i)) \in Fractions
    <3>1. \A i \in M : N(i) \in Fractions /\ K(i) \in Fractions
      BY <1>3
    <3> HIDE DEF M, N, K
    <3> QED
      BY <3>1, BlendType
  <2> HIDE DEF s, M, N, K
  <2>3. DOMAIN s = M /\ \A i \in M : s[i] = Blend(Fraction(al, 2), N(i), K(i))
    BY <2>1
  <2>4. Rankable(s)
    BY <1>2, <2>2, <2>3 DEF Rankable
  <2> QED
    BY <2>4 DEF s
<1> QED
  BY <1>3, <1>4, <1>5

(* A blend that gives one part no weight is in the order of the other.     *)
LEMMA ScaledOrder ==
  ASSUME NEW a \in Int, NEW b \in Int, NEW p \in Nat \ {0}, NEW q \in Nat \ {0},
         NEW c \in Nat \ {0}, NEW d \in Nat \ {0}
  PROVE  /\ ((2 * a * c) * (2 * q * d) < (2 * b * d) * (2 * p * c)) <=> (a * q < b * p)
         /\ ((2 * a * c) * (2 * q * d) = (2 * b * d) * (2 * p * c)) <=> (a * q = b * p)
<1> DEFINE e == 4 * (c * d)
           x == a * q
           y == b * p
<1>1. e \in Nat \ {0} /\ x \in Int /\ y \in Int
  <2>1. c * d \in Nat \ {0}
    OBVIOUS
  <2> QED
    BY <2>1
<1>2. (2 * a * c) * (2 * q * d) = x * e /\ (2 * b * d) * (2 * p * c) = y * e
  OBVIOUS
<1>3. (x * e < y * e <=> x < y) /\ (x * e = y * e <=> x = y)
  <2> HIDE DEF e, x, y
  <2> QED
    BY <1>1, Cancel
<1> QED
  BY <1>2, <1>3

LEMMA FirstOnly ==
  ASSUME NEW x \in Fractions, NEW y \in Fractions, NEW k \in Fractions, NEW l \in Fractions
  PROVE  /\ Less(Blend(Fraction(2, 2), x, k), Blend(Fraction(2, 2), y, l)) <=> Less(x, y)
         /\ Equal(Blend(Fraction(2, 2), x, k), Blend(Fraction(2, 2), y, l)) <=> Equal(x, y)
<1> DEFINE a == x.num
           b == y.num
           p == x.den
           q == y.den
           c == k.den
           d == l.den
           i == k.num
           j == l.num
<1>1. /\ a \in Int /\ b \in Int /\ i \in Int /\ j \in Int /\ p \in Nat \ {0} /\ q \in Nat \ {0}
      /\ c \in Nat \ {0} /\ d \in Nat \ {0}
  BY DEF Fractions
<1>2. /\ Blend(Fraction(2, 2), x, k) = [num |-> 2 * a * c + (2 - 2) * i * p, den |-> 2 * p * c]
      /\ Blend(Fraction(2, 2), y, l) = [num |-> 2 * b * d + (2 - 2) * j * q, den |-> 2 * q * d]
  BY DEF Blend, Fraction
<1>3. (Less(x, y) <=> a * q < b * p) /\ (Equal(x, y) <=> a * q = b * p)
  BY DEF Less, Equal
<1> HIDE DEF a, b, p, q, c, d, i, j
<1>4. 2 * a * c + (2 - 2) * i * p = 2 * a * c /\ 2 * b * d + (2 - 2) * j * q = 2 * b * d
  BY <1>1
<1> DEFINE X == Blend(Fraction(2, 2), x, k)
           Y == Blend(Fraction(2, 2), y, l)
<1>5. X.num = 2 * a * c /\ X.den = 2 * p * c /\ Y.num = 2 * b * d /\ Y.den = 2 * q * d
  BY <1>2, <1>4
<1> HIDE DEF X, Y
<1>6. /\ Less(X, Y) <=> ((2 * a * c) * (2 * q * d) < (2 * b * d) * (2 * p * c))
      /\ Equal(X, Y) <=> ((2 * a * c) * (2 * q * d) = (2 * b * d) * (2 * p * c))
  BY <1>5, Zenon DEF Less, Equal
<1>7. /\ ((2 * a * c) * (2 * q * d) < (2 * b * d) * (2 * p * c)) <=> (a * q < b * p)
      /\ ((2 * a * c) * (2 * q * d) = (2 * b * d) * (2 * p * c)) <=> (a * q = b * p)
  BY <1>1, ScaledOrder
<1>8. (Less(X, Y) <=> Less(x, y)) /\ (Equal(X, Y) <=> Equal(x, y))
  BY <1>3, <1>6, <1>7, Zenon
<1> QED
  BY <1>8 DEF X, Y

LEMMA SecondOnly ==
  ASSUME NEW x \in Fractions, NEW y \in Fractions, NEW k \in Fractions, NEW l \in Fractions
  PROVE  /\ Less(Blend(Fraction(0, 2), k, x), Blend(Fraction(0, 2), l, y)) <=> Less(x, y)
         /\ Equal(Blend(Fraction(0, 2), k, x), Blend(Fraction(0, 2), l, y)) <=> Equal(x, y)
<1> DEFINE a == x.num
           b == y.num
           p == x.den
           q == y.den
           c == k.den
           d == l.den
           i == k.num
           j == l.num
<1>1. /\ a \in Int /\ b \in Int /\ i \in Int /\ j \in Int /\ p \in Nat \ {0} /\ q \in Nat \ {0}
      /\ c \in Nat \ {0} /\ d \in Nat \ {0}
  BY DEF Fractions
<1>2. /\ Blend(Fraction(0, 2), k, x) = [num |-> 0 * i * p + (2 - 0) * a * c, den |-> 2 * c * p]
      /\ Blend(Fraction(0, 2), l, y) = [num |-> 0 * j * q + (2 - 0) * b * d, den |-> 2 * d * q]
  BY DEF Blend, Fraction
<1>3. (Less(x, y) <=> a * q < b * p) /\ (Equal(x, y) <=> a * q = b * p)
  BY DEF Less, Equal
<1> HIDE DEF a, b, p, q, c, d, i, j
<1>4. /\ 0 * i * p + (2 - 0) * a * c = 2 * a * c /\ 0 * j * q + (2 - 0) * b * d = 2 * b * d
      /\ 2 * c * p = 2 * p * c /\ 2 * d * q = 2 * q * d
  BY <1>1
<1> DEFINE X == Blend(Fraction(0, 2), k, x)
           Y == Blend(Fraction(0, 2), l, y)
<1>5. X.num = 2 * a * c /\ X.den = 2 * p * c /\ Y.num = 2 * b * d /\ Y.den = 2 * q * d
  BY <1>2, <1>4
<1> HIDE DEF X, Y
<1>6. /\ Less(X, Y) <=> ((2 * a * c) * (2 * q * d) < (2 * b * d) * (2 * p * c))
      /\ Equal(X, Y) <=> ((2 * a * c) * (2 * q * d) = (2 * b * d) * (2 * p * c))
  BY <1>5, Zenon DEF Less, Equal
<1>7. /\ ((2 * a * c) * (2 * q * d) < (2 * b * d) * (2 * p * c)) <=> (a * q < b * p)
      /\ ((2 * a * c) * (2 * q * d) = (2 * b * d) * (2 * p * c)) <=> (a * q = b * p)
  BY <1>1, ScaledOrder
<1>8. (Less(X, Y) <=> Less(x, y)) /\ (Equal(X, Y) <=> Equal(x, y))
  BY <1>3, <1>6, <1>7, Zenon
<1> QED
  BY <1>8 DEF X, Y

(* 1 / (1 + d) turns the order of distances around. *)
LEMMA NormOrder ==
  ASSUME NEW x \in Fractions, NEW y \in Fractions, x.num \in Nat, y.num \in Nat
  PROVE  LET X == normalizeForBlend(x, "euclidean")
             Y == normalizeForBlend(y, "euclidean")
         IN  (Less(Y, X) <=> Less(x, y)) /\ (Equal(X, Y) <=> Equal(x, y))
<1> DEFINE a == x.num
           b == y.num
           p == x.den
           q == y.den
           X == normalizeForBlend(x, "euclidean")
           Y == normalizeForBlend(y, "euclidean")
<1>1. a \in Nat /\ b \in Nat /\ p \in Nat \ {0} /\ q \in Nat \ {0}
  BY DEF Fractions
<1>2. X.num = p /\ X.den = p + a /\ Y.num = q /\ Y.den = q + b
  BY DEF normalizeForBlend, Fraction
<1>3. (Less(x, y) <=> a * q < b * p) /\ (Equal(x, y) <=> a * q = b * p)
  BY DEF Less, Equal
<1> HIDE DEF a, b, p, q, X, Y
<1>4. (Less(Y, X) <=> q * (p + a) < p * (q + b)) /\ (Equal(X, Y) <=> p * (q + b) = q * (p + a))
  BY <1>2, Zenon DEF Less, Equal
<1>5. q * (p + a) = p * q + a * q /\ p * (q + b) = p * q + b * p /\ p * q \in Int /\ a * q \in Int /\ b * p \in Int
  BY <1>1
<1>6. (Less(Y, X) <=> Less(x, y)) /\ (Equal(X, Y) <=> Equal(x, y))
  BY <1>3, <1>4, <1>5
<1> QED
  BY <1>6 DEF X, Y

-----------------------------------------------------------------------------
(* The five claims of VectorRight, for one namespace. *)

LEMMA VectorsAlone ==
  ASSUME NEW ns, Stored(ns), NEW v \in QueryVectors, NEW f, NEW m \in Metrics, NEW w \in Words,
         NEW k \in Int
  PROVE  Search(ns, Query(v, f, Weighing(w, 2)), k, m) = Search(ns, Query(v, f, {}), k, m)
<1> DEFINE M == Matching(ns, v, f, m)
           X(i) == Raw(v, ns[i].vector, m)
           N(i) == normalizeForBlend(X(i), m)
           K(i) == keywordScore(w, ns[i].text)
           B(i) == Blend(Fraction(2, 2), N(i), K(i))
           q == Query(v, f, Weighing(w, 2))
           r == Query(v, f, {})
           s == Scores(ns, q, m)
           t == Scores(ns, r, m)
<1>1. s = [i \in M |-> B(i)] /\ t = [i \in M |-> X(i)]
  BY ScoresPure, ScoresHybrid
<1>2. ASSUME NEW i \in M
      PROVE  /\ X(i) \in Fractions /\ (m = "euclidean" => X(i).num \in Nat)
             /\ N(i) \in Fractions /\ K(i) \in Fractions
  BY ScoresType
<1>3. Rankable(s) /\ Rankable(t)
  <2>1. 2 \in 0..2
    OBVIOUS
  <2> QED
    BY <2>1, ScoresType, Zenon
<1>4. ASSUME NEW i \in M, NEW j \in M
      PROVE  (Less(B(i), B(j)) <=> Less(N(i), N(j))) /\ (Equal(B(i), B(j)) <=> Equal(N(i), N(j)))
  <2>1. N(i) \in Fractions /\ K(i) \in Fractions /\ N(j) \in Fractions /\ K(j) \in Fractions
    BY <1>2
  <2> HIDE DEF N, K
  <2> QED
    BY <2>1, FirstOnly
<1>5. ASSUME NEW i \in M, NEW j \in M
      PROVE  /\ Equal(N(i), N(j)) <=> Equal(X(i), X(j))
             /\ m = "euclidean" => (Less(N(j), N(i)) <=> Less(X(i), X(j)))
             /\ m # "euclidean" => (Less(N(j), N(i)) <=> Less(X(j), X(i)))
  <2>1. CASE m = "euclidean"
    <3>1. X(i) \in Fractions /\ X(j) \in Fractions /\ X(i).num \in Nat /\ X(j).num \in Nat
      BY <1>2, <2>1
    <3> HIDE DEF X
    <3> QED
      BY <2>1, <3>1, NormOrder
  <2>2. CASE m # "euclidean"
    BY <2>2 DEF normalizeForBlend
  <2> QED
    BY <2>1, <2>2
<1>6. HigherIsBetter(q, m) = TRUE /\ HigherIsBetter(r, m) = (m # "euclidean")
  BY DEF HigherIsBetter, Query, Weighing
<1> HIDE DEF B, N, X, M, s, t
<1>7. DOMAIN s = M /\ DOMAIN t = M /\ \A i \in M : s[i] = B(i) /\ t[i] = X(i)
  BY <1>1
<1>8. ASSUME NEW i \in M, NEW j \in M
      PROVE  Precedes(s, TRUE, i, j) <=> Precedes(t, m # "euclidean", i, j)
  <2>1. /\ Precedes(s, TRUE, i, j) <=> Less(B(j), B(i)) \/ (Equal(B(i), B(j)) /\ i < j)
        /\ m = "euclidean" =>
             (Precedes(t, m # "euclidean", i, j) <=> Less(X(i), X(j)) \/ (Equal(X(i), X(j)) /\ i < j))
        /\ m # "euclidean" =>
             (Precedes(t, m # "euclidean", i, j) <=> Less(X(j), X(i)) \/ (Equal(X(i), X(j)) /\ i < j))
    BY <1>7 DEF Precedes
  <2>2. (Less(B(j), B(i)) <=> Less(N(j), N(i))) /\ (Equal(B(i), B(j)) <=> Equal(N(i), N(j)))
    BY <1>4
  <2> QED
    BY <1>5, <2>1, <2>2
<1>9. Ranking(s, HigherIsBetter(q, m)) = Ranking(t, HigherIsBetter(r, m))
  <2> DEFINE g == HigherIsBetter(q, m)
             h == HigherIsBetter(r, m)
  <2>1. \A i, j \in M : Precedes(s, g, i, j) <=> Precedes(t, h, i, j)
    BY <1>6, <1>8, Zenon
  <2> HIDE DEF g, h
  <2>2. Ranking(s, g) = Ranking(t, h)
    BY <1>7, <2>1 DEF Ranking
  <2> QED
    BY <2>2 DEF g, h
<1> QED
  BY <1>3, <1>7, <1>9, SameSearch DEF s, t

LEMMA WordsAlone ==
  ASSUME NEW ns, Stored(ns), NEW v \in QueryVectors, NEW f, NEW w \in Words, NEW k \in Int
  PROVE  Search(ns, Query(v, f, Weighing(w, 0)), k, "dot")
           = Search(ns, Query(v, f, Weighing(w, 0)), k, "euclidean")
<1> DEFINE M(m) == Matching(ns, v, f, m)
           N(m, i) == normalizeForBlend(Raw(v, ns[i].vector, m), m)
           K(i) == keywordScore(w, ns[i].text)
           B(m, i) == Blend(Fraction(0, 2), N(m, i), K(i))
           q == Query(v, f, Weighing(w, 0))
           S(m) == Scores(ns, q, m)
<1>1. ASSUME NEW m PROVE S(m) = [i \in M(m) |-> B(m, i)]
  BY ScoresHybrid
<1>2. "dot" \in Metrics /\ "euclidean" \in Metrics /\ 0 \in 0..2
  BY DEF Metrics
<1>3. ASSUME NEW m \in Metrics, NEW i \in M(m) PROVE N(m, i) \in Fractions /\ K(i) \in Fractions
  BY ScoresType
<1>4. ASSUME NEW m \in Metrics PROVE Rankable(S(m))
  BY <1>2, ScoresType
<1>5. M("dot") = M("euclidean")
  BY DEF Matching, rawScore
<1>6. ASSUME NEW m \in Metrics, NEW i \in M(m), NEW j \in M(m)
      PROVE  (Less(B(m, i), B(m, j)) <=> Less(K(i), K(j))) /\ (Equal(B(m, i), B(m, j)) <=> Equal(K(i), K(j)))
  <2>1. N(m, i) \in Fractions /\ K(i) \in Fractions /\ N(m, j) \in Fractions /\ K(j) \in Fractions
    BY <1>3
  <2> HIDE DEF N, K
  <2> QED
    BY <2>1, SecondOnly
<1>7. \A m : HigherIsBetter(q, m) = TRUE
  BY DEF HigherIsBetter, Query, Weighing
<1> HIDE DEF B, N, M, K, S, q
<1>8. ASSUME NEW m PROVE DOMAIN S(m) = M(m) /\ \A i \in M(m) : S(m)[i] = B(m, i)
  BY <1>1
<1>9. ASSUME NEW m \in Metrics, NEW i \in M(m), NEW j \in M(m)
      PROVE  Precedes(S(m), TRUE, i, j) <=> Less(K(j), K(i)) \/ (Equal(K(i), K(j)) /\ i < j)
  <2>1. Precedes(S(m), TRUE, i, j) <=> Less(B(m, j), B(m, i)) \/ (Equal(B(m, i), B(m, j)) /\ i < j)
    BY <1>8 DEF Precedes
  <2> QED
    BY <1>6, <2>1
<1>10. DOMAIN S("dot") = DOMAIN S("euclidean")
  BY <1>5, <1>8
<1>11. Ranking(S("dot"), TRUE) = Ranking(S("euclidean"), TRUE)
  <2>1. \A i, j \in DOMAIN S("dot") :
          Precedes(S("dot"), TRUE, i, j) <=> Precedes(S("euclidean"), TRUE, i, j)
    BY <1>2, <1>5, <1>8, <1>9
  <2> QED
    BY <1>10, <2>1 DEF Ranking
<1>12. Ranking(S("dot"), HigherIsBetter(q, "dot")) = Ranking(S("euclidean"), HigherIsBetter(q, "euclidean"))
  BY <1>7, <1>11
<1>13. Rankable(S("dot")) /\ Rankable(S("euclidean"))
  BY <1>2, <1>4
<1>14. Search(ns, q, k, "dot") = Search(ns, q, k, "euclidean")
  BY <1>10, <1>12, <1>13, SameSearch DEF S
<1> QED
  BY <1>14 DEF q

LEMMA Shorter ==
  ASSUME NEW ns, Stored(ns), NEW q, NEW m, NEW k \in Int, k <= Cardinality(DOMAIN ns)
  PROVE  LET whole == Search(ns, q, Cardinality(DOMAIN ns), m)
         IN  Search(ns, q, k, m) = SubSeq(whole, 1, Smaller(k, Len(whole)))
<1> DEFINE D == DOMAIN Scores(ns, q, m)
           n == Cardinality(D)
           all == Cardinality(DOMAIN ns)
           whole == Search(ns, q, all, m)
           Place(i) == 1 + Cardinality({j \in D : Precedes(Scores(ns, q, m), HigherIsBetter(q, m), j, i)})
           C(r) == CHOOSE i \in D : Place(i) = r
<1>1. \A j : Search(ns, q, j, m) = IF j <= 0 THEN <<>> ELSE [r \in 1..Smaller(j, n) |-> C(r)]
  BY DEF Search
<1>2. D \in SUBSET DOMAIN ns
  BY DEF Scores
<1>3. n \in Nat /\ all \in Nat /\ n <= all
  <2>1. IsFiniteSet(DOMAIN ns)
    BY DEF Stored
  <2> HIDE DEF D
  <2> QED
    BY <1>2, <2>1, FS_Subset, FS_CardinalityType
<1> HIDE DEF C, n, all
<1>4. CASE k <= 0
  <2>1. Len(whole) \in Nat
    <3>1. CASE all <= 0
      <4>1. whole = <<>>
        BY <1>1, <3>1
      <4> QED
        BY <4>1
    <3>2. CASE ~(all <= 0)
      <4>1. whole = [r \in 1..Smaller(all, n) |-> C(r)] /\ Smaller(all, n) \in Nat
        BY <1>1, <1>3, <3>2 DEF Smaller
      <4> HIDE DEF whole
      <4> QED
        BY <4>1
    <3> QED
      BY <3>1, <3>2
  <2> HIDE DEF whole
  <2>2. Smaller(k, Len(whole)) \in Int /\ Smaller(k, Len(whole)) < 1
    BY <1>4, <2>1 DEF Smaller
  <2>3. SubSeq(whole, 1, Smaller(k, Len(whole))) = <<>>
    BY <2>2, SubSeqEmpty
  <2>4. Search(ns, q, k, m) = <<>>
    BY <1>1, <1>4
  <2> QED
    BY <2>3, <2>4 DEF whole, all
<1>5. CASE k > 0
  <2>1. whole = [r \in 1..n |-> C(r)]
    BY <1>1, <1>3, <1>5 DEF Smaller, all
  <2>2. Search(ns, q, k, m) = [r \in 1..Smaller(k, n) |-> C(r)]
    BY <1>1, <1>5
  <2> HIDE DEF whole
  <2>3. Len(whole) = n /\ \A r \in 1..n : whole[r] = C(r)
    BY <1>3, <2>1
  <2> DEFINE p == Smaller(k, n)
  <2>4. p \in Nat /\ p <= n
    BY <1>3, <1>5 DEF Smaller
  <2> HIDE DEF p
  <2>5. SubSeq(whole, 1, p) = [r \in 1..p |-> whole[r]]
    BY <2>4
  <2>6. \A r \in 1..p : whole[r] = C(r)
    BY <1>3, <2>3, <2>4
  <2>7. SubSeq(whole, 1, p) = [r \in 1..p |-> C(r)]
    BY <2>5, <2>6
  <2> QED
    BY <2>2, <2>3, <2>7 DEF whole, all, p
<1> QED
  BY <1>4, <1>5

LEMMA FilterFirst ==
  ASSUME NEW ns, NEW v, NEW f, NEW w, NEW al, NEW k, NEW m
  PROVE  LET half == Query(v, f, Weighing(w, al))
             only == [i \in {j \in DOMAIN ns : matchesFilter(ns[j].metadata, f)} |-> ns[i]]
         IN  Search(ns, half, k, m) = Search(only, [half EXCEPT !.filter = <<>>], k, m)
<1> DEFINE only == [i \in {j \in DOMAIN ns : matchesFilter(ns[j].metadata, f)} |-> ns[i]]
           half == Query(v, f, Weighing(w, al))
           bare == Query(v, <<>>, Weighing(w, al))
           B(e) == Blend(Fraction(al, 2), normalizeForBlend(Raw(v, e.vector, m), m), keywordScore(w, e.text))
<1>1. [half EXCEPT !.filter = <<>>] = bare
  BY DEF Query
<1>2. /\ Scores(ns, half, m) = [i \in Matching(ns, v, f, m) |-> B(ns[i])]
      /\ Scores(only, bare, m) = [i \in Matching(only, v, <<>>, m) |-> B(only[i])]
  BY ScoresHybrid
<1>3. \A x : matchesFilter(x, <<>>)
  <2>1. DOMAIN (<<>>) = {}
    OBVIOUS
  <2> QED
    BY <2>1 DEF matchesFilter
<1>4. /\ DOMAIN only = {j \in DOMAIN ns : matchesFilter(ns[j].metadata, f)}
      /\ \A i \in DOMAIN only : only[i] = ns[i]
  OBVIOUS
<1> HIDE DEF only, B, bare, half
<1>5. Matching(only, v, <<>>, m) = Matching(ns, v, f, m)
  BY <1>3, <1>4 DEF Matching
<1>6. \A i \in Matching(ns, v, f, m) : only[i] = ns[i]
  BY <1>4 DEF Matching
<1>7. Scores(only, bare, m) = Scores(ns, half, m)
  BY <1>2, <1>5, <1>6
<1>8. HigherIsBetter(half, m) = TRUE /\ HigherIsBetter(bare, m) = TRUE
  BY DEF HigherIsBetter, half, bare, Query, Weighing
<1>9. Search(ns, half, k, m) = Search(only, bare, k, m)
  BY <1>7, <1>8 DEF Search
<1> QED
  BY <1>1, <1>9 DEF half, only, bare

(* No score is better than that of the query itself. *)
LEMMA CopyBest ==
  ASSUME NEW v \in QueryVectors, NEW e \in Entries, Len(e.vector) = Len(v), NEW m \in Metrics,
         m # "dot", NEW x \in rawScore(v, e.vector, m), NEW y \in rawScore(v, v, m)
  PROVE  IF m = "euclidean" THEN ~Less(x, y) ELSE ~Less(y, x)
<1> DEFINE b == e.vector
<1>1. v \in Seq(Int) /\ b \in Seq(Int) /\ Len(b) = Len(v)
  BY VectorAssumption DEF QueryVectors
<1>2. IsSquare(Dot(v, v)) /\ IsSquare(Dot(b, b)) /\ IsSquare(SquaredDistance(v, b))
  BY <1>1, VectorAssumption DEF QueryVectors
<1>3. Dot(v, b) \in Int /\ Dot(v, v) \in Nat /\ Dot(b, b) \in Nat /\ SquaredDistance(v, b) \in Nat
  BY <1>1, DotType, DistanceType
<1>4. x \in rawScore(v, b, m) /\ v # <<>>
  BY DEF rawScore
<1> HIDE DEF b
<1>5. CASE m = "euclidean"
  <2>1. x = Fraction(Euclidean(v, b), 1) /\ y = Fraction(Euclidean(v, v), 1)
    BY <1>1, <1>4, <1>5 DEF rawScore
  <2>2. Euclidean(v, b) \in Nat
    BY <1>2, <1>3, Root DEF Euclidean
  <2>3. SquaredDistance(v, v) = 0
    <3>1. SquaredDistance(v, v) = Total(Combined(v, v, 1, 1))
      <4>1. \A i \in 1..Len(v) : v[i] \in Int
        BY <1>1
      <4>2. \A i \in 1..Len(v) : (v[i] - v[i]) * (v[i] - v[i]) = (1 * v[i] - 1 * v[i]) * (1 * v[i] - 1 * v[i])
        BY <4>1
      <4>3. [i \in 1..Len(v) |-> (v[i] - v[i]) * (v[i] - v[i])] = Combined(v, v, 1, 1)
        BY <4>2 DEF Combined
      <4> QED
        BY <4>3 DEF SquaredDistance
    <3>2. Total(Combined(v, v, 1, 1)) = 1 * 1 * Dot(v, v) - 2 * 1 * 1 * Dot(v, v) + 1 * 1 * Dot(v, v)
      <4>1. 1 \in Int
        OBVIOUS
      <4> QED
        BY <1>1, <4>1, CombinedTotal
    <3> QED
      BY <1>3, <3>1, <3>2
  <2>4. Euclidean(v, v) = 0
    <3>1. Euclidean(v, v) = CHOOSE r \in 0..0 : r * r = 0
      BY <2>3 DEF Euclidean, Sqrt
    <3>2. 0 \in 0..0 /\ 0 * 0 = 0 /\ \A r \in 0..0 : r = 0
      OBVIOUS
    <3> QED
      BY <3>1, <3>2
  <2>5. ~Less(x, y)
    BY <2>1, <2>2, <2>4 DEF Less, Fraction
  <2> QED
    BY <1>5, <2>5
<1>6. CASE m = "cosine"
  <2>1. x \in Cosine(v, b) /\ y \in Cosine(v, v)
    BY <1>1, <1>4, <1>6 DEF rawScore
  <2> DEFINE A == Dot(v, v)
             B == Dot(b, b)
             C == Dot(v, b)
             s == Sqrt(A)
             t == Sqrt(B)
  <2>2. A # 0 /\ B # 0 /\ x = Fraction(C, s * t) /\ y = Fraction(A, s * s)
    BY <2>1 DEF Cosine
  <2>3. s \in Nat /\ s * s = A /\ t \in Nat /\ t * t = B
    BY <1>2, <1>3, Root
  <2>4. C * C <= A * B
    BY <1>1, <2>2, CauchySchwarz
  <2>5. A \in Nat \ {0} /\ B \in Nat \ {0} /\ C \in Int
    BY <1>3, <2>2
  <2> HIDE DEF A, B, C, s, t
  <2>6. s * t \in Nat /\ (s * t) * (s * t) = A * B
    <3>1. s * t \in Nat
      BY <2>3
    <3>2. (s * t) * (s * t) = (s * s) * (t * t)
      BY <2>3
    <3> QED
      BY <2>3, <3>1, <3>2
  <2>7. C <= s * t
    <3> DEFINE p == s * t
    <3>1. p \in Nat /\ p * p = A * B
      BY <2>6
    <3> HIDE DEF p
    <3>2. ~(p < C)
      <4> SUFFICES ASSUME p < C PROVE FALSE
        OBVIOUS
      <4>1. C \in Nat
        BY <2>5, <3>1
      <4>2. p * p < C * C
        BY <3>1, <4>1, Grows
      <4>3. p * p \in Int /\ C * C \in Int
        BY <2>5, <3>1
      <4> QED
        BY <2>4, <3>1, <4>2, <4>3
    <3> QED
      BY <2>5, <3>1, <3>2 DEF p
  <2>8. Less(y, x) <=> A * (s * t) < C * A
    BY <2>2, <2>3 DEF Less, Fraction
  <2>9. ~(A * (s * t) < C * A)
    <3> DEFINE p == s * t
    <3>1. p \in Nat /\ C <= p
      BY <2>6, <2>7
    <3>2. A * p = p * A
      BY <2>5, <3>1
    <3> HIDE DEF p
    <3>3. ~(p * A < C * A)
      BY <2>5, <3>1, Cancel
    <3> QED
      BY <3>2, <3>3 DEF p
  <2> QED
    BY <1>6, <2>8, <2>9
<1> QED
  BY <1>5, <1>6 DEF Metrics

LEMMA CopiesFirst ==
  ASSUME NEW ns, Stored(ns), NEW v \in QueryVectors, NEW f, NEW m \in Metrics, NEW w \in Words
  PROVE  LET pure == Search(ns, Query(v, f, {}), Cardinality(DOMAIN ns), m)
         IN  \A i, j \in 1..Len(pure) :
               m # "dot" /\ i < j /\ ns[pure[j]].vector = v =>
                 \E x \in rawScore(v, ns[pure[i]].vector, m), y \in rawScore(v, v, m) : Equal(x, y)
<1> DEFINE q == Query(v, f, {})
           s == Scores(ns, q, m)
           D == DOMAIN s
           M == Matching(ns, v, f, m)
           X(i) == Raw(v, ns[i].vector, m)
           h == HigherIsBetter(q, m)
           R == Ranking(s, h)
           all == Cardinality(DOMAIN ns)
           n == Cardinality(D)
           pure == Search(ns, q, all, m)
<1>1. s = [i \in M |-> X(i)]
  BY ScoresPure
<1>2. Rankable(s)
  BY ScoresType
<1>3. ASSUME NEW i \in M
      PROVE  X(i) \in Fractions /\ X(i) \in rawScore(v, ns[i].vector, m)
  BY ScoresType
<1>4. M \in SUBSET DOMAIN ns /\ \A i \in M : ns[i] \in Entries /\ Len(ns[i].vector) = Len(v)
  BY DEF Matching, Stored
<1>5. h = (m # "euclidean")
  BY DEF HigherIsBetter, Query
<1>6. DOMAIN s = M /\ \A i \in M : s[i] = X(i)
  <2> HIDE DEF s, M, X
  <2> QED
    BY <1>1
<1>7. IsFiniteSet(DOMAIN ns) /\ all \in Nat /\ n \in Nat /\ n <= all
  <2>1. IsFiniteSet(DOMAIN ns)
    BY DEF Stored
  <2> HIDE DEF M, s
  <2> QED
    BY <1>4, <1>6, <2>1, FS_Subset, FS_CardinalityType
<1>8. IsFiniteSet(D) /\ StrictOrder(D, R)
  BY <1>2, RankingStrict DEF Rankable
<1>9. CASE all = 0
  <2>1. pure = <<>>
    BY <1>9 DEF Search
  <2>2. Len(pure) = 0
    <3> HIDE DEF pure
    <3> QED
      BY <2>1
  <2> HIDE DEF pure
  <2>3. 1..Len(pure) = {}
    BY <2>2
  <2> QED
    BY <2>3 DEF pure
<1>10. CASE all # 0
  <2>1. BestOf(pure, D, R, all)
    <3>1. all \in Nat \ {0}
      BY <1>7, <1>10
    <3> HIDE DEF all
    <3> QED
      BY <1>2, <3>1, SearchBest
  <2> HIDE DEF s, D, R, M, X, h, q, pure, all, n
  <2>2. Smaller(all, n) = n
    BY <1>7 DEF Smaller
  <2>3. pure = [r \in 1..n |-> pure[r]] /\ \A r \in 1..n : pure[r] \in D /\ Cardinality(Above(pure[r], D, R)) = r - 1
    BY <2>1, <2>2 DEF BestOf, n
  <2>4. Len(pure) = n
    BY <1>7, <2>3
  <2>5. Lists(pure, D, R)
    <3>1. \A i \in 1..Cardinality(D) :
            (\E c \in D : Cardinality(Above(c, D, R)) = i - 1) =>
              pure[i] \in D /\ Cardinality(Above(pure[i], D, R)) = i - 1
      BY <2>3 DEF n
    <3>2. pure = [r \in 1..Cardinality(D) |-> pure[r]]
      BY <2>3 DEF n
    <3> QED
      BY <1>8, <3>1, <3>2, Sorting, Zenon
  <2>6. ASSUME NEW i \in 1..n, NEW j \in 1..n, m # "dot", i < j, ns[pure[j]].vector = v
        PROVE  \E x \in rawScore(v, ns[pure[i]].vector, m), y \in rawScore(v, v, m) : Equal(x, y)
    <3> DEFINE a == pure[i]
               c == pure[j]
    <3>1. a \in M /\ c \in M /\ <<a, c>> \in R
      BY <1>6, <2>3, <2>5, <2>6 DEF Lists, n, D
    <3>2. ns[c].vector = v
      BY <2>6
    <3> HIDE DEF a, c
    <3>3. Precedes(s, h, a, c)
      BY <3>1 DEF R, Ranking
    <3>4. /\ X(a) \in Fractions /\ X(a) \in rawScore(v, ns[a].vector, m)
          /\ X(c) \in Fractions /\ X(c) \in rawScore(v, v, m)
      BY <1>3, <3>1, <3>2
    <3>5. IF m = "euclidean" THEN ~Less(X(a), X(c)) ELSE ~Less(X(c), X(a))
      <4> DEFINE e == ns[a]
                 x == X(a)
                 y == X(c)
      <4>1. e \in Entries /\ Len(e.vector) = Len(v) /\ x \in rawScore(v, e.vector, m) /\ y \in rawScore(v, v, m)
        BY <1>4, <3>1, <3>4
      <4> SUFFICES IF m = "euclidean" THEN ~Less(x, y) ELSE ~Less(y, x)
        OBVIOUS
      <4> HIDE DEF e, x, y
      <4> QED
        BY <2>6, <4>1, CopyBest
    <3>6. Equal(X(a), X(c))
      BY <1>5, <1>6, <3>1, <3>3, <3>5 DEF Precedes
    <3> QED
      BY <3>4, <3>6 DEF a
  <2> QED
    BY <2>4, <2>6 DEF pure, q, all
<1> QED
  BY <1>9, <1>10

(* What the store holds: entries under ids, finitely many. *)
VectorInv == \A n \in Namespaces : Stored(namespaces[n])

LEMMA VectorStep ==
  ASSUME VectorInv, namespaces = [n \in Namespaces |-> namespaces[n]], [VectorNext]_namespaces
  PROVE  VectorInv' /\ (namespaces = [n \in Namespaces |-> namespaces[n]])'
<1>1. CASE UNCHANGED namespaces
  BY <1>1 DEF VectorInv, Stored
<1>2. ASSUME NEW n \in Namespaces, NEW id \in VectorIds, Delete(n, id) \/ \E e \in Entries : Upsert(n, id, e)
      PROVE  VectorInv' /\ (namespaces = [k \in Namespaces |-> namespaces[k]])'
  <2> DEFINE old == namespaces[n]
             new == namespaces'[n]
  <2>1. Stored(old)
    BY DEF VectorInv
  <2>2. CASE Delete(n, id)
    <3>1. new = [i \in DOMAIN old \ {id} |-> old[i]]
      BY <2>2 DEF Delete
    <3>2. namespaces' = [k \in Namespaces |-> namespaces'[k]] /\ \A k \in Namespaces \ {n} : namespaces'[k] = namespaces[k]
      BY <2>2 DEF Delete
    <3>3. Stored(new)
      <4> HIDE DEF old, new
      <4>1. DOMAIN new = DOMAIN old \ {id} /\ \A i \in DOMAIN new : new[i] = old[i]
        BY <3>1
      <4>2. IsFiniteSet(DOMAIN new)
        BY <2>1, <4>1, FS_RemoveElement DEF Stored
      <4> QED
        BY <2>1, <4>1, <4>2 DEF Stored
    <3> QED
      BY <3>2, <3>3 DEF VectorInv, Stored
  <2>3. ASSUME NEW e \in Entries, Upsert(n, id, e)
        PROVE  VectorInv' /\ (namespaces = [k \in Namespaces |-> namespaces[k]])'
    <3>1. new = [i \in DOMAIN old \cup {id} |-> IF i = id THEN e ELSE old[i]]
      BY <2>3 DEF Upsert
    <3>2. namespaces' = [k \in Namespaces |-> namespaces'[k]] /\ \A k \in Namespaces \ {n} : namespaces'[k] = namespaces[k]
      BY <2>3 DEF Upsert
    <3>3. Stored(new)
      <4> HIDE DEF old, new
      <4>1. DOMAIN new = DOMAIN old \cup {id} /\ \A i \in DOMAIN new : new[i] = IF i = id THEN e ELSE old[i]
        BY <3>1
      <4>2. IsFiniteSet(DOMAIN new)
        BY <2>1, <4>1, FS_AddElement DEF Stored
      <4> QED
        BY <2>1, <4>1, <4>2 DEF Stored
    <3> QED
      BY <3>2, <3>3 DEF VectorInv, Stored
  <2> QED
    BY <1>2, <2>2, <2>3
<1> QED
  BY <1>1, <1>2 DEF VectorNext

LEMMA VectorInvRight ==
  ASSUME VectorInv PROVE VectorRight
<1> SUFFICES ASSUME NEW n \in Namespaces, NEW v \in QueryVectors, NEW f \in Filters, NEW w \in Words,
                    NEW m \in Metrics
             PROVE  SearchesAgree(namespaces[n], v, f, w, m)
  BY Zenon DEF VectorRight
<1> DEFINE ns == namespaces[n]
           all == Cardinality(DOMAIN ns)
           half == Query(v, f, Weighing(w, 1))
           whole == Search(ns, half, all, m)
<1>1. Stored(ns)
  BY DEF VectorInv
<1>2. all \in Int
  BY <1>1, FS_CardinalityType DEF Stored
<1>3. Search(ns, Query(v, f, Weighing(w, 2)), all, m) = Search(ns, Query(v, f, {}), all, m)
  <2> HIDE DEF ns, all
  <2> QED
    BY <1>1, <1>2, VectorsAlone
<1>4. Search(ns, Query(v, f, Weighing(w, 0)), all, "dot") = Search(ns, Query(v, f, Weighing(w, 0)), all, "euclidean")
  <2> HIDE DEF ns, all
  <2> QED
    BY <1>1, <1>2, WordsAlone
<1>5. ASSUME NEW k \in -1..all
      PROVE  Search(ns, half, k, m) = SubSeq(whole, 1, Smaller(k, Len(whole)))
  <2>1. k \in Int /\ k <= all
    BY <1>2
  <2> HIDE DEF ns, half
  <2> QED
    BY <1>1, <2>1, Shorter
<1>6. whole = Search([i \in {j \in DOMAIN ns : matchesFilter(ns[j].metadata, f)} |-> ns[i]],
                     [half EXCEPT !.filter = <<>>], all, m)
  <2> HIDE DEF ns, all
  <2> QED
    BY FilterFirst
<1>7. LET pure == Search(ns, Query(v, f, {}), all, m)
      IN  \A i, j \in 1..Len(pure) :
            m # "dot" /\ i < j /\ ns[pure[j]].vector = v =>
              \E x \in rawScore(v, ns[pure[i]].vector, m), y \in rawScore(v, v, m) : Equal(x, y)
  <2> HIDE DEF ns
  <2> QED
    BY <1>1, CopiesFirst
<1> HIDE DEF ns
<1>8. SearchesAgree(ns, v, f, w, m)
  BY <1>3, <1>4, <1>5, <1>6, <1>7, Zenon DEF SearchesAgree
<1> QED
  BY <1>8 DEF ns

(* However the store was filled (internal/vector), its searches agree with *)
(* one another: weights of nothing and of everything, fewer results,       *)
(* filters and exact copies.                                               *)
THEOREM VectorCorrect == VectorSpec => []VectorRight
<1> DEFINE IInv == VectorInv /\ namespaces = [n \in Namespaces |-> namespaces[n]]
<1>1. VectorInit => IInv
  <2> SUFFICES ASSUME VectorInit PROVE IInv
    OBVIOUS
  <2>1. namespaces = [n \in Namespaces |-> namespaces[n]] /\ \A n \in Namespaces : namespaces[n] = <<>>
    BY DEF VectorInit
  <2>2. Stored(<<>>)
    <3>1. DOMAIN (<<>>) = {}
      OBVIOUS
    <3> QED
      BY <3>1, FS_EmptySet DEF Stored
  <2> QED
    BY <2>1, <2>2 DEF VectorInv
<1>2. IInv /\ [VectorNext]_namespaces => IInv'
  BY VectorStep, Zenon
<1>3. IInv => VectorRight
  BY VectorInvRight
<1> QED
  BY <1>1, <1>2, <1>3, PTL DEF VectorSpec
=============================================================================
