------------------------------ MODULE GraphProofs ------------------------------
(***************************************************************************)
(* Proofs about the knowledge graph and the counters its doors keep, for   *)
(* any number of clients, any memories and ids, and any answers of the     *)
(* language model.                                                         *)
(***************************************************************************)
EXTENDS Graph, Induction, FiniteSetTheorems, SequenceTheorems, TLAPS

(* What Extract does to the store. *)
EdgeType == [from : Ids, to : Ids, label : Labels \cup {"mentions"}]
Upd == [kind : {"node"}, id : Ids] \cup [kind : {"edge"}, edge : EdgeType]

OpType ==
  [pc : {"idle", "tool", "run", "ask", "record", "reply"}, door : {"none", "resp", "mcp"},
   tool : Tools \cup {"none"}, memory : Memories \cup {"none"},
   todo : Seq(Upd), added : Seq(Ids), relations : Nat]

TimingType == [pc : {"idle", "load", "swap", "executed"}, d : Nat, cur : Nat]

MetricsType ==
  [commands : Nat, mcpTotal : Nat, byTool : [Tools -> Nat], completions : Nat, failures : Nat,
   inFlight : Int, extractions : Nat, entities : Nat, relations : Nat,
   count : Nat, sum : Nat, max : Nat]

TypeInv ==
  /\ metrics \in MetricsType
  /\ timing \in [Clients -> TimingType]
  /\ snap \in [pc : {"none", "latency", "counters", "done"}, byTool : [Tools -> Nat],
               count : Nat, commands : Nat, mcpTotal : Nat]
  /\ spent \in [count : Nat, sum : Nat, max : Nat]
  /\ op \in [Clients -> OpType]
  /\ calls \in Nat
  /\ returned \in [extractions : Nat, entities : Nat, relations : Nat]

-----------------------------------------------------------------------------
(* Without keeps what is not skipped. *)

LEMMA WithoutType ==
  ASSUME NEW A, NEW s \in Seq(A), NEW skip
  PROVE  Without(s, skip) \in Seq(A \ skip)
<1> DEFINE n == Len(s)
           S == Seq(A \ skip)
           G == [i \in 1..n |-> [q \in S |-> IF s[i] \in skip THEN q ELSE Append(q, s[i])]]
           Rec(f) == f = [i \in 0..n |-> IF i = 0 THEN <<>>
                                         ELSE IF s[i] \in skip THEN f[i - 1]
                                         ELSE Append(f[i - 1], s[i])]
           kept == CHOOSE f : Rec(f)
<1>1. n \in Nat /\ <<>> \in S /\ \A i \in 1..n : s[i] \in A
  OBVIOUS
<1>2. G \in [1..n -> [S -> S]]
  <2>1. ASSUME NEW i \in 1..n, NEW q \in S
        PROVE  (IF s[i] \in skip THEN q ELSE Append(q, s[i])) \in S
    <3>1. CASE s[i] \in skip
      BY <3>1
    <3>2. CASE s[i] \notin skip
      <4>1. s[i] \in A \ skip
        BY <1>1, <3>2
      <4> QED
        BY <3>2, <4>1
    <3> QED
      BY <3>1, <3>2
  <2> HIDE DEF S, n
  <2> QED
    BY <2>1
<1>3. PICK f \in [0..n -> S] : f[0] = <<>> /\ \A i \in 1..n : f[i] = G[i][f[i - 1]]
  <2> DEFINE e == <<>>
  <2>1. e \in S
    OBVIOUS
  <2>0. n \in Nat
    BY <1>1
  <2> HIDE DEF G, S, n, e
  <2>2. \E f \in [0..n -> S] : DefinedBy(f, n, e, G)
    BY <2>0, <1>2, <2>1, Recursion, Zenon
  <2> QED
    BY <2>2 DEF e, DefinedBy
<1>4. Rec(f)
  <2>1. ASSUME NEW i \in 1..n
        PROVE  f[i] = IF s[i] \in skip THEN f[i - 1] ELSE Append(f[i - 1], s[i])
    <3>1. f[i - 1] \in S
      <4>1. i - 1 \in 0..n
        BY <1>1
      <4> QED
        BY <4>1
    <3> HIDE DEF S
    <3> QED
      BY <1>3, <3>1
  <2>2. ASSUME NEW i \in 0..n
        PROVE  f[i] = IF i = 0 THEN <<>> ELSE IF s[i] \in skip THEN f[i - 1]
                      ELSE Append(f[i - 1], s[i])
    <3>1. CASE i = 0
      BY <1>3, <3>1
    <3>2. CASE i # 0
      <4>1. i \in 1..n
        BY <1>1, <3>2
      <4> QED
        BY <2>1, <3>2, <4>1
    <3> QED
      BY <3>1, <3>2
  <2> HIDE DEF n, S
  <2> QED
    BY <2>2
<1>5. Rec(kept)
  <2> HIDE DEF Rec
  <2> QED
    BY <1>4
<1>6. Without(s, skip) = kept[n]
  BY DEF Without
<1>7. kept[0] \in S /\ \A i \in 1..n : kept[i - 1] \in S => kept[i] \in S
  <2> HIDE DEF kept
  <2>1. kept[0] = <<>>
    BY <1>1, <1>5
  <2>2. ASSUME NEW i \in 1..n
        PROVE  kept[i] = IF s[i] \in skip THEN kept[i - 1] ELSE Append(kept[i - 1], s[i])
    <3>1. i \in 0..n /\ i # 0
      BY <1>1
    <3> HIDE DEF n
    <3> QED
      BY <1>5, <3>1
  <2>3. ASSUME NEW i \in 1..n, kept[i - 1] \in S PROVE kept[i] \in S
    <3>1. CASE s[i] \in skip
      BY <2>2, <2>3, <3>1
    <3>2. CASE s[i] \notin skip
      <4>1. s[i] \in A \ skip
        BY <1>1, <3>2
      <4>2. kept[i] = Append(kept[i - 1], s[i])
        BY <2>2, <3>2
      <4> DEFINE q == kept[i - 1]
                 z == s[i]
      <4>3. q \in Seq(A \ skip) /\ z \in A \ skip
        BY <2>3, <4>1
      <4> HIDE DEF q, z
      <4>4. Append(q, z) \in Seq(A \ skip)
        BY <4>3
      <4> QED
        BY <4>2, <4>4 DEF q, z
    <3> QED
      BY <3>1, <3>2
  <2> QED
    BY <1>1, <2>1, <2>3
<1> HIDE DEF kept, S
<1>8. \A i \in 0..n : kept[i] \in S
  BY <1>1, <1>7, StaysIn
<1> QED
  BY <1>1, <1>6, <1>8 DEF S

LEMMA AnswerTypes ==
  ASSUME NEW a \in Answers
  PROVE  /\ Named(a) \in Seq(Ids)
         /\ Usable(a) \in Seq(EdgeType)
<1> DEFINE skip == {r \in Triples : NoId \in {r.from, r.to}}
<1>1. a.entities \in Seq(Ids \cup {NoId}) /\ a.relations \in Seq(Triples)
  BY GraphAssumption
<1>2. (Ids \cup {NoId}) \ {NoId} = Ids
  BY GraphAssumption
<1>3. Named(a) \in Seq(Ids)
  BY <1>1, <1>2, WithoutType DEF Named
<1>4. Triples \ skip \subseteq EdgeType
  BY DEF Triples, EdgeType
<1>5. Usable(a) \in Seq(Triples \ skip)
  <2>1. Usable(a) = Without(a.relations, skip)
    BY DEF Usable
  <2> HIDE DEF skip
  <2> QED
    BY <1>1, <2>1, WithoutType
<1> DEFINE X == Triples \ skip
<1>6. X \subseteq EdgeType /\ Usable(a) \in Seq(X)
  BY <1>4, <1>5
<1> HIDE DEF X
<1>7. Usable(a) \in Seq(EdgeType)
  BY <1>6
<1> QED
  BY <1>3, <1>7

LEMMA LinkType ==
  ASSUME NEW x \in Ids, NEW y \in Ids, NEW l \in Labels \cup {"mentions"}
  PROVE  Link(Edge(x, y, l)) \in Upd
<1>1. Edge(x, y, l) \in EdgeType
  BY DEF Edge, EdgeType
<1> QED
  BY <1>1 DEF Link, Upd

(* The upserts of an answer: the entities, the relations, and last the     *)
(* memory and its links to the entities.                                   *)
LEMMA UpsertParts ==
  ASSUME NEW es \in Seq(Ids), NEW rs \in Seq(EdgeType), NEW mem \in Ids
  PROVE  /\ Each(es, Node) \in Seq(Upd)
         /\ Each(rs, LAMBDA r : Link(Edge(r.from, r.to, r.label))) \in Seq(Upd)
         /\ <<Node(mem)>> \in Seq(Upd)
         /\ Each(es, LAMBDA x : Link(Edge(mem, x, "mentions"))) \in Seq(Upd)
<1> DEFINE E == Each(es, Node)
           R == Each(rs, LAMBDA r : Link(Edge(r.from, r.to, r.label)))
           M == Each(es, LAMBDA x : Link(Edge(mem, x, "mentions")))
<1>2. E \in Seq(Upd)
  <2>1. \A i \in 1..Len(es) : Node(es[i]) \in Upd
    BY DEF Node, Upd
  <2>2. E = [i \in 1..Len(es) |-> Node(es[i])]
    BY DEF Each
  <2> QED
    BY <2>1, <2>2
<1>3. R \in Seq(Upd)
  <2>1. ASSUME NEW i \in 1..Len(rs)
        PROVE  Link(Edge(rs[i].from, rs[i].to, rs[i].label)) \in Upd
    <3>1. rs[i] \in EdgeType
      OBVIOUS
    <3>2. rs[i].from \in Ids /\ rs[i].to \in Ids /\ rs[i].label \in Labels \cup {"mentions"}
      BY <3>1 DEF EdgeType
    <3> QED
      BY <3>2, LinkType, Zenon
  <2>2. R = [i \in 1..Len(rs) |-> Link(Edge(rs[i].from, rs[i].to, rs[i].label))]
    BY DEF Each
  <2> QED
    BY <2>1, <2>2
<1>4. M \in Seq(Upd)
  <2>1. ASSUME NEW i \in 1..Len(es) PROVE Link(Edge(mem, es[i], "mentions")) \in Upd
    <3> DEFINE l == "mentions"
    <3>1. es[i] \in Ids /\ l \in Labels \cup {"mentions"}
      OBVIOUS
    <3> HIDE DEF l
    <3>2. Link(Edge(mem, es[i], l)) \in Upd
      BY <3>1, LinkType, Zenon
    <3> QED
      BY <3>2 DEF l
  <2>2. M = [i \in 1..Len(es) |-> Link(Edge(mem, es[i], "mentions"))]
    BY DEF Each
  <2> QED
    BY <2>1, <2>2
<1>5. <<Node(mem)>> \in Seq(Upd)
  BY DEF Node, Upd
<1> QED
  BY <1>2, <1>3, <1>4, <1>5

LEMMA UpsertsType ==
  ASSUME NEW m \in Memories, NEW a \in Answers
  PROVE  Upserts(m, a) \in Seq(Upd)
<1> DEFINE es == Named(a)
           mem == MemoryNode[m]
           E == Each(es, Node)
           R == Each(Usable(a), LAMBDA r : Link(Edge(r.from, r.to, r.label)))
           L == <<Node(mem)>>
           M == Each(es, LAMBDA x : Link(Edge(mem, x, "mentions")))
<1>0. es \in Seq(Ids) /\ Usable(a) \in Seq(EdgeType) /\ mem \in Ids
  BY AnswerTypes, GraphAssumption
<1>1. E \in Seq(Upd) /\ R \in Seq(Upd) /\ L \in Seq(Upd) /\ M \in Seq(Upd)
  BY <1>0, UpsertParts
<1>2. Upserts(m, a) = IF a.entities = <<>> THEN <<>>
                      ELSE E \o R \o (IF es = <<>> THEN <<>> ELSE L \o M)
  BY DEF Upserts
<1> HIDE DEF es, mem, E, R, L, M
<1>3. <<>> \in Seq(Upd)
  OBVIOUS
<1>4. (IF es = <<>> THEN <<>> ELSE L \o M) \in Seq(Upd)
  BY <1>1, <1>3
<1>5. E \o R \o (IF es = <<>> THEN <<>> ELSE L \o M) \in Seq(Upd)
  BY <1>1, <1>4
<1> QED
  BY <1>2, <1>3, <1>5

-----------------------------------------------------------------------------
(* The counters.  Each is exact up to the calls under way that have done   *)
(* one of their adds and not yet the other, so the invariant counts these. *)

At(o, pcs) == {c \in Clients : o[c].pc \in pcs}
Serving(o) == {c \in Clients : o[c].pc # "idle" /\ o[c].door = "resp"}
Timing(t)  == {c \in Clients : t[c].pc # "idle"}

CountInv ==
  /\ metrics.count = spent.count /\ metrics.sum = spent.sum
  /\ metrics.commands + Cardinality(Timing(timing)) = spent.count
  /\ metrics.mcpTotal = ToolTotal(metrics.byTool) + Cardinality(At(op, {"tool"}))
  /\ metrics.commands + metrics.mcpTotal + Cardinality(Timing(timing))
       + Cardinality(Serving(op)) = calls
  /\ metrics.inFlight = Cardinality(At(op, {"ask"}))
  /\ metrics.completions = metrics.extractions + metrics.failures
                           + Cardinality(At(op, {"ask", "record"}))
  /\ returned = [extractions |-> metrics.extractions, entities |-> metrics.entities,
                 relations |-> metrics.relations]

(* One goroutine is in a call or records its time, and never both; a tool  *)
(* is being counted; a swap is tried with a larger value.                  *)
CallOK(o, t) ==
  /\ o.pc = "idle" \/ t.pc = "idle"
  /\ o.pc = "tool" => o.tool \in Tools /\ o.door = "mcp"
  /\ o.pc \in {"ask", "record"} => o.memory \in Memories
  /\ t.pc = "swap" => t.cur < t.d

(* The largest latency is the recorded maximum, or somebody is still about *)
(* to record it.                                                           *)
MaxInv ==
  /\ metrics.max <= spent.max
  /\ \A c \in Clients : timing[c].pc \in {"load", "swap"} => timing[c].d <= spent.max
  /\ \/ metrics.max = spent.max
     \/ \E c \in Clients : timing[c].pc \in {"load", "swap"} /\ timing[c].d = spent.max

(* What a snapshot under way has read is covered by what it still reads.   *)
SnapInv ==
  /\ snap.pc \in {"latency", "counters"} => ToolTotal(snap.byTool) <= metrics.mcpTotal
  /\ snap.pc = "counters" => snap.count <= metrics.commands + Cardinality(Clients)
  /\ SnapshotCovers

Inv == TypeInv /\ CountInv /\ (\A c \in Clients : CallOK(op[c], timing[c])) /\ MaxInv /\ SnapInv

One(b) == IF b THEN 1 ELSE 0

(* The size of a set of clients of which only c may come or go. *)
LEMMA Tally ==
  ASSUME NEW S, NEW T, S \subseteq Clients, T \subseteq Clients, NEW c \in Clients,
         \A d \in Clients \ {c} : d \in S <=> d \in T
  PROVE  /\ Cardinality(S) \in Nat /\ Cardinality(T) \in Nat
         /\ Cardinality(T) = Cardinality(S) + One(c \in T) - One(c \in S)
<1> DEFINE R == S \ {c}
<1>1. IsFiniteSet(S) /\ IsFiniteSet(T) /\ IsFiniteSet(R)
  BY FS_Subset, MetricsAssumption
<1>2. Cardinality(S) \in Nat /\ Cardinality(T) \in Nat /\ Cardinality(R) \in Nat
  BY <1>1, FS_CardinalityType
<1>3. c \notin R /\ (S = R \/ S = R \cup {c}) /\ (T = R \/ T = R \cup {c})
  OBVIOUS
<1>4. Cardinality(R \cup {c}) = Cardinality(R) + 1
  BY <1>1, <1>3, FS_AddElement
<1>5. CASE S = R /\ T = R
  BY <1>2, <1>3, <1>5 DEF One
<1>6. CASE S = R /\ T = R \cup {c}
  BY <1>2, <1>3, <1>4, <1>6 DEF One
<1>7. CASE S = R \cup {c} /\ T = R
  BY <1>2, <1>3, <1>4, <1>7 DEF One
<1>8. CASE S = R \cup {c} /\ T = R \cup {c}
  BY <1>2, <1>3, <1>4, <1>8 DEF One
<1> HIDE DEF R
<1> QED
  BY <1>3, <1>5, <1>6, <1>7, <1>8

(* The sizes that CountInv counts, when client c's call moves on from o[c] to p[c]. *)
AtMoves(o, p, c) ==
  \A pcs : /\ Cardinality(At(o, pcs)) \in Nat /\ Cardinality(At(p, pcs)) \in Nat
           /\ Cardinality(At(p, pcs)) = Cardinality(At(o, pcs))
                                        + One(p[c].pc \in pcs) - One(o[c].pc \in pcs)

ServingMoves(o, p, c) ==
  /\ Cardinality(Serving(o)) \in Nat /\ Cardinality(Serving(p)) \in Nat
  /\ Cardinality(Serving(p)) = Cardinality(Serving(o))
                               + One(p[c].pc # "idle" /\ p[c].door = "resp")
                               - One(o[c].pc # "idle" /\ o[c].door = "resp")

LEMMA OpMoves ==
  ASSUME NEW o \in [Clients -> OpType], NEW c \in Clients, NEW x, NEW p, p = [o EXCEPT ![c] = x]
  PROVE  AtMoves(o, p, c) /\ ServingMoves(o, p, c)
<1>1. p[c] = x /\ \A d \in Clients \ {c} : p[d] = o[d]
  OBVIOUS
<1>2. ASSUME NEW pcs
      PROVE  /\ Cardinality(At(o, pcs)) \in Nat /\ Cardinality(At(p, pcs)) \in Nat
             /\ Cardinality(At(p, pcs)) = Cardinality(At(o, pcs))
                                          + One(x.pc \in pcs) - One(o[c].pc \in pcs)
  <2> DEFINE S == At(o, pcs)
             T == At(p, pcs)
  <2>1. /\ S \subseteq Clients /\ T \subseteq Clients
        /\ \A d \in Clients \ {c} : d \in S <=> d \in T
        /\ c \in T <=> x.pc \in pcs
        /\ c \in S <=> o[c].pc \in pcs
    BY <1>1 DEF At
  <2> HIDE DEF S, T
  <2>2. /\ Cardinality(S) \in Nat /\ Cardinality(T) \in Nat
        /\ Cardinality(T) = Cardinality(S) + One(c \in T) - One(c \in S)
    BY <2>1, Tally
  <2>3. One(c \in T) = One(x.pc \in pcs) /\ One(c \in S) = One(o[c].pc \in pcs)
    BY <2>1 DEF One
  <2> QED
    BY <2>2, <2>3 DEF S, T
<1>3. /\ Cardinality(Serving(o)) \in Nat /\ Cardinality(Serving(p)) \in Nat
      /\ Cardinality(Serving(p)) = Cardinality(Serving(o))
                                   + One(x.pc # "idle" /\ x.door = "resp")
                                   - One(o[c].pc # "idle" /\ o[c].door = "resp")
  <2> DEFINE S == Serving(o)
             T == Serving(p)
  <2>1. /\ S \subseteq Clients /\ T \subseteq Clients
        /\ \A d \in Clients \ {c} : d \in S <=> d \in T
        /\ c \in T <=> x.pc # "idle" /\ x.door = "resp"
        /\ c \in S <=> o[c].pc # "idle" /\ o[c].door = "resp"
    BY <1>1 DEF Serving
  <2> HIDE DEF S, T
  <2>2. /\ Cardinality(S) \in Nat /\ Cardinality(T) \in Nat
        /\ Cardinality(T) = Cardinality(S) + One(c \in T) - One(c \in S)
    BY <2>1, Tally
  <2>3. /\ One(c \in T) = One(x.pc # "idle" /\ x.door = "resp")
        /\ One(c \in S) = One(o[c].pc # "idle" /\ o[c].door = "resp")
    BY <2>1 DEF One
  <2> QED
    BY <2>2, <2>3 DEF S, T
<1> QED
  BY <1>1, <1>2, <1>3 DEF AtMoves, ServingMoves

(* A step of one call that is not about time. *)
LEMMA CallStep ==
  ASSUME Inv, NEW c \in Clients, NEW x \in OpType, op' = [op EXCEPT ![c] = x],
         timing' = timing, snap' = snap, spent' = spent, CallOK(x, timing[c]),
         metrics' \in MetricsType, calls' \in Nat,
         returned' \in [extractions : Nat, entities : Nat, relations : Nat],
         metrics'.count = metrics.count, metrics'.sum = metrics.sum, metrics'.max = metrics.max,
         metrics'.commands = metrics.commands, metrics'.mcpTotal >= metrics.mcpTotal,
         metrics'.mcpTotal - ToolTotal(metrics'.byTool) =
           metrics.mcpTotal - ToolTotal(metrics.byTool)
             + One(x.pc \in {"tool"}) - One(op[c].pc \in {"tool"}),
         calls' - metrics'.mcpTotal =
           calls - metrics.mcpTotal + One(x.pc # "idle" /\ x.door = "resp")
             - One(op[c].pc # "idle" /\ op[c].door = "resp"),
         metrics'.inFlight = metrics.inFlight + One(x.pc \in {"ask"}) - One(op[c].pc \in {"ask"}),
         metrics'.completions - metrics'.extractions - metrics'.failures =
           metrics.completions - metrics.extractions - metrics.failures
             + One(x.pc \in {"ask", "record"}) - One(op[c].pc \in {"ask", "record"}),
         returned' = [extractions |-> metrics'.extractions, entities |-> metrics'.entities,
                      relations |-> metrics'.relations]
  PROVE  Inv'
<1>1. op \in [Clients -> OpType] /\ op' \in [Clients -> OpType]
  BY DEF Inv, TypeInv
<1>2. TypeInv'
  BY <1>1 DEF Inv, TypeInv
<1>3. \A d \in Clients : CallOK(op'[d], timing'[d])
  BY <1>1 DEF Inv
<1>4. metrics \in MetricsType /\ calls \in Nat
  BY DEF Inv, TypeInv
<1>5. /\ metrics.mcpTotal \in Nat /\ metrics'.mcpTotal \in Nat /\ metrics.commands \in Nat
      /\ metrics.inFlight \in Int /\ metrics'.inFlight \in Int
      /\ metrics.completions \in Nat /\ metrics'.completions \in Nat
      /\ metrics.extractions \in Nat /\ metrics'.extractions \in Nat
      /\ metrics.failures \in Nat /\ metrics'.failures \in Nat
      /\ ToolTotal(metrics.byTool) \in Nat /\ ToolTotal(metrics'.byTool) \in Nat
  <2>1. metrics.byTool \in [Tools -> Nat] /\ metrics'.byTool \in [Tools -> Nat]
    BY <1>4 DEF MetricsType
  <2>2. ToolTotal(metrics.byTool) \in Nat /\ ToolTotal(metrics'.byTool) \in Nat
    BY <2>1 DEF ToolTotal, Tools
  <2> QED
    BY <1>4, <2>2 DEF MetricsType
<1>6. Cardinality(Timing(timing)) \in Nat /\ Cardinality(Clients) \in Nat
  <2>1. Timing(timing) \subseteq Clients
    BY DEF Timing
  <2> QED
    BY <2>1, FS_Subset, FS_CardinalityType, MetricsAssumption
<1> DEFINE newOp == op'
<1>0. newOp[c] = x
  BY <1>1
<1>10. AtMoves(op, newOp, c) /\ ServingMoves(op, newOp, c)
  <2>1. newOp = [op EXCEPT ![c] = x]
    OBVIOUS
  <2> HIDE DEF newOp
  <2> QED
    BY <1>1, <2>1, OpMoves, Zenon
<1>11. metrics'.commands = metrics.commands
  OBVIOUS
<1>7. CountInv'
  <2>1. metrics'.commands + Cardinality(Timing(timing')) = spent'.count
    BY DEF Inv, CountInv
  <2>2. metrics'.mcpTotal = ToolTotal(metrics'.byTool) + Cardinality(At(op', {"tool"}))
    <3> DEFINE n == Cardinality(At(op, {"tool"}))
               m == Cardinality(At(op', {"tool"}))
               i == One(x.pc \in {"tool"})
               j == One(op[c].pc \in {"tool"})
    <3>1. n \in Nat /\ m \in Nat /\ m = n + i - j /\ i \in Nat /\ j \in Nat
      BY <1>0, <1>10 DEF One, AtMoves
    <3>2. metrics.mcpTotal = ToolTotal(metrics.byTool) + n
      BY DEF Inv, CountInv
    <3>3. metrics'.mcpTotal - ToolTotal(metrics'.byTool) =
            metrics.mcpTotal - ToolTotal(metrics.byTool) + i - j
      OBVIOUS
    <3> HIDE DEF n, m, i, j
    <3>4. metrics'.mcpTotal = ToolTotal(metrics'.byTool) + m
      BY <1>5, <3>1, <3>2, <3>3
    <3> QED
      BY <3>4 DEF m
  <2>3. metrics'.commands + metrics'.mcpTotal + Cardinality(Timing(timing'))
          + Cardinality(Serving(op')) = calls'
    <3> DEFINE n == Cardinality(Serving(op))
               m == Cardinality(Serving(op'))
               t == Cardinality(Timing(timing))
               i == One(x.pc # "idle" /\ x.door = "resp")
               j == One(op[c].pc # "idle" /\ op[c].door = "resp")
    <3>1. n \in Nat /\ m \in Nat /\ m = n + i - j /\ i \in Nat /\ j \in Nat
      BY <1>0, <1>10 DEF One, ServingMoves
    <3>2. metrics.commands + metrics.mcpTotal + t + n = calls
      BY DEF Inv, CountInv
    <3>3. calls' - metrics'.mcpTotal = calls - metrics.mcpTotal + i - j
      OBVIOUS
    <3>4. t \in Nat /\ Cardinality(Timing(timing')) = t
      BY <1>6
    <3> DEFINE k == metrics.commands
               a == metrics.mcpTotal
               b == metrics'.mcpTotal
               u == calls
               v == calls'
    <3>6. /\ k \in Nat /\ a \in Nat /\ b \in Nat /\ u \in Nat /\ v \in Nat
          /\ k + a + t + n = u /\ v - b = u - a + i - j
      BY <1>4, <1>5, <3>2, <3>3
    <3> HIDE DEF n, m, i, j, t, k, a, b, u, v
    <3>7. k + b + t + m = v
      BY <3>1, <3>4, <3>6
    <3>5. metrics'.commands + metrics'.mcpTotal + t + m = calls'
      BY <1>11, <3>7 DEF k, b, v
    <3> QED
      BY <3>4, <3>5 DEF m
  <2>4. metrics'.inFlight = Cardinality(At(op', {"ask"}))
    <3> DEFINE n == Cardinality(At(op, {"ask"}))
               m == Cardinality(At(op', {"ask"}))
               i == One(x.pc \in {"ask"})
               j == One(op[c].pc \in {"ask"})
    <3>1. n \in Nat /\ m \in Nat /\ m = n + i - j /\ i \in Nat /\ j \in Nat
      BY <1>0, <1>10 DEF One, AtMoves
    <3>2. metrics.inFlight = n
      BY DEF Inv, CountInv
    <3>3. metrics'.inFlight = metrics.inFlight + i - j
      OBVIOUS
    <3> HIDE DEF n, m, i, j
    <3>4. metrics'.inFlight = m
      BY <1>5, <3>1, <3>2, <3>3
    <3> QED
      BY <3>4 DEF m
  <2>5. metrics'.completions = metrics'.extractions + metrics'.failures
                               + Cardinality(At(op', {"ask", "record"}))
    <3> DEFINE n == Cardinality(At(op, {"ask", "record"}))
               m == Cardinality(At(op', {"ask", "record"}))
               i == One(x.pc \in {"ask", "record"})
               j == One(op[c].pc \in {"ask", "record"})
    <3>1. n \in Nat /\ m \in Nat /\ m = n + i - j /\ i \in Nat /\ j \in Nat
      BY <1>0, <1>10 DEF One, AtMoves
    <3>2. metrics.completions = metrics.extractions + metrics.failures + n
      BY DEF Inv, CountInv
    <3>3. metrics'.completions - metrics'.extractions - metrics'.failures =
            metrics.completions - metrics.extractions - metrics.failures + i - j
      OBVIOUS
    <3> HIDE DEF n, m, i, j
    <3>4. metrics'.completions = metrics'.extractions + metrics'.failures + m
      BY <1>5, <3>1, <3>2, <3>3
    <3> QED
      BY <3>4 DEF m
  <2>6. metrics'.count = spent'.count /\ metrics'.sum = spent'.sum
    BY DEF Inv, CountInv
  <2> QED
    BY <2>1, <2>2, <2>3, <2>4, <2>5, <2>6 DEF CountInv
<1>8. MaxInv'
  BY DEF Inv, MaxInv
<1>9. SnapInv'
  <2>1. snap.byTool \in [Tools -> Nat] /\ snap.count \in Nat
    BY DEF Inv, TypeInv
  <2>2. ToolTotal(snap.byTool) \in Nat
    BY <2>1 DEF ToolTotal, Tools
  <2> QED
    BY <1>5, <1>6, <2>2 DEF Inv, SnapInv, SnapshotCovers
<1> QED
  BY <1>2, <1>3, <1>7, <1>8, <1>9 DEF Inv

(* A step of one call that leaves the counters alone. *)
LEMMA QuietStep ==
  ASSUME Inv, NEW c \in Clients, NEW x \in OpType, op' = [op EXCEPT ![c] = x],
         UNCHANGED <<returned, metricsVars>>, CallOK(x, timing[c]), calls' \in Nat,
         x.pc \notin {"tool", "ask"}, op[c].pc \notin {"tool", "ask"},
         x.pc = "record" <=> op[c].pc = "record",
         calls' = calls + One(x.pc # "idle" /\ x.door = "resp")
                        - One(op[c].pc # "idle" /\ op[c].door = "resp")
  PROVE  Inv'
<1>1. /\ timing' = timing /\ snap' = snap /\ spent' = spent /\ metrics' = metrics
      /\ returned' = returned
  BY DEF metricsVars
<1>2. metrics \in MetricsType /\ returned \in [extractions : Nat, entities : Nat, relations : Nat]
      /\ calls \in Nat
  BY DEF Inv, TypeInv
<1>3. /\ metrics.mcpTotal \in Nat /\ metrics.inFlight \in Int
      /\ metrics.completions \in Nat /\ metrics.extractions \in Nat /\ metrics.failures \in Nat
      /\ metrics.byTool \in [Tools -> Nat]
  BY <1>2 DEF MetricsType
<1>4. ToolTotal(metrics.byTool) \in Nat
  BY <1>3 DEF ToolTotal, Tools
<1>5. /\ One(x.pc \in {"tool"}) = 0 /\ One(op[c].pc \in {"tool"}) = 0
      /\ One(x.pc \in {"ask"}) = 0 /\ One(op[c].pc \in {"ask"}) = 0
      /\ One(x.pc \in {"ask", "record"}) = One(op[c].pc \in {"ask", "record"})
      /\ One(op[c].pc \in {"ask", "record"}) \in Nat
      /\ One(x.pc # "idle" /\ x.door = "resp") \in Nat
      /\ One(op[c].pc # "idle" /\ op[c].door = "resp") \in Nat
  BY DEF One
<1>6. returned = [extractions |-> metrics.extractions, entities |-> metrics.entities,
                  relations |-> metrics.relations]
  BY DEF Inv, CountInv
<1>7. /\ metrics'.mcpTotal >= metrics.mcpTotal
      /\ metrics'.mcpTotal - ToolTotal(metrics'.byTool) =
           metrics.mcpTotal - ToolTotal(metrics.byTool)
             + One(x.pc \in {"tool"}) - One(op[c].pc \in {"tool"})
      /\ metrics'.inFlight = metrics.inFlight + One(x.pc \in {"ask"}) - One(op[c].pc \in {"ask"})
  BY <1>1, <1>3, <1>4, <1>5
<1>8. metrics'.completions - metrics'.extractions - metrics'.failures =
           metrics.completions - metrics.extractions - metrics.failures
             + One(x.pc \in {"ask", "record"}) - One(op[c].pc \in {"ask", "record"})
  BY <1>1, <1>3, <1>5
<1>9. calls' - metrics'.mcpTotal =
           calls - metrics.mcpTotal + One(x.pc # "idle" /\ x.door = "resp")
             - One(op[c].pc # "idle" /\ op[c].door = "resp")
  BY <1>1, <1>2, <1>3, <1>5
<1> QED
  BY <1>1, <1>2, <1>6, <1>7, <1>8, <1>9, CallStep

LEMMA IdleType == Idle \in OpType
<1> DEFINE e == <<>>
<1>1. e \in Seq(Upd) /\ e \in Seq(Ids)
  OBVIOUS
<1> HIDE DEF e
<1>2. [pc |-> "idle", door |-> "none", tool |-> "none", memory |-> "none",
       todo |-> e, added |-> e, relations |-> 0] \in OpType
  BY <1>1 DEF OpType
<1> QED
  BY <1>2 DEF Idle, e

LEMMA CommandStep ==
  ASSUME Inv, NEW c \in Clients, NEW t \in Tools, Command(c, t)
  PROVE  Inv'
<1> DEFINE x == [Idle EXCEPT !.door = "resp", !.tool = t, !.pc = "run"]
<1>1. x \in OpType
  BY IdleType DEF OpType
<1>2. x.pc = "run" /\ x.door = "resp"
  BY DEF Idle
<1>3. op' = [op EXCEPT ![c] = x] /\ op[c].pc = "idle" /\ timing[c].pc = "idle"
      /\ calls' = calls + 1 /\ UNCHANGED <<returned, metricsVars>>
  BY DEF Command
<1>4. calls \in Nat
  BY DEF Inv, TypeInv
<1> HIDE DEF x
<1>5. CallOK(x, timing[c])
  BY <1>2, <1>3 DEF CallOK
<1>6. calls' \in Nat /\ calls' = calls + One(x.pc # "idle" /\ x.door = "resp")
                                       - One(op[c].pc # "idle" /\ op[c].door = "resp")
  BY <1>2, <1>3, <1>4 DEF One
<1>7. x.pc \notin {"tool", "ask"} /\ op[c].pc \notin {"tool", "ask"}
      /\ (x.pc = "record" <=> op[c].pc = "record")
  BY <1>2, <1>3
<1> QED
  BY <1>1, <1>3, <1>5, <1>6, <1>7, QuietStep

(* A step that ends or goes on with a call, and adds nothing to a counter. *)
LEMMA SameDoorStep ==
  ASSUME Inv, NEW c \in Clients, NEW x \in OpType, op' = [op EXCEPT ![c] = x],
         UNCHANGED <<calls, returned, metricsVars>>,
         x.pc \notin {"tool", "ask"}, op[c].pc \notin {"idle", "tool", "ask"},
         x.pc = "record" <=> op[c].pc = "record", x.pc = "record" => x.memory = op[c].memory,
         \/ x.pc # "idle" /\ x.door = op[c].door
         \/ x.pc = "idle" /\ op[c].door # "resp"
  PROVE  Inv'
<1>1. calls \in Nat /\ calls' = calls
  BY DEF Inv, TypeInv
<1>2. CallOK(op[c], timing[c])
  BY DEF Inv
<1>3. CallOK(x, timing[c])
  BY <1>2 DEF CallOK
<1>4. /\ One(x.pc # "idle" /\ x.door = "resp") = One(op[c].pc # "idle" /\ op[c].door = "resp")
      /\ One(x.pc # "idle" /\ x.door = "resp") \in Nat
  BY DEF One
<1>5. calls' = calls + One(x.pc # "idle" /\ x.door = "resp")
                     - One(op[c].pc # "idle" /\ op[c].door = "resp")
  BY <1>1, <1>4
<1>6. UNCHANGED <<returned, metricsVars>>
  OBVIOUS
<1> QED
  BY <1>1, <1>3, <1>5, <1>6, QuietStep

LEMMA ToReplyStep ==
  ASSUME Inv, NEW c \in Clients, handleGraphRelated(c) \/ NoSuchMemory(c)
  PROVE  Inv'
<1> DEFINE x == [op[c] EXCEPT !.pc = "reply"]
<1>1. op \in [Clients -> OpType] /\ op[c] \in OpType
  BY DEF Inv, TypeInv
<1>2. x \in OpType /\ x.pc = "reply" /\ x.door = op[c].door /\ x.memory = op[c].memory
  BY <1>1 DEF OpType
<1>3. op' = [op EXCEPT ![c] = x] /\ op[c].pc = "run" /\ UNCHANGED <<calls, returned, metricsVars>>
  BY DEF handleGraphRelated, NoSuchMemory
<1> HIDE DEF x
<1> QED
  BY <1>2, <1>3, SameDoorStep

LEMMA UpsertStep ==
  ASSUME Inv, NEW c \in Clients, Upsert(c)
  PROVE  Inv'
<1> DEFINE x == [op[c] EXCEPT !.todo = Tail(op[c].todo)]
<1>1. op \in [Clients -> OpType] /\ op[c] \in OpType
  BY DEF Inv, TypeInv
<1>2. op[c].pc = "record" /\ op[c].todo # <<>> /\ UNCHANGED <<calls, returned, metricsVars>>
  BY DEF Upsert
<1>3. Tail(op[c].todo) \in Seq(Upd)
  <2>1. op[c].todo \in Seq(Upd)
    BY <1>1 DEF OpType
  <2> QED
    BY <1>2, <2>1
<1>4. x \in OpType /\ x.pc = op[c].pc /\ x.door = op[c].door /\ x.memory = op[c].memory
  BY <1>1, <1>3 DEF OpType
<1>5. op' = [op EXCEPT ![c] = x]
  BY <1>1 DEF Upsert
<1> HIDE DEF x
<1> QED
  BY <1>2, <1>4, <1>5, SameDoorStep

(* An MCP call ends; its counting was done before it ran. *)
LEMMA ToolReplyStep ==
  ASSUME Inv, NEW c \in Clients, Reply(c), op[c].door # "resp"
  PROVE  Inv'
<1>1. op[c].pc = "reply" /\ op' = [op EXCEPT ![c] = Idle]
      /\ UNCHANGED <<calls, returned, metricsVars>>
  BY DEF Reply
<1>2. Idle.pc = "idle"
  BY DEF Idle
<1> QED
  BY <1>1, <1>2, IdleType, SameDoorStep

(* What the counters' steps do, field by field. *)
LEMMA MetricsFields ==
  ASSUME NEW m \in MetricsType
  PROVE  /\ m.commands \in Nat /\ m.mcpTotal \in Nat /\ m.byTool \in [Tools -> Nat]
         /\ m.completions \in Nat /\ m.failures \in Nat /\ m.inFlight \in Int
         /\ m.extractions \in Nat /\ m.entities \in Nat /\ m.relations \in Nat
         /\ m.count \in Nat /\ m.sum \in Nat /\ m.max \in Nat
         /\ ToolTotal(m.byTool) \in Nat
<1>1. m.byTool \in [Tools -> Nat]
  BY DEF MetricsType
<1>2. ToolTotal(m.byTool) \in Nat
  BY <1>1 DEF ToolTotal, Tools
<1> QED
  BY <1>2 DEF MetricsType

LEMMA ToolCallStep ==
  ASSUME Inv, NEW c \in Clients, NEW t \in Tools, ToolCall(c, t)
  PROVE  Inv'
<1> DEFINE x == [Idle EXCEPT !.door = "mcp", !.tool = t, !.pc = "tool"]
<1>1. x \in OpType
  BY IdleType DEF OpType
<1>2. x.pc = "tool" /\ x.door = "mcp" /\ x.tool = t
  BY DEF Idle
<1>3. op' = [op EXCEPT ![c] = x] /\ op[c].pc = "idle" /\ timing[c].pc = "idle"
      /\ calls' = calls + 1 /\ UNCHANGED <<returned, timing, snap, spent>>
      /\ metrics' = [metrics EXCEPT !.mcpTotal = metrics.mcpTotal + 1]
  BY DEF ToolCall, MCPCallRecorded
<1>4. calls \in Nat /\ metrics \in MetricsType
      /\ returned \in [extractions : Nat, entities : Nat, relations : Nat]
      /\ returned = [extractions |-> metrics.extractions, entities |-> metrics.entities,
                     relations |-> metrics.relations]
  BY DEF Inv, TypeInv, CountInv
<1> HIDE DEF x
<1>5. CallOK(x, timing[c])
  BY <1>2, <1>3 DEF CallOK
<1>6. /\ metrics.mcpTotal \in Nat /\ ToolTotal(metrics.byTool) \in Nat /\ metrics.inFlight \in Int
      /\ metrics.completions \in Nat /\ metrics.extractions \in Nat /\ metrics.failures \in Nat
  BY <1>4, MetricsFields
<1>7. /\ metrics' \in MetricsType
      /\ metrics'.count = metrics.count /\ metrics'.sum = metrics.sum /\ metrics'.max = metrics.max
      /\ metrics'.commands = metrics.commands /\ metrics'.byTool = metrics.byTool
      /\ metrics'.inFlight = metrics.inFlight /\ metrics'.completions = metrics.completions
      /\ metrics'.extractions = metrics.extractions /\ metrics'.failures = metrics.failures
      /\ metrics'.entities = metrics.entities /\ metrics'.relations = metrics.relations
      /\ metrics'.mcpTotal = metrics.mcpTotal + 1
  BY <1>3, <1>4 DEF MetricsType
<1>8. /\ One(x.pc \in {"tool"}) = 1 /\ One(op[c].pc \in {"tool"}) = 0
      /\ One(x.pc \in {"ask"}) = 0 /\ One(op[c].pc \in {"ask"}) = 0
      /\ One(x.pc \in {"ask", "record"}) = 0 /\ One(op[c].pc \in {"ask", "record"}) = 0
      /\ One(x.pc # "idle" /\ x.door = "resp") = 0
      /\ One(op[c].pc # "idle" /\ op[c].door = "resp") = 0
  BY <1>2, <1>3 DEF One
<1>9. /\ calls' \in Nat /\ metrics'.mcpTotal >= metrics.mcpTotal
      /\ metrics'.mcpTotal - ToolTotal(metrics'.byTool) =
           metrics.mcpTotal - ToolTotal(metrics.byTool) + 1 - 0
      /\ calls' - metrics'.mcpTotal = calls - metrics.mcpTotal + 0 - 0
      /\ metrics'.inFlight = metrics.inFlight + 0 - 0
      /\ metrics'.completions - metrics'.extractions - metrics'.failures =
           metrics.completions - metrics.extractions - metrics.failures + 0 - 0
  BY <1>3, <1>4, <1>6, <1>7
<1>10. returned' = [extractions |-> metrics'.extractions, entities |-> metrics'.entities,
                    relations |-> metrics'.relations]
  BY <1>3, <1>4, <1>7
<1>11. returned' \in [extractions : Nat, entities : Nat, relations : Nat]
  BY <1>3, <1>4
<1> QED
  BY <1>1, <1>3, <1>5, <1>7, <1>8, <1>9, <1>10, <1>11, CallStep

(* A step in the middle of a call, which adds to a counter. *)
LEMMA CountedStep ==
  ASSUME Inv, NEW c \in Clients, NEW x \in OpType, op' = [op EXCEPT ![c] = x],
         UNCHANGED <<calls, timing, snap, spent>>, CallOK(x, timing[c]),
         x.pc # "idle", op[c].pc # "idle", x.door = op[c].door,
         metrics' \in MetricsType,
         metrics'.count = metrics.count, metrics'.sum = metrics.sum, metrics'.max = metrics.max,
         metrics'.commands = metrics.commands, metrics'.mcpTotal = metrics.mcpTotal,
         ToolTotal(metrics'.byTool) = ToolTotal(metrics.byTool)
             + One(op[c].pc = "tool") - One(x.pc = "tool"),
         metrics'.inFlight = metrics.inFlight + One(x.pc = "ask") - One(op[c].pc = "ask"),
         metrics'.completions - metrics'.extractions - metrics'.failures =
           metrics.completions - metrics.extractions - metrics.failures
             + One(x.pc \in {"ask", "record"}) - One(op[c].pc \in {"ask", "record"}),
         returned' = [extractions |-> metrics'.extractions, entities |-> metrics'.entities,
                      relations |-> metrics'.relations]
  PROVE  Inv'
<1>1. metrics \in MetricsType /\ calls \in Nat
  BY DEF Inv, TypeInv
<1>2. /\ metrics.mcpTotal \in Nat /\ ToolTotal(metrics.byTool) \in Nat
      /\ metrics'.extractions \in Nat /\ metrics'.entities \in Nat /\ metrics'.relations \in Nat
  BY <1>1, MetricsFields
<1>3. /\ One(x.pc \in {"tool"}) = One(x.pc = "tool") /\ One(op[c].pc \in {"tool"}) = One(op[c].pc = "tool")
      /\ One(x.pc \in {"ask"}) = One(x.pc = "ask") /\ One(op[c].pc \in {"ask"}) = One(op[c].pc = "ask")
      /\ One(x.pc = "tool") \in Nat /\ One(op[c].pc = "tool") \in Nat
      /\ One(x.pc # "idle" /\ x.door = "resp") = One(op[c].pc # "idle" /\ op[c].door = "resp")
      /\ One(op[c].pc # "idle" /\ op[c].door = "resp") \in Nat
  BY DEF One
<1> DEFINE i == One(x.pc = "tool")
           j == One(op[c].pc = "tool")
           s == One(op[c].pc # "idle" /\ op[c].door = "resp")
           a == metrics.mcpTotal
           n == ToolTotal(metrics.byTool)
           m == ToolTotal(metrics'.byTool)
           u == calls
<1>4. i \in Nat /\ j \in Nat /\ s \in Nat /\ a \in Nat /\ n \in Nat /\ u \in Nat /\ m = n + j - i
  BY <1>1, <1>2, <1>3
<1> HIDE DEF i, j, s, a, n, m, u
<1>5. a >= a /\ a - m = a - n + i - j /\ u - a = u - a + s - s
  BY <1>4
<1>6. /\ metrics'.mcpTotal >= metrics.mcpTotal
      /\ metrics'.mcpTotal - ToolTotal(metrics'.byTool) =
           metrics.mcpTotal - ToolTotal(metrics.byTool)
             + One(x.pc \in {"tool"}) - One(op[c].pc \in {"tool"})
  BY <1>3, <1>5 DEF a, m, n, i, j
<1>7. calls' - metrics'.mcpTotal =
           calls - metrics.mcpTotal + One(x.pc # "idle" /\ x.door = "resp")
             - One(op[c].pc # "idle" /\ op[c].door = "resp")
  BY <1>3, <1>5 DEF a, u, s
<1>8. metrics'.inFlight = metrics.inFlight + One(x.pc \in {"ask"}) - One(op[c].pc \in {"ask"})
  BY <1>3
<1>9. /\ returned' \in [extractions : Nat, entities : Nat, relations : Nat]
      /\ calls' \in Nat /\ timing' = timing /\ snap' = snap /\ spent' = spent
  BY <1>1, <1>2
<1> QED
  BY <1>6, <1>7, <1>8, <1>9, CallStep

LEMMA ToolCountedStep ==
  ASSUME Inv, NEW c \in Clients, ToolCounted(c)
  PROVE  Inv'
<1> DEFINE x == [op[c] EXCEPT !.pc = "run"]
           t == op[c].tool
           b == [metrics.byTool EXCEPT ![t] = metrics.byTool[t] + 1]
<1>1. op \in [Clients -> OpType] /\ op[c] \in OpType /\ CallOK(op[c], timing[c])
      /\ metrics \in MetricsType
      /\ returned = [extractions |-> metrics.extractions, entities |-> metrics.entities,
                     relations |-> metrics.relations]
  BY DEF Inv, TypeInv, CountInv
<1>2. x \in OpType /\ x.pc = "run" /\ x.door = op[c].door
  BY <1>1 DEF OpType
<1>3. op' = [op EXCEPT ![c] = x] /\ op[c].pc = "tool"
      /\ UNCHANGED <<calls, timing, snap, spent>> /\ returned' = returned
      /\ metrics' = [metrics EXCEPT !.byTool = b]
  BY DEF ToolCounted, MCPCallRecorded
<1>4. t \in Tools
  BY <1>1, <1>3 DEF CallOK
<1>5. metrics.byTool \in [Tools -> Nat]
  BY <1>1, MetricsFields
<1>6. b \in [Tools -> Nat] /\ ToolTotal(b) = ToolTotal(metrics.byTool) + 1
  BY <1>4, <1>5 DEF ToolTotal, Tools
<1> HIDE DEF x, t, b
<1>7. /\ metrics' \in MetricsType
      /\ metrics'.count = metrics.count /\ metrics'.sum = metrics.sum /\ metrics'.max = metrics.max
      /\ metrics'.commands = metrics.commands /\ metrics'.mcpTotal = metrics.mcpTotal
      /\ metrics'.inFlight = metrics.inFlight /\ metrics'.completions = metrics.completions
      /\ metrics'.extractions = metrics.extractions /\ metrics'.failures = metrics.failures
      /\ metrics'.entities = metrics.entities /\ metrics'.relations = metrics.relations
      /\ metrics'.byTool = b
  BY <1>1, <1>3, <1>6 DEF MetricsType
<1>8. /\ metrics.completions \in Nat /\ metrics.extractions \in Nat /\ metrics.failures \in Nat
      /\ metrics.inFlight \in Int /\ ToolTotal(metrics.byTool) \in Nat
  BY <1>1, MetricsFields
<1>9. CallOK(x, timing[c])
  BY <1>1, <1>2, <1>3 DEF CallOK
<1>10. /\ One(op[c].pc = "tool") = 1 /\ One(x.pc = "tool") = 0
       /\ One(op[c].pc = "ask") = 0 /\ One(x.pc = "ask") = 0
       /\ One(op[c].pc \in {"ask", "record"}) = 0 /\ One(x.pc \in {"ask", "record"}) = 0
  BY <1>2, <1>3 DEF One
<1>11. /\ ToolTotal(metrics'.byTool) = ToolTotal(metrics.byTool) + 1 - 0
       /\ metrics'.inFlight = metrics.inFlight + 0 - 0
       /\ metrics'.completions - metrics'.extractions - metrics'.failures =
            metrics.completions - metrics.extractions - metrics.failures + 0 - 0
  BY <1>6, <1>7, <1>8
<1>12. returned' = [extractions |-> metrics'.extractions, entities |-> metrics'.entities,
                    relations |-> metrics'.relations]
  BY <1>1, <1>3, <1>7
<1>13. x.pc # "idle" /\ op[c].pc # "idle"
  BY <1>2, <1>3
<1> QED
  BY <1>2, <1>3, <1>7, <1>9, <1>10, <1>11, <1>12, <1>13, CountedStep

(* The calls of the language model. *)
LEMMA StartStep ==
  ASSUME Inv, NEW c \in Clients, handleGraphExtract(c)
  PROVE  Inv'
<1>1. op \in [Clients -> OpType] /\ op[c] \in OpType /\ CallOK(op[c], timing[c])
      /\ metrics \in MetricsType
      /\ returned = [extractions |-> metrics.extractions, entities |-> metrics.entities,
                     relations |-> metrics.relations]
  BY DEF Inv, TypeInv, CountInv
<1>2. PICK m \in Memories : op' = [op EXCEPT ![c].pc = "ask", ![c].memory = m]
  BY DEF handleGraphExtract
<1> DEFINE x == [op[c] EXCEPT !.pc = "ask", !.memory = m]
<1>3. op' = [op EXCEPT ![c] = x]
  BY <1>1, <1>2
<1>4. x \in OpType /\ x.pc = "ask" /\ x.door = op[c].door /\ x.memory = m
  BY <1>1 DEF OpType
<1>5. op[c].pc = "run" /\ UNCHANGED <<calls, timing, snap, spent>> /\ returned' = returned
      /\ metrics' = [metrics EXCEPT !.completions = metrics.completions + 1,
                                    !.inFlight = metrics.inFlight + 1]
  BY DEF handleGraphExtract, CompletionCallStarted
<1> HIDE DEF x
<1>6. /\ metrics.completions \in Nat /\ metrics.extractions \in Nat /\ metrics.failures \in Nat
      /\ metrics.inFlight \in Int /\ ToolTotal(metrics.byTool) \in Nat
  BY <1>1, MetricsFields
<1>7. /\ metrics' \in MetricsType
      /\ metrics'.count = metrics.count /\ metrics'.sum = metrics.sum /\ metrics'.max = metrics.max
      /\ metrics'.commands = metrics.commands /\ metrics'.mcpTotal = metrics.mcpTotal
      /\ metrics'.inFlight = metrics.inFlight + 1 /\ metrics'.completions = metrics.completions + 1
      /\ metrics'.extractions = metrics.extractions /\ metrics'.failures = metrics.failures
      /\ metrics'.entities = metrics.entities /\ metrics'.relations = metrics.relations
      /\ metrics'.byTool = metrics.byTool
  <2> DEFINE u == metrics.completions + 1
             v == metrics.inFlight + 1
  <2>1. u \in Nat /\ v \in Int
    BY <1>6
  <2> HIDE DEF u, v
  <2>2. metrics' = [metrics EXCEPT !.completions = u, !.inFlight = v]
    BY <1>5 DEF u, v
  <2>3. /\ metrics' \in MetricsType
        /\ metrics'.count = metrics.count /\ metrics'.sum = metrics.sum /\ metrics'.max = metrics.max
        /\ metrics'.commands = metrics.commands /\ metrics'.mcpTotal = metrics.mcpTotal
        /\ metrics'.inFlight = v /\ metrics'.completions = u
        /\ metrics'.extractions = metrics.extractions /\ metrics'.failures = metrics.failures
        /\ metrics'.entities = metrics.entities /\ metrics'.relations = metrics.relations
        /\ metrics'.byTool = metrics.byTool
    BY <1>1, <2>1, <2>2 DEF MetricsType
  <2> QED
    BY <2>3 DEF u, v
<1>9. CallOK(x, timing[c])
  BY <1>1, <1>4, <1>5 DEF CallOK
<1>10. /\ One(op[c].pc = "tool") = 0 /\ One(x.pc = "tool") = 0
       /\ One(op[c].pc = "ask") = 0 /\ One(x.pc = "ask") = 1
       /\ One(op[c].pc \in {"ask", "record"}) = 0 /\ One(x.pc \in {"ask", "record"}) = 1
  BY <1>4, <1>5 DEF One
<1>11. /\ ToolTotal(metrics'.byTool) = ToolTotal(metrics.byTool) + 0 - 0
       /\ metrics'.inFlight = metrics.inFlight + 1 - 0
       /\ metrics'.completions - metrics'.extractions - metrics'.failures =
            metrics.completions - metrics.extractions - metrics.failures + 1 - 0
  BY <1>6, <1>7
<1>12. returned' = [extractions |-> metrics'.extractions, entities |-> metrics'.entities,
                    relations |-> metrics'.relations]
  BY <1>1, <1>5, <1>7
<1>13. x.pc # "idle" /\ op[c].pc # "idle"
  BY <1>4, <1>5
<1> QED
  BY <1>3, <1>4, <1>5, <1>7, <1>9, <1>10, <1>11, <1>12, <1>13, CountedStep

LEMMA FinishStep ==
  ASSUME Inv, NEW c \in Clients, NEW x \in OpType, NEW failed \in BOOLEAN,
         op' = [op EXCEPT ![c] = x], op[c].pc = "ask", x.door = op[c].door,
         x.memory = op[c].memory, x.pc = IF failed THEN "reply" ELSE "record",
         metrics' = CompletionCallFinished(metrics, failed),
         UNCHANGED <<calls, timing, snap, spent, returned>>
  PROVE  Inv'
<1>1. CallOK(op[c], timing[c]) /\ metrics \in MetricsType
      /\ returned = [extractions |-> metrics.extractions, entities |-> metrics.entities,
                     relations |-> metrics.relations]
  BY DEF Inv, TypeInv, CountInv
<1> DEFINE k == One(failed)
<1>2. k \in {0, 1} /\ One(x.pc \in {"ask", "record"}) = 1 - k
  BY DEF One
<1>3. metrics' = [metrics EXCEPT !.inFlight = metrics.inFlight - 1, !.failures = metrics.failures + k]
  BY DEF CompletionCallFinished, One
<1> HIDE DEF k
<1>6. /\ metrics.completions \in Nat /\ metrics.extractions \in Nat /\ metrics.failures \in Nat
      /\ metrics.inFlight \in Int /\ ToolTotal(metrics.byTool) \in Nat
  BY <1>1, MetricsFields
<1>7. /\ metrics' \in MetricsType
      /\ metrics'.count = metrics.count /\ metrics'.sum = metrics.sum /\ metrics'.max = metrics.max
      /\ metrics'.commands = metrics.commands /\ metrics'.mcpTotal = metrics.mcpTotal
      /\ metrics'.inFlight = metrics.inFlight - 1 /\ metrics'.completions = metrics.completions
      /\ metrics'.extractions = metrics.extractions /\ metrics'.failures = metrics.failures + k
      /\ metrics'.entities = metrics.entities /\ metrics'.relations = metrics.relations
      /\ metrics'.byTool = metrics.byTool
  <2> DEFINE u == metrics.inFlight - 1
             v == metrics.failures + k
  <2>1. u \in Int /\ v \in Nat
    BY <1>2, <1>6
  <2> HIDE DEF u, v
  <2>2. metrics' = [metrics EXCEPT !.inFlight = u, !.failures = v]
    BY <1>3 DEF u, v
  <2>3. /\ metrics' \in MetricsType
        /\ metrics'.count = metrics.count /\ metrics'.sum = metrics.sum /\ metrics'.max = metrics.max
        /\ metrics'.commands = metrics.commands /\ metrics'.mcpTotal = metrics.mcpTotal
        /\ metrics'.inFlight = u /\ metrics'.completions = metrics.completions
        /\ metrics'.extractions = metrics.extractions /\ metrics'.failures = v
        /\ metrics'.entities = metrics.entities /\ metrics'.relations = metrics.relations
        /\ metrics'.byTool = metrics.byTool
    BY <1>1, <2>1, <2>2 DEF MetricsType
  <2> QED
    BY <2>3 DEF u, v
<1>9. CallOK(x, timing[c])
  BY <1>1 DEF CallOK
<1>10. /\ One(op[c].pc = "tool") = 0 /\ One(x.pc = "tool") = 0
       /\ One(op[c].pc = "ask") = 1 /\ One(x.pc = "ask") = 0
       /\ One(op[c].pc \in {"ask", "record"}) = 1
  BY DEF One
<1>11. /\ ToolTotal(metrics'.byTool) = ToolTotal(metrics.byTool) + 0 - 0
       /\ metrics'.inFlight = metrics.inFlight + 0 - 1
       /\ metrics'.completions - metrics'.extractions - metrics'.failures =
            metrics.completions - metrics.extractions - metrics.failures + (1 - k) - 1
  BY <1>2, <1>6, <1>7
<1>12. returned' = [extractions |-> metrics'.extractions, entities |-> metrics'.entities,
                    relations |-> metrics'.relations]
  BY <1>1, <1>7
<1>13. x.pc # "idle" /\ op[c].pc # "idle" /\ UNCHANGED <<calls, timing, snap, spent>>
  OBVIOUS
<1> QED
  BY <1>2, <1>7, <1>9, <1>10, <1>11, <1>12, <1>13, CountedStep

LEMMA ModelStep ==
  ASSUME Inv, NEW c \in Clients, Answered(c) \/ NothingExtracted(c) \/ CompletionFails(c)
  PROVE  Inv'
<1>1. op \in [Clients -> OpType] /\ op[c] \in OpType /\ CallOK(op[c], timing[c])
  BY DEF Inv, TypeInv
<1>2. op[c].pc = "ask" /\ UNCHANGED <<calls, timing, snap, spent, returned>>
  BY DEF Answered, NothingExtracted, CompletionFails
<1>3. CASE Answered(c)
  <2>1. PICK a \in Answers :
          op' = [op EXCEPT ![c] = [op[c] EXCEPT !.pc = "record", !.todo = Upserts(op[c].memory, a),
                   !.added = IF a.entities = <<>> THEN <<>> ELSE Named(a),
                   !.relations = IF a.entities = <<>> THEN 0 ELSE Len(Usable(a))]]
    BY <1>1, <1>3 DEF Answered
  <2> DEFINE u == Upserts(op[c].memory, a)
             v == IF a.entities = <<>> THEN <<>> ELSE Named(a)
             w == IF a.entities = <<>> THEN 0 ELSE Len(Usable(a))
             x == [op[c] EXCEPT !.pc = "record", !.todo = u, !.added = v, !.relations = w]
  <2>2. op[c].memory \in Memories
    BY <1>1, <1>2 DEF CallOK
  <2>3. u \in Seq(Upd) /\ v \in Seq(Ids) /\ w \in Nat
    <3>1. Named(a) \in Seq(Ids) /\ Usable(a) \in Seq(EdgeType)
      BY AnswerTypes
    <3>2. u \in Seq(Upd)
      BY <2>2, UpsertsType
    <3> QED
      BY <3>1, <3>2
  <2>4. op' = [op EXCEPT ![c] = x]
    BY <2>1
  <2> HIDE DEF u, v, w
  <2>5. x \in OpType /\ x.pc = "record" /\ x.door = op[c].door /\ x.memory = op[c].memory
    BY <1>1, <2>3 DEF OpType
  <2>6. metrics' = CompletionCallFinished(metrics, FALSE)
    BY <1>3 DEF Answered
  <2> HIDE DEF x
  <2> QED
    BY <1>2, <2>4, <2>5, <2>6, FinishStep
<1>4. CASE NothingExtracted(c)
  <2> DEFINE x == [op[c] EXCEPT !.pc = "record"]
  <2>1. x \in OpType /\ x.pc = "record" /\ x.door = op[c].door /\ x.memory = op[c].memory
    BY <1>1 DEF OpType
  <2>2. op' = [op EXCEPT ![c] = x] /\ metrics' = CompletionCallFinished(metrics, FALSE)
    BY <1>4 DEF NothingExtracted
  <2> HIDE DEF x
  <2> QED
    BY <1>2, <2>1, <2>2, FinishStep
<1>5. CASE CompletionFails(c)
  <2> DEFINE x == [op[c] EXCEPT !.pc = "reply"]
  <2>1. x \in OpType /\ x.pc = "reply" /\ x.door = op[c].door /\ x.memory = op[c].memory
    BY <1>1 DEF OpType
  <2>2. op' = [op EXCEPT ![c] = x] /\ metrics' = CompletionCallFinished(metrics, TRUE)
    BY <1>5 DEF CompletionFails
  <2> HIDE DEF x
  <2> QED
    BY <1>2, <2>1, <2>2, FinishStep
<1> QED
  BY <1>3, <1>4, <1>5

(* Extract returns: counted with what it added. *)
LEMMA ReturnStep ==
  ASSUME Inv, NEW c \in Clients, ExtractReturns(c)
  PROVE  Inv'
<1> DEFINE x == [op[c] EXCEPT !.pc = "reply"]
           a == metrics.entities + Len(op[c].added)
           r == metrics.relations + op[c].relations
<1>1. op \in [Clients -> OpType] /\ op[c] \in OpType /\ CallOK(op[c], timing[c])
      /\ metrics \in MetricsType
      /\ returned = [extractions |-> metrics.extractions, entities |-> metrics.entities,
                     relations |-> metrics.relations]
  BY DEF Inv, TypeInv, CountInv
<1>2. x \in OpType /\ x.pc = "reply" /\ x.door = op[c].door
      /\ op[c].added \in Seq(Ids) /\ op[c].relations \in Nat
  BY <1>1 DEF OpType
<1>3. op' = [op EXCEPT ![c] = x] /\ op[c].pc = "record" /\ UNCHANGED <<calls, timing, snap, spent>>
      /\ metrics' = [metrics EXCEPT !.extractions = metrics.extractions + 1,
                                    !.entities = a, !.relations = r]
      /\ returned' = [extractions |-> metrics.extractions + 1, entities |-> a, relations |-> r]
  BY <1>1 DEF ExtractReturns, GraphExtractionPerformed
<1>6. /\ metrics.completions \in Nat /\ metrics.extractions \in Nat /\ metrics.failures \in Nat
      /\ metrics.inFlight \in Int /\ ToolTotal(metrics.byTool) \in Nat
      /\ metrics.entities \in Nat /\ metrics.relations \in Nat
  BY <1>1, MetricsFields
<1>4. Len(op[c].added) \in Nat /\ op[c].relations \in Nat
  BY <1>2
<1>5. a \in Nat /\ r \in Nat
  <2> DEFINE l == Len(op[c].added)
             q == op[c].relations
             u == metrics.entities
             v == metrics.relations
  <2>1. l \in Nat /\ q \in Nat /\ u \in Nat /\ v \in Nat
    BY <1>4, <1>6
  <2>2. a = u + l /\ r = v + q
    OBVIOUS
  <2> HIDE DEF l, q, u, v
  <2> QED
    BY <2>1, <2>2
<1> HIDE DEF x, a, r
<1>7. /\ metrics' \in MetricsType
      /\ metrics'.count = metrics.count /\ metrics'.sum = metrics.sum /\ metrics'.max = metrics.max
      /\ metrics'.commands = metrics.commands /\ metrics'.mcpTotal = metrics.mcpTotal
      /\ metrics'.inFlight = metrics.inFlight /\ metrics'.completions = metrics.completions
      /\ metrics'.extractions = metrics.extractions + 1 /\ metrics'.failures = metrics.failures
      /\ metrics'.entities = a /\ metrics'.relations = r
      /\ metrics'.byTool = metrics.byTool
  <2> DEFINE u == metrics.extractions + 1
  <2>1. u \in Nat
    BY <1>6
  <2> HIDE DEF u
  <2>2. metrics' = [metrics EXCEPT !.extractions = u, !.entities = a, !.relations = r]
    BY <1>3 DEF u
  <2>3. /\ metrics' \in MetricsType
        /\ metrics'.count = metrics.count /\ metrics'.sum = metrics.sum /\ metrics'.max = metrics.max
        /\ metrics'.commands = metrics.commands /\ metrics'.mcpTotal = metrics.mcpTotal
        /\ metrics'.inFlight = metrics.inFlight /\ metrics'.completions = metrics.completions
        /\ metrics'.extractions = u /\ metrics'.failures = metrics.failures
        /\ metrics'.entities = a /\ metrics'.relations = r
        /\ metrics'.byTool = metrics.byTool
    BY <1>1, <1>5, <2>1, <2>2 DEF MetricsType
  <2> QED
    BY <2>3 DEF u
<1>9. CallOK(x, timing[c])
  BY <1>1, <1>2, <1>3 DEF CallOK
<1>10. /\ One(op[c].pc = "tool") = 0 /\ One(x.pc = "tool") = 0
       /\ One(op[c].pc = "ask") = 0 /\ One(x.pc = "ask") = 0
       /\ One(op[c].pc \in {"ask", "record"}) = 1 /\ One(x.pc \in {"ask", "record"}) = 0
  BY <1>2, <1>3 DEF One
<1>11. /\ ToolTotal(metrics'.byTool) = ToolTotal(metrics.byTool) + 0 - 0
       /\ metrics'.inFlight = metrics.inFlight + 0 - 0
       /\ metrics'.completions - metrics'.extractions - metrics'.failures =
            metrics.completions - metrics.extractions - metrics.failures + 0 - 1
  BY <1>6, <1>7
<1>12. returned' = [extractions |-> metrics'.extractions, entities |-> metrics'.entities,
                    relations |-> metrics'.relations]
  BY <1>3, <1>7
<1>13. x.pc # "idle" /\ op[c].pc # "idle"
  BY <1>2, <1>3
<1> QED
  BY <1>2, <1>3, <1>7, <1>9, <1>10, <1>11, <1>12, <1>13, CountedStep

-----------------------------------------------------------------------------
(* Latencies. *)

(* The goroutines that record one, when c starts, goes on or ends. *)
TimersMove(t, p, c) ==
  /\ Cardinality(Timing(t)) \in Nat /\ Cardinality(Timing(p)) \in Nat
  /\ Cardinality(Timing(p)) = Cardinality(Timing(t))
                              + One(p[c].pc # "idle") - One(t[c].pc # "idle")

LEMMA TimingMoves ==
  ASSUME NEW t \in [Clients -> TimingType], NEW c \in Clients, NEW x, NEW p, p = [t EXCEPT ![c] = x]
  PROVE  TimersMove(t, p, c)
<1>1. p[c] = x /\ \A d \in Clients \ {c} : p[d] = t[d]
  OBVIOUS
<1> DEFINE S == Timing(t)
           T == Timing(p)
<1>2. /\ S \subseteq Clients /\ T \subseteq Clients
      /\ \A d \in Clients \ {c} : d \in S <=> d \in T
      /\ c \in T <=> x.pc # "idle"
      /\ c \in S <=> t[c].pc # "idle"
  BY <1>1 DEF Timing
<1> HIDE DEF S, T
<1>3. /\ Cardinality(S) \in Nat /\ Cardinality(T) \in Nat
      /\ Cardinality(T) = Cardinality(S) + One(c \in T) - One(c \in S)
  BY <1>2, Tally
<1>4. One(c \in T) = One(x.pc # "idle") /\ One(c \in S) = One(t[c].pc # "idle")
  BY <1>2 DEF One
<1> QED
  BY <1>1, <1>3, <1>4 DEF S, T, TimersMove

(* Never more of them than clients. *)
LEMMA FewTiming == Cardinality(Timing(timing)) \in Nat /\ Cardinality(Clients) \in Nat
                   /\ Cardinality(Timing(timing)) <= Cardinality(Clients)
<1>1. Timing(timing) \subseteq Clients
  BY DEF Timing
<1> QED
  BY <1>1, FS_Subset, FS_CardinalityType, MetricsAssumption

(* A command ends, and its latency is counted. *)
LEMMA CommandReplyStep ==
  ASSUME Inv, NEW c \in Clients, Reply(c), op[c].door = "resp"
  PROVE  Inv'
<1>1. op[c].pc = "reply" /\ op' = [op EXCEPT ![c] = Idle] /\ RecordCommandLatency(c)
      /\ UNCHANGED <<calls, returned>>
  BY DEF Reply
<1>2. PICK d \in Durations :
        /\ metrics' = [metrics EXCEPT !.count = metrics.count + 1, !.sum = metrics.sum + d]
        /\ timing' = [timing EXCEPT ![c] = [pc |-> "load", d |-> d, cur |-> 0]]
        /\ spent' = [count |-> spent.count + 1, sum |-> spent.sum + d,
                     max |-> IF d > spent.max THEN d ELSE spent.max]
  BY <1>1 DEF RecordCommandLatency
<1>3. timing[c].pc = "idle" /\ snap' = snap /\ d \in Nat
  BY <1>1, MetricsAssumption DEF RecordCommandLatency
<1>4. /\ metrics \in MetricsType /\ timing \in [Clients -> TimingType]
      /\ spent \in [count : Nat, sum : Nat, max : Nat] /\ op \in [Clients -> OpType]
      /\ calls \in Nat
  BY DEF Inv, TypeInv
<1> DEFINE y == [pc |-> "load", d |-> d, cur |-> 0]
<1>5. y \in TimingType /\ y.pc = "load" /\ y.d = d
  BY <1>3 DEF TimingType
<1>6. timing' = [timing EXCEPT ![c] = y]
  BY <1>2
<1> HIDE DEF y
<1>7. timing' \in [Clients -> TimingType] /\ op' \in [Clients -> OpType]
  BY <1>1, <1>4, <1>5, <1>6, IdleType
<1>8. /\ metrics.count \in Nat /\ metrics.sum \in Nat /\ metrics.max \in Nat
      /\ metrics.commands \in Nat /\ metrics.mcpTotal \in Nat
  BY <1>4, MetricsFields
<1>9. /\ metrics' \in MetricsType
      /\ metrics'.count = metrics.count + 1 /\ metrics'.sum = metrics.sum + d
      /\ \A k \in {"max", "commands", "mcpTotal", "byTool", "inFlight", "completions", "extractions",
                   "failures", "entities", "relations"} : metrics'[k] = metrics[k]
  <2> DEFINE u == metrics.count + 1
             v == metrics.sum + d
  <2>1. u \in Nat /\ v \in Nat
    BY <1>3, <1>8
  <2> HIDE DEF u, v
  <2>2. metrics' = [metrics EXCEPT !.count = u, !.sum = v]
    BY <1>2 DEF u, v
  <2>3. /\ metrics' \in MetricsType
        /\ metrics'.count = u /\ metrics'.sum = v
        /\ \A k \in {"max", "commands", "mcpTotal", "byTool", "inFlight", "completions", "extractions",
                     "failures", "entities", "relations"} : metrics'[k] = metrics[k]
    BY <1>4, <2>1, <2>2 DEF MetricsType
  <2> QED
    BY <2>3 DEF u, v
<1>10. spent' \in [count : Nat, sum : Nat, max : Nat] /\ spent'.count = spent.count + 1
       /\ spent'.sum = spent.sum + d /\ spent'.max = (IF d > spent.max THEN d ELSE spent.max)
  BY <1>2, <1>3, <1>4
<1>11. TypeInv'
  BY <1>1, <1>3, <1>7, <1>9, <1>10 DEF Inv, TypeInv
<1> DEFINE newOp == op'
           newTiming == timing'
<1>12. AtMoves(op, newOp, c) /\ ServingMoves(op, newOp, c) /\ newOp[c] = Idle
  <2>1. newOp = [op EXCEPT ![c] = Idle]
    BY <1>1
  <2> HIDE DEF newOp
  <2>2. newOp[c] = Idle
    BY <1>4, <2>1
  <2> QED
    BY <1>4, <2>1, <2>2, OpMoves, Zenon
<1>13. /\ Cardinality(Timing(timing)) \in Nat
       /\ Cardinality(Timing(newTiming)) = Cardinality(Timing(timing)) + 1
  <2>1. newTiming = [timing EXCEPT ![c] = y]
    BY <1>6
  <2> HIDE DEF newTiming
  <2>2. TimersMove(timing, newTiming, c)
    BY <1>4, <2>1, TimingMoves, Zenon
  <2>3. newTiming[c].pc # "idle"
    BY <1>4, <1>5, <2>1
  <2> QED
    BY <1>3, <2>2, <2>3 DEF One, TimersMove
<1>14. CountInv'
  <2>1. metrics'.count = spent'.count /\ metrics'.sum = spent'.sum
    BY <1>9, <1>10 DEF Inv, CountInv
  <2>2. /\ metrics.commands + Cardinality(Timing(timing)) = spent.count
        /\ metrics.mcpTotal = ToolTotal(metrics.byTool) + Cardinality(At(op, {"tool"}))
        /\ metrics.commands + metrics.mcpTotal + Cardinality(Timing(timing))
             + Cardinality(Serving(op)) = calls
        /\ metrics.inFlight = Cardinality(At(op, {"ask"}))
        /\ metrics.completions = metrics.extractions + metrics.failures
                                 + Cardinality(At(op, {"ask", "record"}))
        /\ returned = [extractions |-> metrics.extractions, entities |-> metrics.entities,
                       relations |-> metrics.relations]
    BY DEF Inv, CountInv
  <2>3. Idle.pc = "idle"
    BY DEF Idle
  <2>4. /\ Cardinality(At(newOp, {"tool"})) = Cardinality(At(op, {"tool"}))
        /\ Cardinality(At(newOp, {"ask"})) = Cardinality(At(op, {"ask"}))
        /\ Cardinality(At(newOp, {"ask", "record"})) = Cardinality(At(op, {"ask", "record"}))
    <3> HIDE DEF newOp
    <3> QED
      BY <1>1, <1>12, <2>3 DEF AtMoves, One
  <2>5. /\ Cardinality(Serving(op)) \in Nat
        /\ Cardinality(Serving(newOp)) = Cardinality(Serving(op)) - 1
    <3> HIDE DEF newOp
    <3> QED
      BY <1>1, <1>12, <2>3 DEF ServingMoves, One
  <2>6. metrics'.commands + Cardinality(Timing(timing')) = spent'.count
    BY <1>8, <1>9, <1>10, <1>13, <2>2
  <2>7. metrics'.commands + metrics'.mcpTotal + Cardinality(Timing(timing'))
             + Cardinality(Serving(op')) = calls'
    <3> DEFINE k == metrics.commands
               a == metrics.mcpTotal
               t == Cardinality(Timing(timing))
               n == Cardinality(Serving(op))
    <3>1. k \in Nat /\ a \in Nat /\ t \in Nat /\ n \in Nat /\ k + a + t + n = calls
      BY <1>8, <1>13, <2>2, <2>5
    <3> HIDE DEF k, a, t, n
    <3>2. k + a + (t + 1) + (n - 1) = calls
      BY <3>1
    <3> QED
      BY <1>1, <1>9, <1>13, <2>5, <3>2 DEF k, a, t, n
  <2> QED
    BY <1>1, <1>9, <2>1, <2>2, <2>4, <2>6, <2>7 DEF CountInv
<1>15. \A e \in Clients : CallOK(op'[e], timing'[e])
  BY <1>1, <1>4, <1>5, <1>6 DEF Inv, CallOK, Idle
<1>16. MaxInv'
  <2>1. \A e \in Clients : timing'[e].pc \in {"load", "swap"} => timing'[e].d <= spent'.max
    <3>1. ASSUME NEW e \in Clients, timing[e].pc \in {"load", "swap"}
          PROVE  timing[e].d <= spent'.max
      <4>1. timing[e].d \in Nat /\ timing[e].d <= spent.max /\ spent.max \in Nat
        BY <1>4, <3>1 DEF Inv, MaxInv, TimingType
      <4> QED
        BY <1>3, <1>10, <4>1
    <3>2. d <= spent'.max
      BY <1>3, <1>4, <1>10
    <3> QED
      BY <1>4, <1>5, <1>6, <3>1, <3>2
  <2>2. metrics'.max <= spent'.max
    BY <1>3, <1>4, <1>8, <1>9, <1>10 DEF Inv, MaxInv
  <2>3. metrics'.max = spent'.max \/ \E e \in Clients : timing'[e].pc \in {"load", "swap"}
                                                        /\ timing'[e].d = spent'.max
    <3>1. CASE d > spent.max
      <4>1. timing'[c].pc = "load" /\ timing'[c].d = spent'.max
        BY <1>4, <1>5, <1>6, <1>10, <3>1
      <4> QED
        BY <4>1
    <3>2. CASE ~(d > spent.max)
      <4>1. spent'.max = spent.max
        BY <1>10, <3>2
      <4>2. CASE metrics.max = spent.max
        BY <1>9, <4>1, <4>2
      <4>3. CASE \E e \in Clients : timing[e].pc \in {"load", "swap"} /\ timing[e].d = spent.max
        <5>1. PICK e \in Clients : timing[e].pc \in {"load", "swap"} /\ timing[e].d = spent.max
          BY <4>3
        <5>2. timing'[e] = timing[e]
          BY <1>3, <1>4, <1>6, <5>1
        <5> QED
          BY <4>1, <5>1, <5>2
      <4> QED
        BY <4>2, <4>3 DEF Inv, MaxInv
    <3> QED
      BY <3>1, <3>2
  <2> QED
    BY <2>1, <2>2, <2>3 DEF MaxInv
<1>17. SnapInv'
  BY <1>3, <1>9 DEF Inv, SnapInv, SnapshotCovers
<1> QED
  BY <1>11, <1>14, <1>15, <1>16, <1>17 DEF Inv

(* A step that goes on recording a latency. *)
LEMMA TimeStep ==
  ASSUME Inv, NEW c \in Clients, NEW y \in TimingType, timing' = [timing EXCEPT ![c] = y],
         timing[c].pc # "idle", UNCHANGED <<snap, spent, nodes, edges, op, calls, returned>>,
         metrics' \in MetricsType,
         \A k \in {"count", "sum", "mcpTotal", "byTool", "inFlight", "completions", "extractions",
                   "failures", "entities", "relations"} : metrics'[k] = metrics[k],
         metrics'.commands = metrics.commands + One(y.pc = "idle"),
         y.pc = "swap" => y.cur < y.d, MaxInv'
  PROVE  Inv'
<1>1. /\ metrics \in MetricsType /\ timing \in [Clients -> TimingType]
      /\ spent \in [count : Nat, sum : Nat, max : Nat] /\ calls \in Nat
  BY DEF Inv, TypeInv
<1>2. TypeInv'
  BY <1>1 DEF Inv, TypeInv
<1>3. /\ metrics'.count = metrics.count /\ metrics'.sum = metrics.sum
      /\ metrics'.mcpTotal = metrics.mcpTotal /\ metrics'.byTool = metrics.byTool
      /\ metrics'.inFlight = metrics.inFlight /\ metrics'.completions = metrics.completions
      /\ metrics'.extractions = metrics.extractions /\ metrics'.failures = metrics.failures
      /\ metrics'.entities = metrics.entities /\ metrics'.relations = metrics.relations
  OBVIOUS
<1> DEFINE i == One(y.pc = "idle")
           newTiming == timing'
           k == metrics.commands
           a == metrics.mcpTotal
           t == Cardinality(Timing(timing))
           n == Cardinality(Serving(op))
           p == Cardinality(Timing(newTiming))
<1>4. i \in Nat /\ t \in Nat /\ p = t - i
  <2>1. newTiming = [timing EXCEPT ![c] = y]
    OBVIOUS
  <2> HIDE DEF newTiming
  <2>2. TimersMove(timing, newTiming, c)
    BY <1>1, <2>1, TimingMoves, Zenon
  <2>3. newTiming[c] = y
    BY <1>1, <2>1
  <2> QED
    BY <2>2, <2>3 DEF One, TimersMove
<1>5. k \in Nat /\ a \in Nat /\ n \in Nat /\ metrics'.commands = k + i
  <2>1. Serving(op) \subseteq Clients
    BY DEF Serving
  <2>2. n \in Nat
    BY <2>1, FS_Subset, FS_CardinalityType, MetricsAssumption
  <2> QED
    BY <1>1, <2>2, MetricsFields
<1>6. k + t = spent.count /\ k + a + t + n = calls
  BY DEF Inv, CountInv
<1> HIDE DEF i, k, a, t, n, p
<1>7. (k + i) + p = spent.count /\ (k + i) + a + p + n = calls
  BY <1>4, <1>5, <1>6
<1>8. CountInv'
  <2>1. /\ metrics'.commands + Cardinality(Timing(timing')) = spent'.count
        /\ metrics'.commands + metrics'.mcpTotal + Cardinality(Timing(timing'))
             + Cardinality(Serving(op')) = calls'
    BY <1>3, <1>5, <1>7 DEF p, a, n
  <2> QED
    BY <1>3, <2>1 DEF Inv, CountInv
<1>9. \A e \in Clients : CallOK(op'[e], timing'[e])
  <2>1. CallOK(op[c], y)
    BY DEF Inv, CallOK
  <2> QED
    BY <1>1, <2>1 DEF Inv
<1>10. SnapInv'
  <2>1. snap.count \in Nat /\ Cardinality(Clients) \in Nat
    BY FewTiming DEF Inv, TypeInv
  <2>2. snap.pc = "counters" => snap.count <= (k + i) + Cardinality(Clients)
    <3>1. snap.pc = "counters" => snap.count <= k + Cardinality(Clients)
      BY DEF Inv, SnapInv, k
    <3> DEFINE s == snap.count
               m == Cardinality(Clients)
    <3>2. s \in Nat /\ m \in Nat
      BY <2>1
    <3> HIDE DEF s, m
    <3>3. s <= k + m => s <= (k + i) + m
      BY <1>4, <1>5, <3>2
    <3> QED
      BY <3>1, <3>3 DEF s, m
  <2> QED
    BY <1>3, <1>5, <2>2 DEF Inv, SnapInv, SnapshotCovers
<1> QED
  BY <1>2, <1>8, <1>9, <1>10 DEF Inv

LEMMA LatencyStep ==
  ASSUME Inv, NEW c \in Clients, LoadMax(c) \/ CompareAndSwapMax(c) \/ CommandExecuted(c),
         UNCHANGED <<nodes, edges, op, calls, returned>>
  PROVE  Inv'
<1> DEFINE Still == {"count", "sum", "mcpTotal", "byTool", "inFlight", "completions", "extractions",
                     "failures", "entities", "relations"}
<1>1. /\ metrics \in MetricsType /\ timing \in [Clients -> TimingType] /\ timing[c] \in TimingType
      /\ spent \in [count : Nat, sum : Nat, max : Nat] /\ CallOK(op[c], timing[c]) /\ MaxInv
  BY DEF Inv, TypeInv
<1>2. /\ timing[c].d \in Nat /\ timing[c].cur \in Nat /\ metrics.max \in Nat /\ spent.max \in Nat
      /\ metrics.commands \in Nat
  BY <1>1, MetricsFields DEF TimingType
<1>3. UNCHANGED <<snap, spent, nodes, edges, op, calls, returned>>
  BY DEF LoadMax, CompareAndSwapMax, CommandExecuted
<1>4. CASE LoadMax(c)
  <2> DEFINE y == IF timing[c].d <= metrics.max THEN [timing[c] EXCEPT !.pc = "executed"]
                  ELSE [timing[c] EXCEPT !.pc = "swap", !.cur = metrics.max]
  <2>1. timing' = [timing EXCEPT ![c] = y] /\ timing[c].pc = "load" /\ metrics' = metrics
    BY <1>1, <1>4 DEF LoadMax
  <2>2. y \in TimingType /\ y.d = timing[c].d /\ y.pc \in {"executed", "swap"}
        /\ (y.pc = "executed" => timing[c].d <= metrics.max)
        /\ (y.pc = "swap" => y.cur < y.d)
    <3>1. CASE timing[c].d <= metrics.max
      <4>1. y = [timing[c] EXCEPT !.pc = "executed"]
        BY <3>1
      <4> HIDE DEF y
      <4> QED
        BY <1>1, <3>1, <4>1 DEF TimingType
    <3>2. CASE ~(timing[c].d <= metrics.max)
      <4>1. y = [timing[c] EXCEPT !.pc = "swap", !.cur = metrics.max]
        BY <3>2
      <4>2. metrics.max < timing[c].d
        BY <1>2, <3>2
      <4> HIDE DEF y
      <4> QED
        BY <1>1, <1>2, <4>1, <4>2 DEF TimingType
    <3> QED
      BY <3>1, <3>2
  <2> HIDE DEF y
  <2>3. timing'[c] = y /\ \A e \in Clients \ {c} : timing'[e] = timing[e]
    BY <1>1, <2>1
  <2>4. metrics'.commands = metrics.commands + One(y.pc = "idle")
    BY <1>2, <2>1, <2>2 DEF One
  <2>5. MaxInv'
    BY <1>1, <1>2, <1>3, <2>1, <2>2, <2>3 DEF MaxInv
  <2> QED
    BY <1>1, <1>3, <2>1, <2>2, <2>4, <2>5, TimeStep
<1>5. CASE CompareAndSwapMax(c) /\ metrics.max # timing[c].cur
  <2> DEFINE y == [timing[c] EXCEPT !.pc = "load"]
  <2>1. timing' = [timing EXCEPT ![c] = y] /\ timing[c].pc = "swap" /\ metrics' = metrics
    BY <1>1, <1>5 DEF CompareAndSwapMax
  <2>2. y \in TimingType /\ y.d = timing[c].d /\ y.pc = "load"
    BY <1>1 DEF TimingType
  <2> HIDE DEF y
  <2>3. timing'[c] = y /\ \A e \in Clients \ {c} : timing'[e] = timing[e]
    BY <1>1, <2>1
  <2>4. metrics'.commands = metrics.commands + One(y.pc = "idle")
    BY <1>2, <2>1, <2>2 DEF One
  <2>5. MaxInv'
    BY <1>1, <1>2, <1>3, <2>1, <2>2, <2>3 DEF MaxInv
  <2> QED
    BY <1>1, <1>3, <2>1, <2>2, <2>4, <2>5, TimeStep
<1>6. CASE CompareAndSwapMax(c) /\ metrics.max = timing[c].cur
  <2> DEFINE y == [timing[c] EXCEPT !.pc = "executed"]
             d == timing[c].d
  <2>1. timing' = [timing EXCEPT ![c] = y] /\ timing[c].pc = "swap"
        /\ metrics' = [metrics EXCEPT !.max = d]
    BY <1>1, <1>6 DEF CompareAndSwapMax
  <2>2. y \in TimingType /\ y.pc = "executed"
    BY <1>1 DEF TimingType
  <2>3. d \in Nat /\ metrics.max < d /\ d <= spent.max
    BY <1>1, <1>2, <1>6, <2>1 DEF CallOK, MaxInv
  <2> HIDE DEF y, d
  <2>4. timing'[c] = y /\ \A e \in Clients \ {c} : timing'[e] = timing[e]
    BY <1>1, <2>1
  <2>5. /\ metrics' \in MetricsType /\ metrics'.max = d /\ metrics'.commands = metrics.commands
        /\ \A k \in Still : metrics'[k] = metrics[k]
    BY <1>1, <2>1, <2>3 DEF MetricsType
  <2>6. metrics'.commands = metrics.commands + One(y.pc = "idle")
    BY <1>2, <2>5, <2>2 DEF One
  <2>7. MaxInv'
    <3>1. spent'.max = spent.max
      BY <1>3
    <3>2. \A e \in Clients : timing'[e].pc \in {"load", "swap"} => timing'[e].d <= spent.max
      BY <1>1, <2>2, <2>4 DEF MaxInv
    <3>3. PICK e \in Clients : timing[e].pc \in {"load", "swap"} /\ timing[e].d = spent.max
      BY <1>1, <1>2, <2>3 DEF MaxInv
    <3>4. CASE e = c
      <4>1. d = spent.max
        BY <3>3, <3>4 DEF d
      <4> QED
        BY <1>2, <2>3, <2>5, <3>1, <3>2, <4>1 DEF MaxInv
    <3>5. CASE e # c
      BY <1>2, <2>3, <2>4, <2>5, <3>1, <3>2, <3>3, <3>5 DEF MaxInv
    <3> QED
      BY <3>4, <3>5
  <2> QED
    BY <1>1, <1>3, <2>1, <2>2, <2>5, <2>6, <2>7, TimeStep
<1>7. CASE CommandExecuted(c)
  <2> DEFINE u == metrics.commands + 1
  <2>1. timing' = [timing EXCEPT ![c] = Untimed] /\ timing[c].pc = "executed"
        /\ metrics' = [metrics EXCEPT !.commands = u]
    BY <1>7 DEF CommandExecuted
  <2>2. Untimed \in TimingType /\ Untimed.pc = "idle"
    BY DEF Untimed, TimingType
  <2>3. u \in Nat /\ u = metrics.commands + One(Untimed.pc = "idle")
    BY <1>2, <2>2 DEF One
  <2> HIDE DEF u
  <2>4. timing'[c] = Untimed /\ \A e \in Clients \ {c} : timing'[e] = timing[e]
    BY <1>1, <2>1
  <2>5. /\ metrics' \in MetricsType /\ metrics'.max = metrics.max /\ metrics'.commands = u
        /\ \A k \in Still : metrics'[k] = metrics[k]
    BY <1>1, <2>1, <2>3 DEF MetricsType
  <2>6. MaxInv'
    BY <1>1, <1>3, <2>1, <2>2, <2>4, <2>5 DEF MaxInv
  <2> QED
    BY <1>1, <1>3, <2>1, <2>2, <2>3, <2>5, <2>6, TimeStep
<1> QED
  BY <1>4, <1>5, <1>6, <1>7

(* Snapshot. *)
LEMMA SnapshotStep ==
  ASSUME Inv, SnapshotTools \/ SnapshotLatency \/ SnapshotCounters,
         UNCHANGED <<nodes, edges, op, calls, returned>>
  PROVE  Inv'
<1>1. UNCHANGED <<metrics, timing, spent, nodes, edges, op, calls, returned>>
  BY DEF SnapshotTools, SnapshotLatency, SnapshotCounters
<1>2. metrics \in MetricsType /\ CountInv /\ SnapInv
      /\ snap \in [pc : {"none", "latency", "counters", "done"}, byTool : [Tools -> Nat],
                   count : Nat, commands : Nat, mcpTotal : Nat]
  BY DEF Inv, TypeInv
<1>3. /\ metrics.byTool \in [Tools -> Nat] /\ metrics.count \in Nat /\ metrics.commands \in Nat
      /\ metrics.mcpTotal \in Nat /\ ToolTotal(metrics.byTool) \in Nat
  BY <1>2, MetricsFields
<1>4. ToolTotal(metrics.byTool) <= metrics.mcpTotal
  <2> DEFINE n == Cardinality(At(op, {"tool"}))
             s == ToolTotal(metrics.byTool)
             a == metrics.mcpTotal
  <2>1. At(op, {"tool"}) \subseteq Clients
    BY DEF At
  <2>2. n \in Nat
    BY <2>1, FS_Subset, FS_CardinalityType, MetricsAssumption
  <2>3. a = s + n /\ s \in Nat
    BY <1>2, <1>3 DEF CountInv
  <2> HIDE DEF n, s, a
  <2>4. s <= a
    BY <2>2, <2>3
  <2> QED
    BY <2>4 DEF s, a
<1>5. metrics.count <= metrics.commands + Cardinality(Clients)
  <2> DEFINE t == Cardinality(Timing(timing))
             n == Cardinality(Clients)
             k == metrics.commands
             q == metrics.count
  <2>1. t \in Nat /\ n \in Nat /\ t <= n /\ k \in Nat /\ q = k + t
    BY <1>2, <1>3, FewTiming DEF CountInv
  <2> HIDE DEF t, n, k, q
  <2>2. q <= k + n
    BY <2>1
  <2> QED
    BY <2>2 DEF k, q, n
<1>6. CASE SnapshotTools
  <2>1. /\ snap' \in [pc : {"none", "latency", "counters", "done"}, byTool : [Tools -> Nat],
                      count : Nat, commands : Nat, mcpTotal : Nat]
        /\ snap'.pc = "latency" /\ snap'.byTool = metrics.byTool
    BY <1>2, <1>3, <1>6 DEF SnapshotTools
  <2>2. SnapInv'
    BY <1>1, <1>4, <2>1 DEF SnapInv, SnapshotCovers
  <2> QED
    BY <1>1, <2>1, <2>2 DEF Inv, TypeInv, CountInv, MaxInv
<1>7. CASE SnapshotLatency
  <2>1. /\ snap' \in [pc : {"none", "latency", "counters", "done"}, byTool : [Tools -> Nat],
                      count : Nat, commands : Nat, mcpTotal : Nat]
        /\ snap'.pc = "counters" /\ snap'.byTool = snap.byTool /\ snap'.count = metrics.count
        /\ snap.pc = "latency"
    BY <1>2, <1>3, <1>7 DEF SnapshotLatency
  <2>2. SnapInv'
    BY <1>1, <1>2, <1>5, <2>1 DEF SnapInv, SnapshotCovers
  <2> QED
    BY <1>1, <2>1, <2>2 DEF Inv, TypeInv, CountInv, MaxInv
<1>8. CASE SnapshotCounters
  <2>1. /\ snap' \in [pc : {"none", "latency", "counters", "done"}, byTool : [Tools -> Nat],
                      count : Nat, commands : Nat, mcpTotal : Nat]
        /\ snap'.pc = "done" /\ snap'.byTool = snap.byTool /\ snap'.count = snap.count
        /\ snap'.mcpTotal = metrics.mcpTotal /\ snap'.commands = metrics.commands
        /\ snap.pc = "counters"
    BY <1>2, <1>3, <1>8 DEF SnapshotCounters
  <2>2. SnapInv'
    BY <1>1, <1>2, <2>1 DEF SnapInv, SnapshotCovers
  <2> QED
    BY <1>1, <2>1, <2>2 DEF Inv, TypeInv, CountInv, MaxInv
<1> QED
  BY <1>6, <1>7, <1>8

-----------------------------------------------------------------------------
LEMMA InitInv == Init => Inv
<1> SUFFICES ASSUME Init PROVE Inv
  OBVIOUS
<1> DEFINE z == [t \in Tools |-> 0]
<1>1. z \in [Tools -> Nat] /\ ToolTotal(z) = 0
  BY DEF ToolTotal, Tools
<1> HIDE DEF z
<1>2. /\ metrics = [commands |-> 0, mcpTotal |-> 0, byTool |-> z,
                    completions |-> 0, failures |-> 0, inFlight |-> 0,
                    extractions |-> 0, entities |-> 0, relations |-> 0,
                    count |-> 0, sum |-> 0, max |-> 0]
      /\ timing = [c \in Clients |-> Untimed]
      /\ snap = [pc |-> "none", byTool |-> z, count |-> 0, commands |-> 0, mcpTotal |-> 0]
      /\ spent = [count |-> 0, sum |-> 0, max |-> 0]
      /\ op = [c \in Clients |-> Idle] /\ calls = 0
      /\ returned = [extractions |-> 0, entities |-> 0, relations |-> 0]
  BY DEF Init, MetricsInit, z
<1>3. metrics \in MetricsType
  BY <1>1, <1>2 DEF MetricsType
<1>4. Untimed \in TimingType /\ Untimed.pc = "idle" /\ Idle.pc = "idle"
  BY DEF Untimed, TimingType, Idle
<1>5. TypeInv
  BY <1>1, <1>2, <1>3, <1>4, IdleType DEF TypeInv
<1>6. /\ Timing(timing) = {} /\ Serving(op) = {}
      /\ At(op, {"tool"}) = {} /\ At(op, {"ask"}) = {} /\ At(op, {"ask", "record"}) = {}
  BY <1>2, <1>4 DEF Timing, Serving, At
<1>7. Cardinality({}) = 0
  BY FS_EmptySet
<1>8. /\ metrics.byTool = z /\ metrics.mcpTotal = 0 /\ metrics.commands = 0 /\ metrics.inFlight = 0
      /\ metrics.count = 0 /\ metrics.sum = 0 /\ metrics.max = 0 /\ metrics.completions = 0
      /\ metrics.extractions = 0 /\ metrics.failures = 0 /\ metrics.entities = 0
      /\ metrics.relations = 0 /\ spent.count = 0 /\ spent.sum = 0 /\ spent.max = 0
  BY <1>2
<1>9. CountInv
  <2>1. calls = 0 /\ returned = [extractions |-> metrics.extractions,
                                 entities |-> metrics.entities, relations |-> metrics.relations]
    BY <1>2, <1>8
  <2>2. /\ Cardinality(Timing(timing)) = 0 /\ Cardinality(Serving(op)) = 0
        /\ Cardinality(At(op, {"tool"})) = 0 /\ Cardinality(At(op, {"ask"})) = 0
        /\ Cardinality(At(op, {"ask", "record"})) = 0 /\ ToolTotal(metrics.byTool) = 0
    BY <1>1, <1>6, <1>7, <1>8
  <2> QED
    BY <1>8, <2>1, <2>2 DEF CountInv
<1>10. \A c \in Clients : CallOK(op[c], timing[c])
  BY <1>2, <1>4 DEF CallOK
<1>11. MaxInv
  BY <1>2, <1>4, <1>8 DEF MaxInv
<1>12. SnapInv
  BY <1>2 DEF SnapInv, SnapshotCovers
<1> QED
  BY <1>5, <1>9, <1>10, <1>11, <1>12 DEF Inv

LEMMA NextInv == Inv /\ [Next]_vars => Inv'
<1> SUFFICES ASSUME Inv, [Next]_vars PROVE Inv'
  OBVIOUS
<1>1. CASE UNCHANGED vars
  <2>1. /\ op' = op /\ calls' = calls /\ returned' = returned
        /\ metrics' = metrics /\ timing' = timing /\ snap' = snap /\ spent' = spent
    BY <1>1 DEF vars, metricsVars
  <2>2. TypeInv'
    BY <2>1 DEF Inv, TypeInv
  <2>3. CountInv'
    BY <2>1 DEF Inv, CountInv
  <2>4. MaxInv'
    BY <2>1 DEF Inv, MaxInv
  <2>5. SnapInv'
    BY <2>1 DEF Inv, SnapInv, SnapshotCovers
  <2>6. \A c \in Clients : CallOK(op'[c], timing'[c])
    BY <2>1 DEF Inv
  <2> QED
    BY <2>2, <2>3, <2>4, <2>5, <2>6 DEF Inv
<1>2. ASSUME NEW c \in Clients,
             \/ \E t \in Tools : Command(c, t) \/ ToolCall(c, t)
             \/ ToolCounted(c) \/ Reply(c) \/ handleGraphRelated(c)
             \/ NoSuchMemory(c) \/ handleGraphExtract(c)
             \/ Answered(c) \/ NothingExtracted(c) \/ CompletionFails(c)
             \/ Upsert(c) \/ ExtractReturns(c)
      PROVE  Inv'
  BY <1>2, CommandStep, ToolCallStep, ToolCountedStep, ToolReplyStep, CommandReplyStep,
     ToReplyStep, StartStep, ModelStep, UpsertStep, ReturnStep
<1>3. CASE MetricsNext /\ UNCHANGED <<nodes, edges, op, calls, returned>>
  BY <1>3, LatencyStep, SnapshotStep DEF MetricsNext
<1>4. CASE Silent
  BY <1>1, <1>4 DEF Silent
<1> QED
  BY <1>1, <1>2, <1>3, <1>4 DEF Next

(* The invariant is one of the specification: for any clients, durations,  *)
(* memories and answers, each counter is exact up to the calls under way   *)
(* that have done one of their adds and not yet the next.                  *)
THEOREM Invariance == Spec => []Inv
<1> QED
  BY InitInv, NextInv, PTL DEF Spec

(* CountersExact: no increment of metrics.go is lost, however the          *)
(* goroutines of the two doors interleave, the compare-and-swap loop for   *)
(* the maximum included.                                                   *)
THEOREM CountersCorrect == Spec => []CountersExact
<1>1. Inv => CountersExact
  <2> SUFFICES ASSUME Inv, \A c \in Clients : op[c].pc = "idle" /\ timing[c].pc = "idle"
               PROVE  CountersExact
    BY DEF CountersExact
  <2>1. /\ Timing(timing) = {} /\ Serving(op) = {}
        /\ At(op, {"tool"}) = {} /\ At(op, {"ask"}) = {} /\ At(op, {"ask", "record"}) = {}
    BY DEF Timing, Serving, At
  <2>2. Cardinality({}) = 0
    BY FS_EmptySet
  <2>3. metrics \in MetricsType /\ spent \in [count : Nat, sum : Nat, max : Nat]
    BY DEF Inv, TypeInv
  <2>4. /\ metrics.commands \in Nat /\ metrics.mcpTotal \in Nat /\ ToolTotal(metrics.byTool) \in Nat
        /\ metrics.completions \in Nat /\ metrics.extractions \in Nat /\ metrics.failures \in Nat
    BY <2>3, MetricsFields
  <2>5. metrics.max = spent.max
    BY DEF Inv, MaxInv
  <2>6. /\ metrics.count = spent.count /\ metrics.sum = spent.sum
        /\ metrics.commands + 0 = spent.count
        /\ metrics.mcpTotal = ToolTotal(metrics.byTool) + 0
        /\ metrics.commands + metrics.mcpTotal + 0 + 0 = calls
        /\ metrics.inFlight = 0
        /\ metrics.completions = metrics.extractions + metrics.failures + 0
        /\ returned = [extractions |-> metrics.extractions, entities |-> metrics.entities,
                       relations |-> metrics.relations]
    BY <2>1, <2>2 DEF Inv, CountInv
  <2>7. [count |-> metrics.count, sum |-> metrics.sum, max |-> metrics.max] = spent
    BY <2>3, <2>5, <2>6
  <2> QED
    BY <2>4, <2>6, <2>7 DEF CountersExact
<1> QED
  BY <1>1, Invariance, PTL

(* SnapshotCovers: a Snapshot read while the counters move never shows     *)
(* more calls by tool than calls, nor more timed commands than executed    *)
(* ones and one more for each connection.                                  *)
THEOREM SnapshotsCovered == Spec => []SnapshotCovers
<1>1. Inv => SnapshotCovers
  BY DEF Inv, SnapInv
<1> QED
  BY <1>1, Invariance, PTL

-----------------------------------------------------------------------------
(* GRAPH.RELATED.  A path from x to y in h hops, as a function. *)
Walk(q, x, y, h) ==
  /\ q[1] = x /\ q[h + 1] = y
  /\ \A i \in 2..h : q[i] \in nodes
  /\ \A i \in 1..h : Adjacent(q[i], q[i + 1])

Parts(q, x, p, y, n) ==
  /\ q \in [1..(n + 2) -> Ids] /\ Len(q) = n + 2
  /\ q[1] = x /\ q[n + 2] = y
  /\ \A i \in 1..n : q[i + 1] = p[i]

LEMMA PathParts ==
  ASSUME NEW n \in Nat, NEW p \in [1..n -> Ids], NEW x \in Ids, NEW y \in Ids,
         NEW q, q = <<x>> \o p \o <<y>>
  PROVE  Parts(q, x, p, y, n)
<1>1. p \in Seq(Ids) /\ Len(p) = n
  OBVIOUS
<1> DEFINE r == <<x>> \o p
<1>2. r \in Seq(Ids) /\ Len(r) = n + 1 /\ r[1] = x /\ \A i \in 1..n : r[i + 1] = p[i]
  BY <1>1
<1> DEFINE e == <<y>>
<1>8. e \in Seq(Ids) /\ Len(e) = 1 /\ e[1] = y
  OBVIOUS
<1>3. q = r \o e
  OBVIOUS
<1> HIDE DEF r, e
<1>4. q \in Seq(Ids) /\ Len(q) = n + 2 /\ q[n + 2] = y /\ \A i \in 1..(n + 1) : q[i] = r[i]
  <2>1. q \in Seq(Ids) /\ Len(q) = Len(r) + Len(e)
    BY <1>2, <1>3, <1>8
  <2>2. Len(q) = n + 2
    BY <1>2, <1>8, <2>1
  <2>3. \A i \in 1..(Len(r) + Len(e)) : q[i] = IF i <= Len(r) THEN r[i] ELSE e[i - Len(r)]
    BY <1>2, <1>3, <1>8
  <2>7. Len(r) = n + 1 /\ Len(e) = 1
    BY <1>2, <1>8
  <2>4. ASSUME NEW i \in 1..(n + 1) PROVE q[i] = r[i]
    <3>1. i \in 1..(Len(r) + Len(e)) /\ i <= Len(r)
      BY <2>7
    <3> QED
      BY <2>3, <3>1
  <2>5. n + 2 \in 1..(Len(r) + Len(e)) /\ ~(n + 2 <= Len(r)) /\ (n + 2) - Len(r) = 1
    BY <1>2, <1>8
  <2>6. q[n + 2] = e[(n + 2) - Len(r)]
    BY <2>3, <2>5
  <2> QED
    BY <1>8, <2>1, <2>2, <2>4, <2>5, <2>6
<1>5. q \in [1..(n + 2) -> Ids]
  <2>1. q \in Seq(Ids) /\ Len(q) = n + 2
    BY <1>4
  <2>2. q \in [1..Len(q) -> Ids]
    BY <2>1, LenProperties
  <2> QED
    BY <2>1, <2>2
<1>6. q[1] = x
  BY <1>2, <1>4
<1>7. \A i \in 1..n : q[i + 1] = p[i]
  BY <1>2, <1>4
<1> QED
  BY <1>4, <1>5, <1>6, <1>7 DEF Parts

LEMMA PathIsWalk ==
  ASSUME nodes \subseteq Ids, NEW x \in Ids, NEW y \in Ids, NEW h \in Nat \ {0}
  PROVE  Connected(x, y, h) <=> \E q \in [1..(h + 1) -> Ids] : Walk(q, x, y, h)
<1>1. ASSUME Connected(x, y, h)
      PROVE  \E q \in [1..(h + 1) -> Ids] : Walk(q, x, y, h)
  <2>1. PICK p \in [1..(h - 1) -> nodes] : IsPath(<<x>> \o p \o <<y>>)
    BY <1>1 DEF Connected
  <2> DEFINE q == <<x>> \o p \o <<y>>
             n == h - 1
  <2>2. n \in Nat /\ p \in [1..n -> Ids] /\ p \in [1..n -> nodes] /\ n + 2 = h + 1
    OBVIOUS
  <2>3. IsPath(q)
    BY <2>1
  <2>4. q = <<x>> \o p \o <<y>>
    OBVIOUS
  <2> HIDE DEF q, n
  <2>5. /\ q \in [1..(n + 2) -> Ids] /\ Len(q) = n + 2
        /\ q[1] = x /\ q[n + 2] = y
        /\ \A i \in 1..n : q[i + 1] = p[i]
    <3>1. Parts(q, x, p, y, n)
      BY <2>2, <2>4, PathParts, Zenon
    <3> QED
      BY <3>1 DEF Parts
  <2>6. \A i \in 1..h : Adjacent(q[i], q[i + 1])
    BY <2>2, <2>3, <2>5 DEF IsPath
  <2>7. ASSUME NEW i \in 2..h PROVE q[i] \in nodes
    <3>1. i - 1 \in 1..n /\ (i - 1) + 1 = i
      BY <2>2
    <3>2. q[i] = p[i - 1]
      BY <2>5, <3>1
    <3> QED
      BY <2>2, <3>1, <3>2
  <2> QED
    BY <2>2, <2>5, <2>6, <2>7 DEF Walk
<1>2. ASSUME NEW w \in [1..(h + 1) -> Ids], Walk(w, x, y, h)
      PROVE  Connected(x, y, h)
  <2> DEFINE n == h - 1
             p == [i \in 1..n |-> w[i + 1]]
             q == <<x>> \o p \o <<y>>
  <2>1. n \in Nat /\ n + 2 = h + 1
    OBVIOUS
  <2>2. p \in [1..n -> nodes] /\ p \in [1..n -> Ids] /\ \A i \in 1..n : p[i] = w[i + 1]
    BY <1>2 DEF Walk
  <2>3. q = <<x>> \o p \o <<y>>
    OBVIOUS
  <2> HIDE DEF p, q, n
  <2>4. /\ q \in [1..(n + 2) -> Ids] /\ Len(q) = n + 2
        /\ q[1] = x /\ q[n + 2] = y
        /\ \A i \in 1..n : q[i + 1] = p[i]
    <3>1. Parts(q, x, p, y, n)
      BY <2>1, <2>2, <2>3, PathParts, Zenon
    <3> QED
      BY <3>1 DEF Parts
  <2>5. ASSUME NEW i \in 1..(h + 1) PROVE q[i] = w[i]
    <3>1. CASE i = 1
      BY <1>2, <2>4, <3>1 DEF Walk
    <3>2. CASE i = h + 1
      BY <1>2, <2>1, <2>4, <3>2 DEF Walk
    <3>3. CASE i # 1 /\ i # h + 1
      <4>1. i - 1 \in 1..n /\ (i - 1) + 1 = i
        BY <2>1, <3>3
      <4>2. q[i] = p[i - 1] /\ p[i - 1] = w[i]
        BY <2>2, <2>4, <4>1
      <4> QED
        BY <4>2
    <3> QED
      BY <3>1, <3>2, <3>3
  <2>6. IsPath(q)
    <3>1. ASSUME NEW i \in 1..h PROVE Adjacent(q[i], q[i + 1])
      <4>1. i \in 1..(h + 1) /\ i + 1 \in 1..(h + 1)
        OBVIOUS
      <4>2. q[i] = w[i] /\ q[i + 1] = w[i + 1]
        BY <2>5, <4>1
      <4> QED
        BY <1>2, <4>2 DEF Walk
    <3> QED
      BY <2>1, <2>4, <3>1 DEF IsPath
  <2>7. \E r \in [1..n -> nodes] : IsPath(<<x>> \o r \o <<y>>)
    BY <2>2, <2>3, <2>6
  <2> QED
    BY <2>7 DEF Connected, n
<1> QED
  BY <1>1, <1>2

(* One hop, and one hop more. *)
LEMMA OneHop ==
  ASSUME nodes \subseteq Ids, NEW x \in Ids, NEW y \in Ids
  PROVE  Connected(x, y, 1) <=> Adjacent(x, y)
<1> DEFINE h == 1
<1>0. h \in Nat \ {0} /\ h = 1 /\ h + 1 = 2
  OBVIOUS
<1> HIDE DEF h
<1>3. Connected(x, y, h) <=> \E q \in [1..(h + 1) -> Ids] : Walk(q, x, y, h)
  BY <1>0, PathIsWalk, Zenon
<1>1. ASSUME Connected(x, y, h) PROVE Adjacent(x, y)
  <2>1. PICK q \in [1..(h + 1) -> Ids] : Walk(q, x, y, h)
    BY <1>1, <1>3
  <2> QED
    BY <1>0, <2>1 DEF Walk
<1>2. ASSUME Adjacent(x, y) PROVE Connected(x, y, h)
  <2> DEFINE q == [i \in 1..(h + 1) |-> IF i = 1 THEN x ELSE y]
  <2>1. q \in [1..(h + 1) -> Ids] /\ q[1] = x /\ q[2] = y
    BY <1>0
  <2> HIDE DEF q
  <2>2. Walk(q, x, y, h)
    BY <1>0, <1>2, <2>1 DEF Walk
  <2> QED
    BY <1>3, <2>1, <2>2
<1> QED
  BY <1>0, <1>1, <1>2

LEMMA NextHop ==
  ASSUME nodes \subseteq Ids, NEW x \in Ids, NEW y \in Ids, NEW h \in Nat \ {0}
  PROVE  Connected(x, y, h + 1) <=> \E z \in nodes : Connected(x, z, h) /\ Adjacent(z, y)
<1>0. h + 1 \in Nat \ {0}
  OBVIOUS
<1>1. ASSUME Connected(x, y, h + 1)
      PROVE  \E z \in nodes : Connected(x, z, h) /\ Adjacent(z, y)
  <2>1. PICK q \in [1..((h + 1) + 1) -> Ids] : Walk(q, x, y, h + 1)
    BY <1>0, <1>1, PathIsWalk
  <2> DEFINE z == q[h + 1]
             r == [i \in 1..(h + 1) |-> q[i]]
  <2>2. z \in nodes /\ Adjacent(z, y)
    BY <2>1 DEF Walk
  <2>3. r \in [1..(h + 1) -> Ids] /\ \A i \in 1..(h + 1) : r[i] = q[i]
    OBVIOUS
  <2> HIDE DEF r
  <2>4. Walk(r, x, z, h)
    BY <2>1, <2>3 DEF Walk
  <2>5. Connected(x, z, h)
    BY <2>2, <2>3, <2>4, PathIsWalk
  <2> QED
    BY <2>2, <2>5
<1>2. ASSUME NEW z \in nodes, Connected(x, z, h), Adjacent(z, y)
      PROVE  Connected(x, y, h + 1)
  <2>1. PICK r \in [1..(h + 1) -> Ids] : Walk(r, x, z, h)
    BY <1>2, PathIsWalk
  <2> DEFINE q == [i \in 1..((h + 1) + 1) |-> IF i = h + 2 THEN y ELSE r[i]]
  <2>2. /\ q \in [1..((h + 1) + 1) -> Ids] /\ q[h + 2] = y
        /\ \A i \in 1..(h + 1) : q[i] = r[i]
    OBVIOUS
  <2> HIDE DEF q
  <2>3. Walk(q, x, y, h + 1)
    <3>1. q[1] = x /\ q[(h + 1) + 1] = y /\ q[h + 1] = z
      BY <2>1, <2>2 DEF Walk
    <3>2. \A i \in 2..(h + 1) : q[i] \in nodes
      BY <1>2, <2>1, <2>2 DEF Walk
    <3>3. ASSUME NEW i \in 1..(h + 1) PROVE Adjacent(q[i], q[i + 1])
      <4>1. CASE i = h + 1
        BY <1>2, <3>1, <4>1
      <4>2. CASE i # h + 1
        <5>1. i \in 1..h /\ i + 1 \in 1..(h + 1)
          BY <4>2
        <5>2. q[i] = r[i] /\ q[i + 1] = r[i + 1]
          BY <2>2, <5>1
        <5> QED
          BY <2>1, <5>1, <5>2 DEF Walk
      <4> QED
        BY <4>1, <4>2
    <3> QED
      BY <3>1, <3>2, <3>3 DEF Walk
  <2> QED
    BY <1>0, <2>2, <2>3, PathIsWalk
<1> QED
  BY <1>1, <1>2

(* What a traversal from x knows after h hops. *)
Nearest(x, y, h) == Connected(x, y, h) /\ \A g \in 1..(h - 1) : ~Connected(x, y, g)
Hop(x, h) == {y \in Ids \ {x} : Nearest(x, y, h)}
Seen(x, h) == {x} \cup {y \in Ids : \E g \in 1..h : Connected(x, y, g)}
Front(x, h) == IF h = 0 THEN {x} ELSE Hop(x, h) \cap nodes
Found(x, h) == {p \in (nodes \ {x}) \X (1..h) : Nearest(x, p[1], p[2])}
Level(x, h) == [visited |-> Seen(x, h), frontier |-> Front(x, h), found |-> Found(x, h)]

(* The ids a traversal comes to in hop h are those at distance h. *)
LEMMA ReachedIsHop ==
  ASSUME nodes \subseteq Ids, NEW x \in nodes, NEW h \in Nat \ {0}
  PROVE  Reached(Front(x, h - 1), Seen(x, h - 1)) = Hop(x, h)
<1> DEFINE F == Front(x, h - 1)
           V == Seen(x, h - 1)
<1>0. x \in Ids
  OBVIOUS
<1>1. ASSUME NEW y \in Ids, y \in Reached(F, V) PROVE y \in Hop(x, h)
  <2>1. y \notin V /\ \E z \in F : Adjacent(z, y)
    BY <1>1 DEF Reached
  <2>2. y # x /\ \A g \in 1..(h - 1) : ~Connected(x, y, g)
    BY <2>1 DEF Seen
  <2>3. PICK z \in F : Adjacent(z, y)
    BY <2>1
  <2>4. Connected(x, y, h)
    <3>1. CASE h = 1
      <4>1. z = x
        BY <3>1 DEF Front
      <4> QED
        BY <1>0, <2>3, <3>1, <4>1, OneHop
    <3>2. CASE h # 1
      <4> DEFINE k == h - 1
      <4>1. k \in Nat \ {0} /\ k + 1 = h /\ k # 0
        BY <3>2
      <4>2. F = Front(x, k)
        OBVIOUS
      <4> HIDE DEF k, F
      <4>3. z \in nodes /\ Connected(x, z, k)
        BY <4>1, <4>2 DEF Front, Hop, Nearest
      <4>4. Connected(x, y, k + 1)
        BY <1>0, <2>3, <4>1, <4>3, NextHop, Zenon
      <4> QED
        BY <4>1, <4>4
    <3> QED
      BY <3>1, <3>2
  <2> QED
    BY <2>2, <2>4 DEF Hop, Nearest
<1>2. ASSUME NEW y \in Ids, y \in Hop(x, h) PROVE y \in Reached(F, V)
  <2>1. y # x /\ Connected(x, y, h) /\ \A g \in 1..(h - 1) : ~Connected(x, y, g)
    BY <1>2 DEF Hop, Nearest
  <2>2. y \notin V
    BY <2>1 DEF Seen
  <2>3. \E z \in F : Adjacent(z, y)
    <3>1. CASE h = 1
      <4>1. Adjacent(x, y)
        BY <1>0, <2>1, <3>1, OneHop
      <4>2. x \in F
        BY <3>1 DEF Front
      <4> QED
        BY <4>1, <4>2
    <3>2. CASE h # 1
      <4> DEFINE k == h - 1
      <4>1. k \in Nat \ {0} /\ k + 1 = h /\ k # 0 /\ 1 \in 1..k
        BY <3>2
      <4>2. F = Front(x, k) /\ \A g \in 1..k : ~Connected(x, y, g)
        BY <2>1
      <4> HIDE DEF k, F
      <4>3. Connected(x, y, k + 1)
        BY <2>1, <4>1
      <4>4. PICK z \in nodes : Connected(x, z, k) /\ Adjacent(z, y)
        BY <1>0, <4>1, <4>3, NextHop, Zenon
      <4>5. z # x
        <5>1. ~Connected(x, y, 1)
          BY <4>1, <4>2
        <5>2. ~Adjacent(x, y)
          BY <1>0, <5>1, OneHop
        <5> QED
          BY <4>4, <5>2
      <4>6. ASSUME NEW g \in 1..(k - 1) PROVE ~Connected(x, z, g)
        <5>1. g \in Nat \ {0} /\ g + 1 \in 1..k
          BY <4>1
        <5>2. ~Connected(x, y, g + 1)
          BY <4>2, <5>1
        <5> QED
          BY <1>0, <4>4, <5>1, <5>2, NextHop, Zenon
      <4>7. z \in Hop(x, k)
        BY <4>4, <4>5, <4>6 DEF Hop, Nearest
      <4>8. z \in F
        BY <4>1, <4>2, <4>7 DEF Front
      <4> QED
        BY <4>4, <4>8
    <3> QED
      BY <3>1, <3>2
  <2> QED
    BY <2>2, <2>3 DEF Reached
<1>3. Reached(F, V) \subseteq Ids /\ Hop(x, h) \subseteq Ids
  BY DEF Reached, Hop
<1> QED
  BY <1>1, <1>2, <1>3

(* So one hop takes what is known after h - 1 hops to what is after h. *)
LEMMA LevelStep ==
  ASSUME nodes \subseteq Ids, NEW x \in nodes, NEW h \in Nat \ {0}
  PROVE  LET new == Reached(Level(x, h - 1).frontier, Level(x, h - 1).visited)
         IN  Level(x, h) = [visited |-> Level(x, h - 1).visited \cup new,
                            frontier |-> new \cap nodes,
                            found |-> Level(x, h - 1).found \cup {<<y, h>> : y \in new \cap nodes}]
<1> DEFINE new == Reached(Level(x, h - 1).frontier, Level(x, h - 1).visited)
<1>1. /\ Level(x, h - 1).frontier = Front(x, h - 1) /\ Level(x, h - 1).visited = Seen(x, h - 1)
      /\ Level(x, h - 1).found = Found(x, h - 1)
  BY DEF Level
<1>2. new = Hop(x, h)
  BY <1>1, ReachedIsHop
<1> HIDE DEF new
<1>3. Seen(x, h) = Seen(x, h - 1) \cup Hop(x, h)
  <2>1. ASSUME NEW y \in Seen(x, h), y \notin Seen(x, h - 1) PROVE y \in Hop(x, h)
    <3>1. y \in Ids \ {x} /\ (\A g \in 1..(h - 1) : ~Connected(x, y, g))
          /\ \E g \in 1..h : Connected(x, y, g)
      BY <2>1 DEF Seen
    <3>2. Connected(x, y, h)
      BY <3>1
    <3> QED
      BY <3>1, <3>2 DEF Hop, Nearest
  <2>2. Hop(x, h) \subseteq Seen(x, h) /\ Seen(x, h - 1) \subseteq Seen(x, h)
    BY DEF Hop, Nearest, Seen
  <2> QED
    BY <2>1, <2>2
<1>4. Front(x, h) = Hop(x, h) \cap nodes
  BY DEF Front
<1>5. Found(x, h) = Found(x, h - 1) \cup {<<y, h>> : y \in Hop(x, h) \cap nodes}
  <2>1. ASSUME NEW p \in Found(x, h), p \notin Found(x, h - 1)
        PROVE  p \in {<<y, h>> : y \in Hop(x, h) \cap nodes}
    <3>1. PICK y \in nodes \ {x}, g \in 1..h : p = <<y, g>> /\ Nearest(x, y, g)
      BY <2>1 DEF Found
    <3>2. g = h
      <4>1. g \notin 1..(h - 1)
        BY <2>1, <3>1 DEF Found
      <4> QED
        BY <4>1
    <3>3. y \in Hop(x, h) \cap nodes
      BY <3>1, <3>2 DEF Hop
    <3> QED
      BY <3>1, <3>2, <3>3
  <2>2. ASSUME NEW p \in Found(x, h - 1) PROVE p \in Found(x, h)
    BY <2>2 DEF Found
  <2>3. ASSUME NEW y \in Hop(x, h) \cap nodes PROVE <<y, h>> \in Found(x, h)
    BY <2>3 DEF Found, Hop
  <2> QED
    BY <2>1, <2>2, <2>3
<1>6. Level(x, h) = [visited |-> Seen(x, h), frontier |-> Front(x, h), found |-> Found(x, h)]
  BY DEF Level
<1>7. Level(x, h) = [visited |-> Level(x, h - 1).visited \cup new,
                     frontier |-> new \cap nodes,
                     found |-> Level(x, h - 1).found \cup {<<y, h>> : y \in new \cap nodes}]
  BY <1>1, <1>2, <1>3, <1>4, <1>5, <1>6
<1> QED
  BY <1>7 DEF new

LEMMA LevelZero ==
  ASSUME NEW x
  PROVE  Level(x, 0) = [visited |-> {x}, frontier |-> {x}, found |-> {}]
<1>1. Seen(x, 0) = {x} /\ Front(x, 0) = {x} /\ Found(x, 0) = {}
  BY DEF Seen, Front, Found
<1> QED
  BY <1>1 DEF Level

(* A traversal of any depth finds the nodes at every distance up to it. *)
LEMMA RelatedFinds ==
  ASSUME nodes \subseteq Ids, NEW x \in nodes, NEW depth \in Nat
  PROVE  Related(x, depth) = Found(x, depth)
<1> DEFINE Hops(s, h) ==
             LET new == Reached(s.frontier, s.visited)
             IN  [visited |-> s.visited \cup new, frontier |-> new \cap nodes,
                  found |-> s.found \cup {<<y, h>> : y \in new \cap nodes}]
           a == [visited |-> {x}, frontier |-> {x}, found |-> {}]
           Rec(f) == f = [h \in 0..depth |-> IF h = 0 THEN a ELSE Hops(f[h - 1], h)]
           bfs == CHOOSE f : Rec(f)
           levels == [h \in 0..depth |-> Level(x, h)]
<1>1. Related(x, depth) = bfs[depth].found
  BY DEF Related
<1>2. ASSUME NEW h \in 1..depth PROVE Level(x, h) = Hops(Level(x, h - 1), h)
  <2>1. h \in Nat \ {0}
    OBVIOUS
  <2> QED
    BY <2>1, LevelStep
<1>3. Level(x, 0) = a
  BY LevelZero
<1> HIDE DEF Hops, a
<1>4. Rec(levels)
  <2>1. ASSUME NEW h \in 0..depth
        PROVE  levels[h] = IF h = 0 THEN a ELSE Hops(levels[h - 1], h)
    <3>1. CASE h = 0
      BY <1>3, <3>1
    <3>2. CASE h # 0
      <4>1. h \in 1..depth /\ h - 1 \in 0..depth
        BY <3>2
      <4>2. levels[h] = Level(x, h) /\ levels[h - 1] = Level(x, h - 1)
        BY <4>1
      <4> QED
        BY <1>2, <3>2, <4>1, <4>2
    <3> QED
      BY <3>1, <3>2
  <2> QED
    BY <2>1
<1>5. Rec(bfs)
  <2> HIDE DEF Rec, levels
  <2> QED
    BY <1>4
<1> HIDE DEF bfs
<1> DEFINE T == {h \in 0..depth : bfs[h] = Level(x, h)}
<1>6. 0 \in T
  BY <1>3, <1>5
<1>7. ASSUME NEW i \in 0..(depth - 1), i \in T PROVE i + 1 \in T
  <2>1. i + 1 \in 1..depth /\ i + 1 \in 0..depth /\ i + 1 # 0 /\ (i + 1) - 1 = i
    OBVIOUS
  <2>2. bfs[i + 1] = Hops(bfs[(i + 1) - 1], i + 1)
    BY <1>5, <2>1
  <2>3. Level(x, i + 1) = Hops(Level(x, (i + 1) - 1), i + 1)
    BY <1>2, <2>1
  <2> QED
    BY <1>7, <2>1, <2>2, <2>3
<1> HIDE DEF T
<1>8. 0..depth \subseteq T
  BY <1>6, <1>7, UpTo
<1>9. bfs[depth] = Level(x, depth)
  BY <1>8 DEF T
<1> QED
  BY <1>1, <1>9 DEF Level

LEMMA RelatedCorrect ==
  ASSUME nodes \subseteq Ids
  PROVE  RelatedRight
<1> SUFFICES ASSUME NEW x \in Ids, NEW d \in {1, 3}
             PROVE  Related(x, d) =
                      {p \in (nodes \ {x}) \X (1..d) :
                         /\ x \in nodes /\ Connected(x, p[1], p[2])
                         /\ \A g \in 1..(p[2] - 1) : ~Connected(x, p[1], g)}
  BY DEF RelatedRight
<1>1. CASE x \in nodes
  <2>1. Related(x, d) = Found(x, d)
    BY <1>1, RelatedFinds
  <2> QED
    BY <1>1, <2>1 DEF Found, Nearest
<1>2. CASE x \notin nodes
  <2>1. Related(x, d) = {}
    BY <1>2 DEF Related
  <2> QED
    BY <1>2, <2>1
<1> QED
  BY <1>1, <1>2

-----------------------------------------------------------------------------
(* What an extraction has added and not yet recorded is still to do: the   *)
(* entity, the memory's node, and the edge between them.                   *)
Pending(u, s) == \E j \in 1..Len(s) : s[j] = u

Traced(o, x, ns, es) ==
  LET mem == MemoryNode[o.memory]
      e == Edge(mem, x, "mentions")
  IN  /\ x \in ns \/ Pending(Node(x), o.todo)
      /\ mem \in ns \/ Pending(Node(mem), o.todo)
      /\ e \in es \/ Pending(Link(e), o.todo)

TraceOK(o, ns, es) ==
  /\ o.pc \in {"tool", "run", "ask"} => o.added = <<>>
  /\ o.pc = "record" => \A i \in 1..Len(o.added) : Traced(o, o.added[i], ns, es)

StoreInv == nodes \subseteq Ids /\ \A c \in Clients : TraceOK(op[c], nodes, edges)

LEMMA PendingConcat ==
  ASSUME NEW s \in Seq(Upd), NEW t \in Seq(Upd), NEW u, Pending(u, s) \/ Pending(u, t)
  PROVE  Pending(u, s \o t)
<1>1. /\ Len(s \o t) = Len(s) + Len(t)
      /\ \A i \in 1..Len(s) : (s \o t)[i] = s[i]
      /\ \A i \in 1..Len(t) : (s \o t)[Len(s) + i] = t[i]
  OBVIOUS
<1>2. Len(s) \in Nat /\ Len(t) \in Nat
  OBVIOUS
<1> DEFINE r == s \o t
<1>3. /\ Len(r) = Len(s) + Len(t)
      /\ \A i \in 1..Len(s) : r[i] = s[i]
      /\ \A i \in 1..Len(t) : r[Len(s) + i] = t[i]
  BY <1>1
<1> HIDE DEF r
<1>4. CASE Pending(u, s)
  <2>1. PICK i \in 1..Len(s) : s[i] = u
    BY <1>4 DEF Pending
  <2>2. i \in 1..Len(r) /\ r[i] = u
    BY <1>2, <1>3, <2>1
  <2> QED
    BY <2>2 DEF Pending, r
<1>5. CASE Pending(u, t)
  <2>1. PICK i \in 1..Len(t) : t[i] = u
    BY <1>5 DEF Pending
  <2>2. Len(s) + i \in 1..Len(r) /\ r[Len(s) + i] = u
    BY <1>2, <1>3, <2>1
  <2> QED
    BY <2>2 DEF Pending, r
<1> QED
  BY <1>4, <1>5

(* Every entity of an answer is among its upserts, with its link. *)
LEMMA UpsertsPending ==
  ASSUME NEW m \in Memories, NEW a \in Answers, a.entities # <<>>,
         NEW i \in 1..Len(Named(a)), NEW x, x = Named(a)[i]
  PROVE  /\ Pending(Node(x), Upserts(m, a))
         /\ Pending(Node(MemoryNode[m]), Upserts(m, a))
         /\ Pending(Link(Edge(MemoryNode[m], x, "mentions")), Upserts(m, a))
<1> DEFINE es == Named(a)
           rs == Usable(a)
           mem == MemoryNode[m]
           E == Each(es, Node)
           R == Each(rs, LAMBDA r : Link(Edge(r.from, r.to, r.label)))
           L == <<Node(mem)>>
           M == Each(es, LAMBDA y : Link(Edge(mem, y, "mentions")))
<1>1. es \in Seq(Ids) /\ rs \in Seq(EdgeType) /\ mem \in Ids
  BY AnswerTypes, GraphAssumption
<1>2. es # <<>>
  BY <1>1
<1>3. Upserts(m, a) = (E \o R) \o (L \o M)
  BY <1>2 DEF Upserts
<1>4. E \in Seq(Upd) /\ R \in Seq(Upd) /\ L \in Seq(Upd) /\ M \in Seq(Upd)
  BY <1>1, UpsertParts
<1>5. Pending(Node(x), E)
  <2>1. E = [k \in 1..Len(es) |-> Node(es[k])] /\ Len(es) \in Nat
    BY <1>1 DEF Each
  <2>2. Len(E) = Len(es) /\ E[i] = Node(x)
    BY <2>1
  <2> QED
    BY <2>2 DEF Pending
<1>6. Pending(Link(Edge(mem, x, "mentions")), M)
  <2>1. M = [k \in 1..Len(es) |-> Link(Edge(mem, es[k], "mentions"))] /\ Len(es) \in Nat
    BY <1>1 DEF Each
  <2>2. Len(M) = Len(es) /\ M[i] = Link(Edge(mem, x, "mentions"))
    BY <2>1
  <2> QED
    BY <2>2 DEF Pending
<1>7. Pending(Node(mem), L)
  BY DEF Pending
<1> HIDE DEF es, rs, mem, E, R, L, M
<1>8. E \o R \in Seq(Upd) /\ L \o M \in Seq(Upd)
  BY <1>4
<1>9. Pending(Node(x), E \o R) /\ Pending(Node(mem), L \o M)
      /\ Pending(Link(Edge(mem, x, "mentions")), L \o M)
  BY <1>4, <1>5, <1>6, <1>7, PendingConcat
<1>10. Pending(Node(x), Upserts(m, a)) /\ Pending(Node(mem), Upserts(m, a))
       /\ Pending(Link(Edge(mem, x, "mentions")), Upserts(m, a))
  BY <1>3, <1>8, <1>9, PendingConcat
<1> QED
  BY <1>10 DEF mem

(* Recording the first upsert leaves the others to do. *)
LEMMA PendingTail ==
  ASSUME NEW s \in Seq(Upd), s # <<>>, NEW u, Pending(u, s)
  PROVE  u = Head(s) \/ Pending(u, Tail(s))
<1>1. PICK j \in 1..Len(s) : s[j] = u
  BY DEF Pending
<1>2. CASE j = 1
  BY <1>1, <1>2
<1>3. CASE j # 1
  <2>1. Len(s) \in Nat /\ Len(Tail(s)) = Len(s) - 1
        /\ \A k \in 1..(Len(s) - 1) : Tail(s)[k] = s[k + 1]
    OBVIOUS
  <2>2. j - 1 \in 1..(Len(s) - 1) /\ (j - 1) + 1 = j
    BY <1>3, <2>1
  <2>3. Tail(s)[j - 1] = u
    BY <1>1, <2>1, <2>2
  <2> QED
    BY <2>1, <2>2, <2>3 DEF Pending
<1> QED
  BY <1>2, <1>3

LEMMA UpsertTrace ==
  ASSUME Inv, StoreInv, NEW c \in Clients, Upsert(c)
  PROVE  StoreInv'
<1> DEFINE s == op[c].todo
           u == Head(s)
           x == [op[c] EXCEPT !.todo = Tail(s)]
<1>1. op \in [Clients -> OpType] /\ op[c] \in OpType
  BY DEF Inv, TypeInv
<1>2. s \in Seq(Upd) /\ s # <<>> /\ op[c].pc = "record"
  BY <1>1 DEF OpType, Upsert
<1>3. op' = [op EXCEPT ![c] = x]
  BY <1>1 DEF Upsert
<1>4. /\ nodes' = IF u.kind = "node" THEN nodes \cup {u.id} ELSE nodes
      /\ edges' = IF u.kind = "edge" THEN edges \cup {u.edge} ELSE edges
  BY DEF Upsert
<1>5. /\ x.pc = op[c].pc /\ x.added = op[c].added /\ x.memory = op[c].memory
      /\ x.todo = Tail(s)
  BY <1>1 DEF OpType
<1>6. u \in Upd
  BY <1>2
<1> HIDE DEF s, u, x
<1>7. nodes' \subseteq Ids
  <2>1. u.kind = "node" => u.id \in Ids
    BY <1>6 DEF Upd
  <2> QED
    BY <1>4, <2>1 DEF StoreInv
<1>8. nodes \subseteq nodes' /\ edges \subseteq edges'
  BY <1>4
<1>9. TraceOK(x, nodes', edges')
  <2>1. ASSUME NEW i \in 1..Len(x.added) PROVE Traced(x, x.added[i], nodes', edges')
    <3> DEFINE y == x.added[i]
               mem == MemoryNode[op[c].memory]
               e == Edge(mem, y, "mentions")
    <3>1. Traced(op[c], y, nodes, edges)
      BY <1>2, <1>5, <2>1 DEF StoreInv, TraceOK
    <3>2. /\ y \in nodes \/ Pending(Node(y), s)
          /\ mem \in nodes \/ Pending(Node(mem), s)
          /\ e \in edges \/ Pending(Link(e), s)
      BY <3>1 DEF Traced, s
    <3> HIDE DEF y, mem, e
    <3>3. ASSUME NEW z, z \in nodes \/ Pending(Node(z), s)
          PROVE  z \in nodes' \/ Pending(Node(z), Tail(s))
      <4>1. u = Node(z) => z \in nodes'
        BY <1>4 DEF Node
      <4> QED
        BY <1>2, <1>8, <3>3, <4>1, PendingTail DEF u
    <3>4. e \in edges' \/ Pending(Link(e), Tail(s))
      <4>1. u = Link(e) => e \in edges'
        BY <1>4 DEF Link
      <4> QED
        BY <1>2, <1>8, <3>2, <4>1, PendingTail DEF u
    <3>5. /\ y \in nodes' \/ Pending(Node(y), x.todo)
          /\ mem \in nodes' \/ Pending(Node(mem), x.todo)
          /\ e \in edges' \/ Pending(Link(e), x.todo)
      BY <1>5, <3>2, <3>3, <3>4
    <3> QED
      BY <1>5, <3>5 DEF Traced, y, mem, e
  <2> QED
    BY <1>2, <1>5, <2>1 DEF TraceOK
<1>10. ASSUME NEW d \in Clients PROVE TraceOK(op'[d], nodes', edges')
  <2>1. CASE d = c
    BY <1>1, <1>3, <1>9, <2>1
  <2>2. CASE d # c
    <3>1. op'[d] = op[d]
      BY <1>1, <1>3, <2>2
    <3> QED
      BY <1>8, <3>1 DEF StoreInv, TraceOK, Traced
  <2> QED
    BY <2>1, <2>2
<1> QED
  BY <1>7, <1>10 DEF StoreInv

(* Any other step of one call. *)
LEMMA OtherTrace ==
  ASSUME Inv, StoreInv, NEW c \in Clients, NEW x, op' = [op EXCEPT ![c] = x],
         UNCHANGED <<nodes, edges>>, TraceOK(x, nodes, edges)
  PROVE  StoreInv'
<1>1. op \in [Clients -> OpType]
  BY DEF Inv, TypeInv
<1>2. \A d \in Clients : TraceOK(op'[d], nodes, edges)
  BY <1>1 DEF StoreInv
<1> QED
  BY <1>2 DEF StoreInv

LEMMA AnswerTrace ==
  ASSUME Inv, StoreInv, NEW c \in Clients, Answered(c)
  PROVE  StoreInv'
<1>1. op \in [Clients -> OpType] /\ op[c] \in OpType /\ op[c].memory \in Memories
  <2>1. CallOK(op[c], timing[c]) /\ op[c].pc = "ask"
    BY DEF Inv, Answered
  <2> QED
    BY <2>1 DEF Inv, TypeInv, CallOK
<1>2. PICK a \in Answers :
        op' = [op EXCEPT ![c] = [op[c] EXCEPT !.pc = "record", !.todo = Upserts(op[c].memory, a),
                 !.added = IF a.entities = <<>> THEN <<>> ELSE Named(a),
                 !.relations = IF a.entities = <<>> THEN 0 ELSE Len(Usable(a))]]
  BY <1>1 DEF Answered
<1> DEFINE u == Upserts(op[c].memory, a)
           v == IF a.entities = <<>> THEN <<>> ELSE Named(a)
           w == IF a.entities = <<>> THEN 0 ELSE Len(Usable(a))
           x == [op[c] EXCEPT !.pc = "record", !.todo = u, !.added = v, !.relations = w]
<1>3. op' = [op EXCEPT ![c] = x]
  BY <1>2
<1>4. v = <<>> \/ (a.entities # <<>> /\ v = Named(a))
  OBVIOUS
<1> HIDE DEF v, w, u
<1>5. x.pc = "record" /\ x.todo = u /\ x.added = v /\ x.memory = op[c].memory
  BY <1>1 DEF OpType
<1> HIDE DEF x
<1>6. ASSUME NEW i \in 1..Len(v) PROVE Traced(x, v[i], nodes, edges)
  <2>1. a.entities # <<>> /\ v = Named(a)
    BY <1>4
  <2> DEFINE m == op[c].memory
             y == v[i]
  <2>2. m \in Memories /\ y = Named(a)[i] /\ i \in 1..Len(Named(a))
    BY <1>1, <2>1
  <2> HIDE DEF m, y
  <2>3. /\ Pending(Node(y), Upserts(m, a))
        /\ Pending(Node(MemoryNode[m]), Upserts(m, a))
        /\ Pending(Link(Edge(MemoryNode[m], y, "mentions")), Upserts(m, a))
    BY <2>1, <2>2, UpsertsPending
  <2> QED
    BY <1>5, <2>3 DEF Traced, u, m, y
<1>7. TraceOK(x, nodes, edges)
  BY <1>5, <1>6 DEF TraceOK
<1>8. UNCHANGED <<nodes, edges>>
  BY DEF Answered
<1> QED
  BY <1>3, <1>7, <1>8, OtherTrace

LEMMA NextStore == Inv /\ StoreInv /\ [Next]_vars => StoreInv'
<1> SUFFICES ASSUME Inv, StoreInv, [Next]_vars PROVE StoreInv'
  OBVIOUS
<1>0. op \in [Clients -> OpType]
  BY DEF Inv, TypeInv
<1>1. CASE UNCHANGED <<nodes, edges, op>>
  BY <1>1 DEF StoreInv
<1>2. ASSUME NEW c \in Clients, NEW t \in Tools, Command(c, t) \/ ToolCall(c, t) PROVE StoreInv'
  <2>1. CASE Command(c, t)
    <3> DEFINE x == [Idle EXCEPT !.door = "resp", !.tool = t, !.pc = "run"]
    <3>1. TraceOK(x, nodes, edges)
      BY DEF TraceOK, Idle
    <3>2. op' = [op EXCEPT ![c] = x] /\ UNCHANGED <<nodes, edges>>
      BY <2>1 DEF Command
    <3> HIDE DEF x
    <3> QED
      BY <3>1, <3>2, OtherTrace
  <2>2. CASE ToolCall(c, t)
    <3> DEFINE x == [Idle EXCEPT !.door = "mcp", !.tool = t, !.pc = "tool"]
    <3>1. TraceOK(x, nodes, edges)
      BY DEF TraceOK, Idle
    <3>2. op' = [op EXCEPT ![c] = x] /\ UNCHANGED <<nodes, edges>>
      BY <2>2 DEF ToolCall
    <3> HIDE DEF x
    <3> QED
      BY <3>1, <3>2, OtherTrace
  <2> QED
    BY <1>2, <2>1, <2>2
<1>3. ASSUME NEW c \in Clients, Reply(c) PROVE StoreInv'
  <2>1. TraceOK(Idle, nodes, edges)
    BY DEF TraceOK, Idle
  <2>2. op' = [op EXCEPT ![c] = Idle] /\ UNCHANGED <<nodes, edges>>
    BY <1>3 DEF Reply
  <2> QED
    BY <2>1, <2>2, OtherTrace
<1>4. ASSUME NEW c \in Clients, ToolCounted(c) \/ handleGraphRelated(c) \/ NoSuchMemory(c)
                                \/ NothingExtracted(c) \/ CompletionFails(c) \/ ExtractReturns(c)
      PROVE  StoreInv'
  <2>1. op[c] \in OpType /\ TraceOK(op[c], nodes, edges)
    BY <1>0 DEF StoreInv
  <2>2. PICK p \in {"run", "record", "reply"} : op' = [op EXCEPT ![c] = [op[c] EXCEPT !.pc = p]]
                                              /\ (p # "reply" => op[c].pc \in {"tool", "ask"})
    <3>1. \/ op' = [op EXCEPT ![c] = [op[c] EXCEPT !.pc = "run"]] /\ op[c].pc \in {"tool", "ask"}
          \/ op' = [op EXCEPT ![c] = [op[c] EXCEPT !.pc = "record"]] /\ op[c].pc \in {"tool", "ask"}
          \/ op' = [op EXCEPT ![c] = [op[c] EXCEPT !.pc = "reply"]]
      BY <1>4 DEF ToolCounted, handleGraphRelated, NoSuchMemory, NothingExtracted,
                  CompletionFails, ExtractReturns
    <3> QED
      BY <3>1
  <2> DEFINE x == [op[c] EXCEPT !.pc = p]
  <2>3. x.pc = p /\ x.added = op[c].added
    BY <2>1 DEF OpType
  <2>4. op' = [op EXCEPT ![c] = x]
    BY <2>2
  <2> HIDE DEF x
  <2>5. TraceOK(x, nodes, edges)
    <3>1. CASE p = "reply"
      BY <2>3, <3>1 DEF TraceOK
    <3>2. CASE p # "reply"
      <4>1. op[c].added = <<>>
        BY <2>1, <2>2, <3>2 DEF TraceOK
      <4> QED
        BY <2>3, <4>1 DEF TraceOK
    <3> QED
      BY <3>1, <3>2
  <2>6. UNCHANGED <<nodes, edges>>
    BY <1>4 DEF ToolCounted, handleGraphRelated, NoSuchMemory, NothingExtracted,
                CompletionFails, ExtractReturns
  <2> QED
    BY <2>4, <2>5, <2>6, OtherTrace
<1>5. ASSUME NEW c \in Clients, handleGraphExtract(c) PROVE StoreInv'
  <2>1. op[c] \in OpType /\ TraceOK(op[c], nodes, edges) /\ op[c].pc = "run"
    BY <1>0, <1>5 DEF StoreInv, handleGraphExtract
  <2>2. PICK m \in Memories : op' = [op EXCEPT ![c].pc = "ask", ![c].memory = m]
    BY <1>5 DEF handleGraphExtract
  <2> DEFINE x == [op[c] EXCEPT !.pc = "ask", !.memory = m]
  <2>3. op' = [op EXCEPT ![c] = x]
    BY <1>0, <2>2
  <2>4. x.pc = "ask" /\ x.added = op[c].added
    BY <2>1 DEF OpType
  <2> HIDE DEF x
  <2>5. TraceOK(x, nodes, edges)
    BY <2>1, <2>4 DEF TraceOK
  <2>6. UNCHANGED <<nodes, edges>>
    BY <1>5 DEF handleGraphExtract
  <2> QED
    BY <2>3, <2>5, <2>6, OtherTrace
<1>6. ASSUME Silent \/ UNCHANGED vars PROVE UNCHANGED <<nodes, edges, op>>
  BY <1>6 DEF Silent, vars
<1> QED
  BY <1>1, <1>2, <1>3, <1>4, <1>5, <1>6, UpsertTrace, AnswerTrace DEF Next

LEMMA StoreInvariance == Spec => []StoreInv
<1>1. Init => StoreInv
  BY DEF Init, StoreInv, TraceOK, Idle
<1> QED
  BY <1>1, NextStore, Invariance, PTL DEF Spec

(* RelatedRight: the breadth-first Related of graph.go finds exactly what  *)
(* paths connect, at the length of a shortest path, in every graph that    *)
(* extractions can leave, also half-way.                                   *)
THEOREM RelatedAlways == Spec => []RelatedRight
<1>1. StoreInv => RelatedRight
  BY RelatedCorrect DEF StoreInv
<1> QED
  BY <1>1, StoreInvariance, PTL

(* ExtractTraceable: when Extract of extract.go returns, each entity it    *)
(* added is one hop from the memory, in both directions.                   *)
THEOREM Traceable == Spec => ExtractTraceable
<1> DEFINE A == \A c \in Clients : op[c].pc = "record" /\ op'[c].pc = "reply" =>
                  LET mem == MemoryNode[op[c].memory]
                  IN  \A i \in 1..Len(op[c].added) :
                        LET x == op[c].added[i]
                        IN  x # mem => <<x, 1>> \in Related(mem, 1) /\ <<mem, 1>> \in Related(x, 1)
<1>1. Inv /\ StoreInv /\ [Next]_vars => [A]_vars
  <2> SUFFICES ASSUME Inv, StoreInv, Next, NEW c \in Clients,
                      op[c].pc = "record", op'[c].pc = "reply",
                      NEW i \in 1..Len(op[c].added), op[c].added[i] # MemoryNode[op[c].memory]
               PROVE  /\ <<op[c].added[i], 1>> \in Related(MemoryNode[op[c].memory], 1)
                      /\ <<MemoryNode[op[c].memory], 1>> \in Related(op[c].added[i], 1)
    BY DEF A
  <2>0. op \in [Clients -> OpType] /\ op[c] \in OpType
    BY DEF Inv, TypeInv
  <2>1. op[c].todo = <<>>
    <3>1. op' # op
      OBVIOUS
    <3>2. ASSUME NEW d \in Clients, NEW x, op' = [op EXCEPT ![d] = x] PROVE d = c /\ x.pc = "reply"
      BY <2>0, <3>2
    <3>3. ASSUME NEW d \in Clients, NEW t \in Tools PROVE ~Command(d, t) /\ ~ToolCall(d, t)
      BY <3>2 DEF Command, ToolCall
    <3>4. ASSUME NEW d \in Clients
          PROVE  /\ ~ToolCounted(d) /\ ~Reply(d) /\ ~handleGraphRelated(d) /\ ~NoSuchMemory(d)
                 /\ ~handleGraphExtract(d) /\ ~Answered(d) /\ ~NothingExtracted(d)
                 /\ ~CompletionFails(d)
      BY <2>0, <3>2 DEF ToolCounted, Reply, handleGraphRelated, NoSuchMemory, handleGraphExtract,
                        Answered, NothingExtracted, CompletionFails
    <3>5. ASSUME NEW d \in Clients PROVE ~Upsert(d)
      <4> SUFFICES ASSUME Upsert(d) PROVE FALSE
        OBVIOUS
      <4> DEFINE x == [op[d] EXCEPT !.todo = Tail(op[d].todo)]
      <4>1. op' = [op EXCEPT ![d] = x] /\ op[d].pc = "record" /\ op[d] \in OpType
        BY <2>0 DEF Upsert
      <4>2. x.pc = "record"
        BY <4>1 DEF OpType
      <4> HIDE DEF x
      <4> QED
        BY <3>2, <4>1, <4>2
    <3>6. ~Silent /\ ~(MetricsNext /\ UNCHANGED <<nodes, edges, op, calls, returned>>)
      BY <3>1 DEF Silent, vars
    <3>7. PICK d \in Clients : ExtractReturns(d)
      BY <3>3, <3>4, <3>5, <3>6 DEF Next
    <3> QED
      BY <3>2, <3>7 DEF ExtractReturns
  <2> DEFINE mem == MemoryNode[op[c].memory]
             x == op[c].added[i]
             e == Edge(mem, x, "mentions")
  <2>2. mem \in Ids /\ x \in Ids /\ x # mem
    <3>1. op[c].memory \in Memories
      <4>1. CallOK(op[c], timing[c])
        BY DEF Inv
      <4> QED
        BY <4>1 DEF CallOK
    <3>2. op[c].added \in Seq(Ids)
      BY <2>0 DEF OpType
    <3> QED
      BY <3>1, <3>2, GraphAssumption
  <2>3. Traced(op[c], x, nodes, edges)
    BY DEF StoreInv, TraceOK
  <2>4. x \in nodes /\ mem \in nodes /\ e \in edges
    BY <2>1, <2>3 DEF Traced, Pending
  <2>5. e.from = mem /\ e.to = x
    BY DEF Edge
  <2> HIDE DEF mem, x, e
  <2>6. Adjacent(mem, x) /\ Adjacent(x, mem)
    BY <2>4, <2>5 DEF Adjacent
  <2>7. nodes \subseteq Ids
    BY DEF StoreInv
  <2>8. Connected(mem, x, 1) /\ Connected(x, mem, 1)
    BY <2>2, <2>6, <2>7, OneHop
  <2>9. Related(mem, 1) = Found(mem, 1) /\ Related(x, 1) = Found(x, 1)
    BY <2>4, <2>7, RelatedFinds
  <2>10. <<x, 1>> \in Found(mem, 1) /\ <<mem, 1>> \in Found(x, 1)
    BY <2>2, <2>4, <2>8 DEF Found, Nearest
  <2>11. <<x, 1>> \in Related(mem, 1) /\ <<mem, 1>> \in Related(x, 1)
    BY <2>9, <2>10
  <2> QED
    BY <2>11 DEF mem, x
<1> QED
  BY <1>1, Invariance, StoreInvariance, PTL DEF Spec, ExtractTraceable
=============================================================================
