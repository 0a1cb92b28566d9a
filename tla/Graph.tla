--------------------------------- MODULE Graph ---------------------------------
(***************************************************************************)
(* The knowledge graph (internal/graph) as its two doors use it: the RESP  *)
(* commands GRAPH.EXTRACT and GRAPH.RELATED, and the MCP tools             *)
(* extract_entities and find_related, with what they count (module         *)
(* Metrics).  Extraction asks a language model for entities and relations  *)
(* and then records them upsert by upsert, each under the store's mutex,   *)
(* so that other extractions and traversals come in between.  Nothing is   *)
(* ever removed.  Labels of nodes and weights of edges play no role.       *)
(***************************************************************************)
EXTENDS Metrics

CONSTANTS
  Memories,    \* ids of memories; MemoryNode[m] is the id of m's own node
  MemoryNode,
  Ids,         \* node ids, those of the memories included
  NoId,        \* the empty id a model may come up with
  Labels,      \* what relations are called
  Answers,     \* what the model may answer: entities and relations
  MaxCalls     \* bound: calls begun

Triples == [from : Ids \cup {NoId}, to : Ids \cup {NoId}, label : Labels]

ASSUME GraphAssumption ==
  /\ MemoryNode \in [Memories -> Ids]
  /\ NoId \notin Ids
  /\ MaxCalls \in Nat
  /\ \A a \in Answers : a.entities \in Seq(Ids \cup {NoId}) /\ a.relations \in Seq(Triples)

VARIABLES
  nodes,    \* ids of the workspace's nodes
  edges,    \* its edges, identified by endpoints and label
  op,       \* op[c]: the call client c is in
  calls,    \* calls begun so far
  returned  \* history: extractions that returned, with entities and relations added

vars == <<nodes, edges, op, calls, returned, metricsVars>>

Edge(from, to, label) == [from |-> from, to |-> to, label |-> label]

Idle == [pc |-> "idle", door |-> "none", tool |-> "none", memory |-> "none",
         todo |-> <<>>, added |-> <<>>, relations |-> 0]

Init ==
  /\ nodes = {}
  /\ edges = {}
  /\ op = [c \in Clients |-> Idle]
  /\ calls = 0
  /\ returned = [extractions |-> 0, entities |-> 0, relations |-> 0]
  /\ MetricsInit

-----------------------------------------------------------------------------
(* The doors. *)

(* A RESP connection runs its commands one by one, each with its counting. *)
Command(c, tool) ==
  /\ op[c].pc = "idle" /\ timing[c].pc = "idle"
  /\ calls < MaxCalls /\ calls' = calls + 1
  /\ op' = [op EXCEPT ![c] = [Idle EXCEPT !.door = "resp", !.tool = tool, !.pc = "run"]]
  /\ UNCHANGED <<nodes, edges, returned, metricsVars>>

(* An MCP tool counts the call first, in two steps. *)
ToolCall(c, tool) ==
  /\ op[c].pc = "idle" /\ timing[c].pc = "idle"
  /\ calls < MaxCalls /\ calls' = calls + 1
  /\ op' = [op EXCEPT ![c] = [Idle EXCEPT !.door = "mcp", !.tool = tool, !.pc = "tool"]]
  /\ metrics' = MCPCallRecorded(metrics, tool, 1)
  /\ UNCHANGED <<nodes, edges, returned, timing, snap, spent>>

ToolCounted(c) ==
  /\ op[c].pc = "tool"
  /\ op' = [op EXCEPT ![c].pc = "run"]
  /\ metrics' = MCPCallRecorded(metrics, op[c].tool, 2)
  /\ UNCHANGED <<nodes, edges, calls, returned, timing, snap, spent>>

(* The call ends; a command's latency is recorded then. *)
Reply(c) ==
  /\ op[c].pc = "reply"
  /\ op' = [op EXCEPT ![c] = Idle]
  /\ IF op[c].door = "resp" THEN RecordCommandLatency(c) ELSE UNCHANGED metricsVars
  /\ UNCHANGED <<nodes, edges, calls, returned>>

(* GRAPH.RELATED and find_related: one traversal (Related) under the mutex. *)
handleGraphRelated(c) ==
  /\ op[c].pc = "run" /\ op[c].tool = "find_related"
  /\ op' = [op EXCEPT ![c].pc = "reply"]
  /\ UNCHANGED <<nodes, edges, calls, returned, metricsVars>>

-----------------------------------------------------------------------------
(* GRAPH.EXTRACT and extract_entities. *)

(* The workspace is not the connection's, or the memory is not there. *)
NoSuchMemory(c) ==
  /\ op[c].pc = "run" /\ op[c].tool = "extract_entities"
  /\ op' = [op EXCEPT ![c].pc = "reply"]
  /\ UNCHANGED <<nodes, edges, calls, returned, metricsVars>>

(* The memory was found; ask the model about it. *)
handleGraphExtract(c) ==
  /\ op[c].pc = "run" /\ op[c].tool = "extract_entities"
  /\ \E m \in Memories : op' = [op EXCEPT ![c].pc = "ask", ![c].memory = m]
  /\ metrics' = CompletionCallStarted(metrics)
  /\ UNCHANGED <<nodes, edges, calls, returned, timing, snap, spent>>

(* A loop over s that skips the members of `skip'. *)
Without(s, skip) ==
  LET kept[i \in 0..Len(s)] == IF i = 0 THEN <<>>
                               ELSE IF s[i] \in skip THEN kept[i - 1]
                               ELSE Append(kept[i - 1], s[i])
  IN  kept[Len(s)]

Named(answer) == Without(answer.entities, {NoId})
Usable(answer) == Without(answer.relations, {r \in Triples : NoId \in {r.from, r.to}})

Node(x) == [kind |-> "node", id |-> x]
Link(e) == [kind |-> "edge", edge |-> e]
Each(s, Op(_)) == [i \in 1..Len(s) |-> Op(s[i])]

(* Fault: the memory is linked to its first entity only. *)
LinksFirstOnly(m, answer) ==
  LET mem == MemoryNode[m]
      entities == Named(answer)
  IN  Each(entities, Node)
      \o Each(Usable(answer), LAMBDA r : Link(Edge(r.from, r.to, r.label)))
      \o (IF entities = <<>> THEN <<>>
          ELSE <<Node(mem), Link(Edge(mem, Head(entities), "mentions"))>>)

(* What Extract does with an answer that parses: its upserts, in order.    *)
(* An answer without entities is not used at all; one whose entities all   *)
(* lack an id still has its relations recorded.                            *)
Upserts(m, answer) ==
  LET mem == MemoryNode[m]
      entities == Named(answer)
  IN  IF answer.entities = <<>> THEN <<>>
      ELSE Each(entities, Node)
           \o Each(Usable(answer), LAMBDA r : Link(Edge(r.from, r.to, r.label)))
           \o (IF entities = <<>> THEN <<>>
               ELSE <<Node(mem)>> \o Each(entities, LAMBDA x : Link(Edge(mem, x, "mentions"))))

(* The model answers.  external: what it answers. *)
Answered(c) ==
  /\ op[c].pc = "ask"
  /\ \E a \in Answers :
       op' = [op EXCEPT ![c] = [@ EXCEPT !.pc = "record", !.todo = Upserts(op[c].memory, a),
                !.added = IF a.entities = <<>> THEN <<>> ELSE Named(a),
                !.relations = IF a.entities = <<>> THEN 0 ELSE Len(Usable(a))]]
  /\ metrics' = CompletionCallFinished(metrics, FALSE)
  /\ UNCHANGED <<nodes, edges, calls, returned, timing, snap, spent>>

(* The answer is not the JSON asked for: nothing to record. *)
NothingExtracted(c) ==
  /\ op[c].pc = "ask"
  /\ op' = [op EXCEPT ![c].pc = "record"]
  /\ metrics' = CompletionCallFinished(metrics, FALSE)
  /\ UNCHANGED <<nodes, edges, calls, returned, timing, snap, spent>>

(* The model cannot be reached: an error. *)
CompletionFails(c) ==
  /\ op[c].pc = "ask"
  /\ op' = [op EXCEPT ![c].pc = "reply"]
  /\ metrics' = CompletionCallFinished(metrics, TRUE)
  /\ UNCHANGED <<nodes, edges, calls, returned, timing, snap, spent>>

Upsert(c) ==
  /\ op[c].pc = "record" /\ op[c].todo # <<>>
  /\ LET u == Head(op[c].todo)
     IN  /\ nodes' = IF u.kind = "node" THEN nodes \cup {u.id} ELSE nodes
         /\ edges' = IF u.kind = "edge" THEN edges \cup {u.edge} ELSE edges
  /\ op' = [op EXCEPT ![c].todo = Tail(@)]
  /\ UNCHANGED <<calls, returned, metricsVars>>

(* Extract returns, and what it added is counted. *)
ExtractReturns(c) ==
  /\ op[c].pc = "record" /\ op[c].todo = <<>>
  /\ op' = [op EXCEPT ![c].pc = "reply"]
  /\ metrics' = GraphExtractionPerformed(metrics, Len(op[c].added), op[c].relations)
  /\ returned' = [extractions |-> returned.extractions + 1,
                  entities |-> returned.entities + Len(op[c].added),
                  relations |-> returned.relations + op[c].relations]
  /\ UNCHANGED <<nodes, edges, calls, timing, snap, spent>>

(* No client need call anything. *)
Silent == (\A c \in Clients : op[c].pc = "idle") /\ UNCHANGED vars

Next ==
  \/ \E c \in Clients :
       \/ \E t \in Tools : Command(c, t) \/ ToolCall(c, t)
       \/ ToolCounted(c) \/ Reply(c) \/ handleGraphRelated(c)
       \/ NoSuchMemory(c) \/ handleGraphExtract(c)
       \/ Answered(c) \/ NothingExtracted(c) \/ CompletionFails(c)
       \/ Upsert(c) \/ ExtractReturns(c)
  \/ MetricsNext /\ UNCHANGED <<nodes, edges, op, calls, returned>>
  \/ Silent

Spec == Init /\ [][Next]_vars

-----------------------------------------------------------------------------
(* GRAPH.RELATED. *)

Adjacent(x, y) == \E e \in edges : {x, y} = {e.from, e.to}

(* Fault: only edges that leave the frontier are followed. *)
ReachedForward(frontier, visited) ==
  {y \in Ids \ visited : \E e \in edges : e.from \in frontier /\ e.to = y}

(* The ids one hop beyond the frontier that were not seen before. *)
Reached(frontier, visited) == {y \in Ids \ visited : \E x \in frontier : Adjacent(x, y)}

(* Breadth first, up to depth hops.  An id without a node is seen, neither *)
(* reported nor followed.  hops[y]: at which hop y was found.  Both doors   *)
(* pass a positive depth (the code reads any other as 1).                  *)
Related(start, depth) ==
  LET bfs[h \in 0..depth] ==
        IF h = 0 THEN [visited |-> {start}, frontier |-> {start}, found |-> {}]
        ELSE LET s == bfs[h - 1]
                 new == Reached(s.frontier, s.visited)
             IN  [visited |-> s.visited \cup new, frontier |-> new \cap nodes,
                  found |-> s.found \cup {<<y, h>> : y \in new \cap nodes}]
  IN  IF start \in nodes THEN bfs[depth].found ELSE {}

-----------------------------------------------------------------------------
(* Properties. *)

(* p leads from its first to its last id along edges, in either direction. *)
IsPath(p) == \A i \in 1..(Len(p) - 1) : Adjacent(p[i], p[i + 1])

(* A path of h hops leads from x to y through existing nodes. *)
Connected(x, y, h) == \E p \in [1..(h - 1) -> nodes] : IsPath(<<x>> \o p \o <<y>>)

(* A traversal finds exactly the nodes that a path through existing nodes  *)
(* connects to the start within depth hops, each with the length of a      *)
(* shortest such path - also in the middle of other clients' extractions.  *)
RelatedRight ==
  \A x \in Ids : \A d \in {1, 3} :
    Related(x, d) =
      {p \in (nodes \ {x}) \X (1..d) :
         /\ x \in nodes /\ Connected(x, p[1], p[2])
         /\ \A g \in 1..(p[2] - 1) : ~Connected(x, p[1], g)}

(* The graph stays traceable to the memory it came from: once an           *)
(* extraction has returned, asking what is related to any entity it added  *)
(* leads to the memory, and to the entity from the memory.                 *)
ExtractTraceable ==
  [][\A c \in Clients : op[c].pc = "record" /\ op'[c].pc = "reply" =>
       LET mem == MemoryNode[op[c].memory]
       IN  \A i \in 1..Len(op[c].added) :
             LET x == op[c].added[i]
             IN  x # mem => <<x, 1>> \in Related(mem, 1) /\ <<mem, 1>> \in Related(x, 1)]_vars

(* No increment is lost, whatever interleaves: with every client idle, the *)
(* latencies of the commands have the count, sum and maximum they had, the *)
(* calls by tool add up to the calls, nothing is in flight, and            *)
(* extractions are counted with all they added, by either door.            *)
CountersExact ==
  (\A c \in Clients : op[c].pc = "idle" /\ timing[c].pc = "idle") =>
    /\ [count |-> metrics.count, sum |-> metrics.sum, max |-> metrics.max] = spent
    /\ metrics.commands = spent.count
    /\ metrics.mcpTotal = ToolTotal(metrics.byTool)
    /\ metrics.commands + metrics.mcpTotal = calls
    /\ metrics.inFlight = 0
    /\ returned = [extractions |-> metrics.extractions, entities |-> metrics.entities,
                   relations |-> metrics.relations]
    /\ metrics.completions = metrics.extractions + metrics.failures
=============================================================================
