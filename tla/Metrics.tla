-------------------------------- MODULE Metrics --------------------------------
(***************************************************************************)
(* The counters (internal/observability/metrics.go): atomic adds by every  *)
(* goroutine, a maximum kept with compare-and-swap, calls by tool under a  *)
(* mutex, and Snapshot, which reads them one after the other while they    *)
(* move.  The model has the counters of commands, MCP calls, completions   *)
(* and graph extractions; the others are adds of the same kind.  Adds that *)
(* one goroutine does in a row to counters that no property relates are    *)
(* one step.                                                               *)
(***************************************************************************)
EXTENDS Integers, Sequences, FiniteSets

CONSTANTS
  Clients,     \* goroutines that serve a RESP connection or an MCP request
  Durations    \* latencies that time.Since may return

ASSUME MetricsAssumption == Durations \subseteq Nat /\ IsFiniteSet(Clients)

(* The MCP tools in the model, and the sum of their calls. *)
Tools == {"extract_entities", "find_related"}
ToolTotal(byTool) == byTool["extract_entities"] + byTool["find_related"]

VARIABLES
  metrics,  \* the counters
  timing,   \* timing[c]: RecordCommandLatency and CommandExecuted of c
  snap,     \* a Snapshot being taken, and what it has read
  spent     \* history: how many commands were timed, their sum and maximum

metricsVars == <<metrics, timing, snap, spent>>

Untimed == [pc |-> "idle", d |-> 0, cur |-> 0]

MetricsInit ==
  /\ metrics = [commands |-> 0, mcpTotal |-> 0, byTool |-> [t \in Tools |-> 0],
                completions |-> 0, failures |-> 0, inFlight |-> 0,
                extractions |-> 0, entities |-> 0, relations |-> 0,
                count |-> 0, sum |-> 0, max |-> 0]
  /\ timing = [c \in Clients |-> Untimed]
  /\ snap = [pc |-> "none", byTool |-> [t \in Tools |-> 0], count |-> 0, commands |-> 0, mcpTotal |-> 0]
  /\ spent = [count |-> 0, sum |-> 0, max |-> 0]

-----------------------------------------------------------------------------
(* What the handlers do to the counters. *)

(* Fault: the tool is counted before the total. *)
ToolCountedFirst(m, tool, step) ==
  IF step = 1 THEN [m EXCEPT !.byTool[tool] = @ + 1] ELSE [m EXCEPT !.mcpTotal = @ + 1]

(* The two steps of MCPCallRecorded. *)
MCPCallRecorded(m, tool, step) ==
  IF step = 1 THEN [m EXCEPT !.mcpTotal = @ + 1] ELSE [m EXCEPT !.byTool[tool] = @ + 1]

CompletionCallStarted(m) == [m EXCEPT !.completions = @ + 1, !.inFlight = @ + 1]

CompletionCallFinished(m, failed) ==
  [m EXCEPT !.inFlight = @ - 1, !.failures = @ + (IF failed THEN 1 ELSE 0)]

GraphExtractionPerformed(m, entities, relations) ==
  [m EXCEPT !.extractions = @ + 1, !.entities = @ + entities, !.relations = @ + relations]

-----------------------------------------------------------------------------
(* HandleConn around a command: RecordCommandLatency, CommandExecuted. *)

(* record: count and sum ... *)
RecordCommandLatency(c) ==
  /\ timing[c].pc = "idle"
  /\ \E d \in Durations :
       /\ metrics' = [metrics EXCEPT !.count = @ + 1, !.sum = @ + d]
       /\ timing' = [timing EXCEPT ![c] = [pc |-> "load", d |-> d, cur |-> 0]]
       /\ spent' = [count |-> spent.count + 1, sum |-> spent.sum + d,
                    max |-> IF d > spent.max THEN d ELSE spent.max]
  /\ UNCHANGED snap

(* ... then the maximum: load it ... *)
LoadMax(c) ==
  /\ timing[c].pc = "load"
  /\ timing' = [timing EXCEPT ![c] = IF @.d <= metrics.max
                                     THEN [@ EXCEPT !.pc = "executed"]
                                     ELSE [@ EXCEPT !.pc = "swap", !.cur = metrics.max]]
  /\ UNCHANGED <<metrics, snap, spent>>

(* Fault: the maximum is stored, whatever it has become. *)
StoreMax(c) ==
  /\ timing[c].pc = "swap"
  /\ metrics' = [metrics EXCEPT !.max = timing[c].d]
  /\ timing' = [timing EXCEPT ![c].pc = "executed"]
  /\ UNCHANGED <<snap, spent>>

(* ... and swap it, unless another goroutine has been there. *)
CompareAndSwapMax(c) ==
  /\ timing[c].pc = "swap"
  /\ IF metrics.max = timing[c].cur
     THEN /\ metrics' = [metrics EXCEPT !.max = timing[c].d]
          /\ timing' = [timing EXCEPT ![c].pc = "executed"]
     ELSE /\ timing' = [timing EXCEPT ![c].pc = "load"]
          /\ UNCHANGED metrics
  /\ UNCHANGED <<snap, spent>>

CommandExecuted(c) ==
  /\ timing[c].pc = "executed"
  /\ metrics' = [metrics EXCEPT !.commands = @ + 1]
  /\ timing' = [timing EXCEPT ![c] = Untimed]
  /\ UNCHANGED <<snap, spent>>

-----------------------------------------------------------------------------
(* Snapshot, for /metrics, /stats and /dashboard. *)

(* The calls by tool, under their mutex ... *)
SnapshotTools ==
  /\ snap.pc = "none"
  /\ snap' = [snap EXCEPT !.pc = "latency", !.byTool = metrics.byTool]
  /\ UNCHANGED <<metrics, timing, spent>>

(* ... the latencies ... *)
SnapshotLatency ==
  /\ snap.pc = "latency"
  /\ snap' = [snap EXCEPT !.pc = "counters", !.count = metrics.count]
  /\ UNCHANGED <<metrics, timing, spent>>

(* ... and the counters. *)
SnapshotCounters ==
  /\ snap.pc = "counters"
  /\ snap' = [snap EXCEPT !.pc = "done", !.commands = metrics.commands, !.mcpTotal = metrics.mcpTotal]
  /\ UNCHANGED <<metrics, timing, spent>>

MetricsNext ==
  \/ \E c \in Clients : LoadMax(c) \/ CompareAndSwapMax(c) \/ CommandExecuted(c)
  \/ SnapshotTools \/ SnapshotLatency \/ SnapshotCounters

-----------------------------------------------------------------------------
(* Properties. *)

(* A snapshot, although it is read while the counters move, never lists    *)
(* more calls by tool than calls, nor more timed commands than commands    *)
(* executed and still being accounted for, one for each connection.        *)
SnapshotCovers ==
  snap.pc = "done" =>
    /\ ToolTotal(snap.byTool) <= snap.mcpTotal
    /\ snap.count <= snap.commands + Cardinality(Clients)
=============================================================================
