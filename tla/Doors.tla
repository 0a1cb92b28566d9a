--------------------------------- MODULE Doors ---------------------------------
(***************************************************************************)
(* The two doors to the caches, the vector store, the agent memory and the *)
(* graph: RESP commands (handlers_semantic.go, handlers_toolcache.go,      *)
(* handlers_vector.go, handlers_memory.go, handlers_agent.go,              *)
(* handlers_consolidate.go, handlers_graph.go) and MCP tools               *)
(* (internal/mcp/server.go).  Each reads its arguments, fills in defaults, *)
(* refuses what it does not understand and calls the component behind it,  *)
(* with code of its own.                                                   *)
(*                                                                         *)
(* A handler is a function of its arguments.  It yields the set of calls   *)
(* it makes to a component: {} if it refuses, else one.  What components   *)
(* do with the call is in the modules Caches, Vector, AgentMemory, Graph.  *)
(*                                                                         *)
(* RESP arguments are texts, a[i] being args[i] in the code; options are   *)
(* written in upper case, which is how the handlers compare them.  MCP     *)
(* fields are values of their type: "" or 0 where absent, {} for an absent *)
(* pointer, <<>> for an absent map.                                        *)
(***************************************************************************)
EXTENDS Integers, Sequences, SequencesExt

CONSTANTS
  Numbers,    \* numbers that appear as arguments
  Maps        \* metadata that appears as JSON

(* What texts mean to strconv and encoding/json: a set of at most one      *)
(* value, {} for a text that does not parse.  Fractions are hundredths.    *)
Atoi(s) == {n \in Numbers : ToString(n) = s}
ParseFloat(s) == {100 * n : n \in Atoi(s)} \cup (IF s = "0.5" THEN {50} ELSE {})
parseMetadataJSON(s) == {m \in Maps : ToString(m) = s}
parseVectorJSON(s) == {s} \ {"{"}
ValidJSON(s) == s # "{"

ParseKind(s) ==
  CASE s \in {"short_term", "long_term", "episodic", "semantic"} -> {s}
    [] s = "EPISODIC" -> {"episodic"}
    [] OTHER -> {}

parseMetric(s) ==
  CASE s \in {"cosine", "dot", "euclidean"} -> {s}
    [] s = "DOT" -> {"dot"}
    [] OTHER -> {}

Positive(n) == IF n > 0 THEN n ELSE 0

-----------------------------------------------------------------------------
(* RESP: options, read from left to right. *)

(* The values an option's argument may stand for. *)
OptionValue(name, s) ==
  CASE name \in {"MODEL", "TEXT", "WORKSPACE", "AGENT", "ID"} -> {s}
    [] name = "TEMP" -> IF ParseFloat(s) = {} THEN {} ELSE {s}
    [] name = "TTL" -> {Positive(n) : n \in Atoi(s)}
    [] name = "COST" -> {c \in ParseFloat(s) : c >= 0}
    [] name = "KIND" -> {{k} : k \in ParseKind(s)}
    [] name = "METADATA" -> parseMetadataJSON(s)
    [] name \in {"K", "LIMIT"} -> Atoi(s)
    [] name = "DEPTH" -> {n \in Atoi(s) : n > 0}
    [] name = "THRESHOLD" -> {{t} : t \in ParseFloat(s)}
    [] name = "DEDUP_THRESHOLD" -> ParseFloat(s)
    [] name = "METRIC" -> parseMetric(s)

(* The options in `rest' over the defaults o, whose fields name the        *)
(* options a command has; {} if one is unknown, cut short or unreadable.   *)
RECURSIVE Options(_, _)
Options(rest, o) ==
  IF rest = <<>> THEN {o}
  ELSE LET name == rest[1]
           After(n, p) == Options(SubSeq(rest, n + 1, Len(rest)), p)
           alpha == Len(rest) > 2 /\ rest[3] = "ALPHA"
       IN  CASE name \notin DOMAIN o -> {}
             [] name = "WITHSCORES" /\ name \in DOMAIN o -> After(1, [o EXCEPT ![name] = TRUE])
             [] name = "FILTER" /\ name \in DOMAIN o ->
                  IF Len(rest) < 3 THEN {}
                  ELSE After(3, [o EXCEPT ![name] = (rest[2] :> rest[3]) @@ @])
             [] name = "HYBRID" /\ name \in DOMAIN o ->
                  IF Len(rest) < 2 \/ (alpha /\ Len(rest) < 4) THEN {}
                  ELSE UNION {After(IF alpha THEN 4 ELSE 2,
                                    [o EXCEPT ![name] = {[words |-> rest[2], alpha |-> a]}]) :
                              a \in IF alpha THEN ParseFloat(rest[4]) ELSE {50}}
             [] name \in DOMAIN o \ {"WITHSCORES", "FILTER", "HYBRID"} ->
                  IF Len(rest) < 2 THEN {}
                  ELSE UNION {After(2, [o EXCEPT ![name] = v]) : v \in OptionValue(name, rest[2])}

(* The options from position n of the arguments on. *)
OptionsFrom(a, n, defaults) == Options(SubSeq(a, n, Len(a)), defaults)

-----------------------------------------------------------------------------
(* The calls to components.  A component has defaults of its own for       *)
(* numbers that make no sense to it.                                       *)

SemanticSet(prompt, model, temp, response, ttl, cost) ==
  [on |-> "semantic.Set", prompt |-> prompt, model |-> model, temp |-> temp,
   response |-> response, ttl |-> ttl, cost |-> cost]

SemanticGet(prompt, model, temp, threshold, saves) ==
  [on |-> "semantic.Get", prompt |-> prompt, model |-> model, temp |-> temp,
   threshold |-> threshold, counts |-> "semantic", saves |-> saves]

PromptSet(key, response, ttl, cost) ==
  [on |-> "prompt.Set", key |-> key, response |-> response, ttl |-> ttl, cost |-> cost]

PromptGet(key, saves) ==
  [on |-> "prompt.Get", key |-> key, counts |-> "prompt", saves |-> saves]

ToolSet(key, result, ttl) ==
  [on |-> "tool.Set", key |-> key, result |-> result, ttl |-> ttl]

ToolGet(key) == [on |-> "tool.Get", key |-> key, counts |-> "tool"]

VectorUpsert(namespace, id, vec, metadata, text) ==
  [on |-> "vector.Upsert", namespace |-> namespace, id |-> id, vector |-> vec,
   metadata |-> metadata, text |-> text]

VectorSearch(namespace, vec, k, metric, filter, hybrid) ==
  [on |-> "vector.Search", namespace |-> namespace, vector |-> vec, k |-> Positive(k),
   metric |-> metric, filter |-> filter, hybrid |-> hybrid, counts |-> "vector_searches"]

VectorDelete(namespace, id) == [on |-> "vector.Delete", namespace |-> namespace, id |-> id]

MemoryPut(id, agent, workspace, kind, content, metadata, ttl) ==
  [on |-> "memory.Put", id |-> id, agent |-> agent, workspace |-> workspace, kind |-> kind,
   content |-> content, metadata |-> metadata, ttl |-> ttl, counts |-> "memory_writes"]

MemoryGet(workspace, id) ==
  [on |-> "memory.Get", workspace |-> workspace, id |-> id, counts |-> "memory_reads"]

MemorySearch(workspace, query, agent, kind, k, threshold) ==
  [on |-> "memory.Search", workspace |-> workspace, query |-> query, agent |-> agent,
   kind |-> kind, k |-> IF k <= 0 THEN 10 ELSE k, threshold |-> threshold,
   counts |-> "memory_reads"]

MemoryHistory(workspace, id, limit) ==
  [on |-> "memory.History", workspace |-> workspace, id |-> id, limit |-> Positive(limit),
   counts |-> "memory_reads"]

Consolidate(workspace, agent, kind, threshold) ==
  [on |-> "Consolidate", workspace |-> workspace, agent |-> agent, kind |-> kind,
   threshold |-> IF threshold <= 0 THEN 95 ELSE threshold,
   counts |-> "consolidations"]

GraphExtract(workspace, memory) ==
  [on |-> "graph.Extract", workspace |-> workspace, memory |-> memory,
   counts |-> "graph_extractions"]

GraphRelated(workspace, node, depth) ==
  [on |-> "graph.Related", workspace |-> workspace, node |-> node,
   depth |-> IF depth <= 0 THEN 1 ELSE depth]

-----------------------------------------------------------------------------
(* RESP: the handlers.  `may' holds the workspaces for which               *)
(* authorizedForWorkspace says yes on this connection.                     *)

(* Without credentials per workspace everything is permitted, with them    *)
(* the connection's own workspace only.                                    *)
authorizedForWorkspace(multi, own, workspace) == ~multi \/ workspace = own

Authorized(multi, own) ==
  {workspace \in {"default", "w", "v"} : authorizedForWorkspace(multi, own, workspace)}

handleCacheSemanticSet(a) ==
  {SemanticSet(a[2], o.MODEL, o.TEMP, a[3], o.TTL, o.COST) :
     o \in IF Len(a) < 3 THEN {}
           ELSE OptionsFrom(a, 4, [MODEL |-> "default", TEMP |-> "0", TTL |-> 0, COST |-> 0])}

handleCacheSemanticGet(a) ==
  {SemanticGet(a[2], o.MODEL, o.TEMP, o.THRESHOLD, a[2]) :
     o \in IF Len(a) < 2 THEN {}
           ELSE OptionsFrom(a, 3, [MODEL |-> "default", TEMP |-> "0", THRESHOLD |-> {85}])}

handleCachePromptSet(a) ==
  {PromptSet(<<a[2], a[3], a[4]>>, a[5], o.TTL, o.COST) :
     o \in IF Len(a) < 5 \/ ~ValidJSON(a[3]) THEN {}
           ELSE OptionsFrom(a, 6, [TTL |-> 0, COST |-> 0])}

handleCachePromptGet(a) ==
  IF Len(a) # 4 \/ ~ValidJSON(a[3]) THEN {}
  ELSE {PromptGet(<<a[2], a[3], a[4]>>, a[2])}

handleToolCacheSet(a) ==
  {ToolSet(<<a[2], a[3]>>, a[4], o.TTL) :
     o \in IF Len(a) < 4 \/ ~ValidJSON(a[3]) THEN {} ELSE OptionsFrom(a, 5, [TTL |-> 0])}

handleToolCacheGet(a) ==
  IF Len(a) # 3 \/ ~ValidJSON(a[3]) THEN {} ELSE {ToolGet(<<a[2], a[3]>>)}

handleVectorUpsert(may, a) ==
  {VectorUpsert(a[1], a[2], a[3], o.METADATA, o.TEXT) :
     o \in IF Len(a) < 3 \/ a[1] \notin may \/ parseVectorJSON(a[3]) = {} THEN {}
           ELSE OptionsFrom(a, 4, [METADATA |-> <<>>, TEXT |-> ""])}

handleVectorSearch(may, a) ==
  {VectorSearch(a[1], a[2], o.K, o.METRIC, o.FILTER, o.HYBRID) :
     o \in IF Len(a) < 2 \/ a[1] \notin may \/ parseVectorJSON(a[2]) = {} THEN {}
           ELSE OptionsFrom(a, 3, [K |-> 10, METRIC |-> "cosine", FILTER |-> <<>>,
                                   HYBRID |-> {}, WITHSCORES |-> FALSE])}

handleVectorDelete(may, a) ==
  IF Len(a) # 2 \/ a[1] \notin may THEN {} ELSE {VectorDelete(a[1], a[2])}

handleMemoryPut(may, a) ==
  {MemoryPut(o.ID, a[1], o.WORKSPACE, o.KIND, a[2], o.METADATA, o.TTL) :
     o \in {o \in IF Len(a) < 2 THEN {}
                  ELSE OptionsFrom(a, 3, [ID |-> "", WORKSPACE |-> "default",
                                          KIND |-> {"long_term"}, METADATA |-> <<>>, TTL |-> 0]) :
              o.WORKSPACE \in may}}

handleMemoryGet(may, a) ==
  IF Len(a) # 2 \/ a[1] \notin may THEN {} ELSE {MemoryGet(a[1], a[2])}

handleMemorySearch(may, a) ==
  {MemorySearch(a[1], a[2], o.AGENT, o.KIND, o.K, o.THRESHOLD) :
     o \in IF Len(a) < 2 \/ a[1] \notin may THEN {}
           ELSE OptionsFrom(a, 3, [AGENT |-> "", KIND |-> {}, K |-> 10, THRESHOLD |-> {},
                                   WITHSCORES |-> FALSE])}

handleMemoryHistory(may, a) ==
  {MemoryHistory(a[1], a[2], o.LIMIT) :
     o \in IF Len(a) \notin {2, 4} \/ a[1] \notin may THEN {}
           ELSE OptionsFrom(a, 3, [LIMIT |-> 0])}

handleAgentRemember(may, a) ==
  {MemoryPut("", a[1], o.WORKSPACE, o.KIND, a[2], o.METADATA, o.TTL) :
     o \in {o \in IF Len(a) < 2 THEN {}
                  ELSE OptionsFrom(a, 3, [WORKSPACE |-> "default", KIND |-> {"long_term"},
                                          METADATA |-> <<>>, TTL |-> 0]) :
              o.WORKSPACE \in may}}

handleAgentRecall(may, a) ==
  {MemorySearch(o.WORKSPACE, a[2], a[1], o.KIND, o.K, o.THRESHOLD) :
     o \in {o \in IF Len(a) < 2 THEN {}
                  ELSE OptionsFrom(a, 3, [WORKSPACE |-> "default", KIND |-> {}, K |-> 10,
                                          THRESHOLD |-> {}, WITHSCORES |-> FALSE]) :
              o.WORKSPACE \in may}}

(* The one handler with a WORKSPACE option that does not ask               *)
(* authorizedForWorkspace.                                                 *)
handleSummaryCreate(a) ==
  {Consolidate(o.WORKSPACE, a[1], o.KIND, o.DEDUP_THRESHOLD) :
     o \in IF Len(a) < 1 THEN {}
           ELSE OptionsFrom(a, 2, [WORKSPACE |-> "default", KIND |-> {"episodic"},
                                   DEDUP_THRESHOLD |-> 0])}

handleGraphExtract(may, a) ==
  IF Len(a) # 2 \/ a[1] \notin may THEN {} ELSE {GraphExtract(a[1], a[2])}

handleGraphRelated(may, a) ==
  {GraphRelated(a[1], a[2], o.DEPTH) :
     o \in IF Len(a) < 2 \/ a[1] \notin may THEN {} ELSE OptionsFrom(a, 3, [DEPTH |-> 1])}

-----------------------------------------------------------------------------
(* MCP: the tools. *)

Or(s, default) == IF s = "" THEN default ELSE s

(* Fault: a negative lifetime is taken as it is. *)
ttlUnchecked(secs) == secs

ttlFromSeconds(secs) == IF secs > 0 THEN secs ELSE 0

BadTemp(temp) == temp # "" /\ ParseFloat(temp) = {}

cacheSemanticSet(in) ==
  IF BadTemp(in.temp) \/ in.cost < 0 THEN {}
  ELSE {SemanticSet(in.prompt, Or(in.model, "default"), Or(in.temp, "0"), in.response,
                    ttlFromSeconds(in.ttl), in.cost)}

cacheSemanticGet(in) ==
  IF BadTemp(in.temp) THEN {}
  ELSE {SemanticGet(in.prompt, Or(in.model, "default"), Or(in.temp, "0"),
                    IF in.threshold = {} THEN {85} ELSE in.threshold, in.prompt)}

cachePromptSet(in) ==
  IF in.cost < 0 \/ ~ValidJSON(in.variables) THEN {}
  ELSE {PromptSet(<<in.template, in.variables, in.model>>, in.response,
                  ttlFromSeconds(in.ttl), in.cost)}

cachePromptGet(in) ==
  IF ~ValidJSON(in.variables) THEN {}
  ELSE {PromptGet(<<in.template, in.variables, in.model>>, in.template)}

toolCacheSet(in) ==
  IF ~ValidJSON(in.args) THEN {}
  ELSE {ToolSet(<<in.name, in.args>>, in.result, ttlFromSeconds(in.ttl))}

toolCacheGet(in) == IF ~ValidJSON(in.args) THEN {} ELSE {ToolGet(<<in.name, in.args>>)}

storeVector(in) == {VectorUpsert(in.namespace, in.id, in.vector, in.metadata, in.text)}

findSimilar(in) ==
  {VectorSearch(in.namespace, in.vector, k, m, in.filter, {}) :
     k \in IF in.k = {} THEN {10} ELSE in.k,
     m \in IF in.metric = "" THEN {"cosine"} ELSE parseMetric(in.metric)}

deleteVector(in) == {VectorDelete(in.namespace, in.id)}

(* in.kind where it is given, else the default; {} if it is no kind. *)
KindOr(kind, default) == IF kind = "" THEN {default} ELSE {{k} : k \in ParseKind(kind)}

remember(in) ==
  {MemoryPut("", in.agent, Or(in.workspace, "default"), k, in.content, in.metadata,
             ttlFromSeconds(in.ttl)) : k \in KindOr(in.kind, {"long_term"})}

recall(in) ==
  {MemorySearch(Or(in.workspace, "default"), in.query, in.agent, kind,
                IF in.k = 0 THEN 10 ELSE in.k, in.threshold) : kind \in KindOr(in.kind, {})}

memoryHistory(in) == {MemoryHistory(Or(in.workspace, "default"), in.id, in.limit)}

consolidate(in) ==
  {Consolidate(Or(in.workspace, "default"), in.agent, k, in.dedup) :
     k \in KindOr(in.kind, {"episodic"})}

extractEntities(in) == {GraphExtract(Or(in.workspace, "default"), in.memory)}

findRelated(in) ==
  {GraphRelated(Or(in.workspace, "default"), in.node,
                IF in.depth <= 0 THEN 1 ELSE in.depth)}

-----------------------------------------------------------------------------
(* The registry of RESP commands, and the list of MCP tools. *)

Handle(name, may, a) ==
  CASE name = "CACHE.SEMANTIC" /\ a[1] = "SET" -> handleCacheSemanticSet(a)
    [] name = "CACHE.SEMANTIC" /\ a[1] = "GET" -> handleCacheSemanticGet(a)
    [] name = "CACHE.PROMPT" /\ a[1] = "SET" -> handleCachePromptSet(a)
    [] name = "CACHE.PROMPT" /\ a[1] = "GET" -> handleCachePromptGet(a)
    [] name = "TOOL.CACHE" /\ a[1] = "SET" -> handleToolCacheSet(a)
    [] name = "TOOL.CACHE" /\ a[1] = "GET" -> handleToolCacheGet(a)
    [] name = "VECTOR.UPSERT" -> handleVectorUpsert(may, a)
    [] name = "VECTOR.SEARCH" -> handleVectorSearch(may, a)
    [] name = "VECTOR.DELETE" -> handleVectorDelete(may, a)
    [] name = "MEMORY.PUT" -> handleMemoryPut(may, a)
    [] name = "MEMORY.GET" -> handleMemoryGet(may, a)
    [] name = "MEMORY.SEARCH" -> handleMemorySearch(may, a)
    [] name = "MEMORY.HISTORY" -> handleMemoryHistory(may, a)
    [] name = "AGENT.REMEMBER" -> handleAgentRemember(may, a)
    [] name = "AGENT.RECALL" -> handleAgentRecall(may, a)
    [] name = "SUMMARY.CREATE" -> handleSummaryCreate(a)
    [] name = "GRAPH.EXTRACT" -> handleGraphExtract(may, a)
    [] name = "GRAPH.RELATED" -> handleGraphRelated(may, a)
    [] OTHER -> {}

Tool(name, in) ==
  CASE name = "cache_semantic_set" -> cacheSemanticSet(in)
    [] name = "cache_semantic_get" -> cacheSemanticGet(in)
    [] name = "cache_prompt_set" -> cachePromptSet(in)
    [] name = "cache_prompt_get" -> cachePromptGet(in)
    [] name = "tool_cache_set" -> toolCacheSet(in)
    [] name = "tool_cache_get" -> toolCacheGet(in)
    [] name = "store_vector" -> storeVector(in)
    [] name = "find_similar" -> findSimilar(in)
    [] name = "delete_vector" -> deleteVector(in)
    [] name = "remember" -> remember(in)
    [] name = "recall" -> recall(in)
    [] name = "memory_history" -> memoryHistory(in)
    [] name = "consolidate" -> consolidate(in)
    [] name = "extract_entities" -> extractEntities(in)
    [] name = "find_related" -> findRelated(in)

-----------------------------------------------------------------------------
(* How a RESP client says what the fields of an MCP call say.              *)

FloatText(c) == IF c = 50 THEN "0.5" ELSE ToString(c \div 100)

(* Ways to give one option: a set of sets of options. *)
Text(name, s) == IF s = "" THEN {{}} ELSE {{<<name, s>>}}
Number(name, n) == {{<<name, ToString(n)>>}} \cup (IF n = 0 THEN {{}} ELSE {})
Float(name, c) == {{<<name, FloatText(c)>>}} \cup (IF c = 0 THEN {{}} ELSE {})
Pointer(name, p) == {{<<name, t>> : t \in p}}
Map(name, m) == IF m = <<>> THEN {{}} ELSE {{<<name, ToString(m)>>}}

(* The command with its options in any order. *)
Command(name, fixed, options) ==
  {[name |-> name, fixed |-> Len(fixed), args |-> fixed \o FlattenSeq(order)] :
     order \in SetToSeqs(options)}

Wordings(name, fixed, ways) ==
  UNION {Command(name, fixed, UNION {pick[i] : i \in DOMAIN ways}) :
           pick \in {p \in [DOMAIN ways -> UNION {ways[i] : i \in DOMAIN ways}] :
                       \A i \in DOMAIN ways : p[i] \in ways[i]}}

Said(tool, in) ==
  LET ws == Or(in.workspace, "default")
  IN
  CASE tool = "cache_semantic_set" ->
         Wordings("CACHE.SEMANTIC", <<"SET", in.prompt, in.response>>,
                  <<Text("MODEL", in.model), Text("TEMP", in.temp), Number("TTL", in.ttl),
                    Float("COST", in.cost)>>)
    [] tool = "cache_semantic_get" ->
         Wordings("CACHE.SEMANTIC", <<"GET", in.prompt>>,
                  <<Text("MODEL", in.model), Text("TEMP", in.temp),
                    Pointer("THRESHOLD", {FloatText(t) : t \in in.threshold})>>)
    [] tool = "cache_prompt_set" ->
         Wordings("CACHE.PROMPT", <<"SET", in.template, in.variables, in.model, in.response>>,
                  <<Number("TTL", in.ttl), Float("COST", in.cost)>>)
    [] tool = "cache_prompt_get" ->
         Wordings("CACHE.PROMPT", <<"GET", in.template, in.variables, in.model>>, <<>>)
    [] tool = "tool_cache_set" ->
         Wordings("TOOL.CACHE", <<"SET", in.name, in.args, in.result>>, <<Number("TTL", in.ttl)>>)
    [] tool = "tool_cache_get" -> Wordings("TOOL.CACHE", <<"GET", in.name, in.args>>, <<>>)
    [] tool = "store_vector" ->
         Wordings("VECTOR.UPSERT", <<in.namespace, in.id, in.vector>>,
                  <<Map("METADATA", in.metadata), Text("TEXT", in.text)>>)
    [] tool = "find_similar" ->
         Wordings("VECTOR.SEARCH", <<in.namespace, in.vector>>,
                  <<Pointer("K", {ToString(k) : k \in in.k}), Text("METRIC", in.metric),
                    {{<<"FILTER", f, in.filter[f]>> : f \in DOMAIN in.filter}}>>)
    [] tool = "delete_vector" -> Wordings("VECTOR.DELETE", <<in.namespace, in.id>>, <<>>)
    [] tool = "remember" ->
         UNION {Wordings(name, <<in.agent, in.content>>,
                         <<Text("WORKSPACE", in.workspace), Text("KIND", in.kind),
                           Map("METADATA", in.metadata), Number("TTL", in.ttl)>>) :
                name \in {"AGENT.REMEMBER", "MEMORY.PUT"}}
    [] tool = "recall" ->
         LET narrow == <<Text("KIND", in.kind), Number("K", in.k),
                         Pointer("THRESHOLD", {FloatText(t) : t \in in.threshold})>>
         IN  Wordings("AGENT.RECALL", <<in.agent, in.query>>,
                      Append(narrow, Text("WORKSPACE", in.workspace)))
             \cup Wordings("MEMORY.SEARCH", <<ws, in.query>>,
                           Append(narrow, Text("AGENT", in.agent)))
    [] tool = "memory_history" ->
         Wordings("MEMORY.HISTORY", <<ws, in.id>>, <<Number("LIMIT", in.limit)>>)
    [] tool = "consolidate" ->
         Wordings("SUMMARY.CREATE", <<in.agent>>,
                  <<Text("WORKSPACE", in.workspace), Text("KIND", in.kind),
                    Float("DEDUP_THRESHOLD", in.dedup)>>)
    [] tool = "extract_entities" -> Wordings("GRAPH.EXTRACT", <<ws, in.memory>>, <<>>)
    [] tool = "find_related" ->   \* GRAPH.RELATED refuses a depth below 1 that is given
         Wordings("GRAPH.RELATED", <<ws, in.node>>,
                  IF in.depth <= 0 THEN <<>> ELSE <<Number("DEPTH", in.depth)>>)

(* The workspace a call to a component is about; the caches have none.     *)
Within(call) ==
  CASE "workspace" \in DOMAIN call -> {call.workspace}
    [] "namespace" \in DOMAIN call -> {call.namespace}
    [] OTHER -> {}

(* With credentials per workspace, command c reaches no workspace but that *)
(* of the connection it comes from.                                        *)
StaysWithin(c) ==
  \A own \in {"default", "w", "v"} :
    \A call \in Handle(c.name, Authorized(TRUE, own), c.args) : Within(call) \subseteq {own}

(* The families of commands docs/getting-started/workspaces.md lists.      *)
WorkspaceCommands ==
  {"MEMORY.PUT", "MEMORY.GET", "MEMORY.SEARCH", "MEMORY.HISTORY", "AGENT.REMEMBER",
   "AGENT.RECALL", "VECTOR.UPSERT", "VECTOR.SEARCH", "VECTOR.DELETE", "GRAPH.EXTRACT",
   "GRAPH.RELATED"}

(* An MCP call and every RESP command that says the same, its options in   *)
(* any order, defaults given or left out, make the same call to the        *)
(* component behind them or are both refused (mcp/server.go: "identical    *)
(* defaulting behavior"); a command cut short calls nothing; and one of    *)
(* the families MEMORY, AGENT, VECTOR and GRAPH stays within the workspace *)
(* of its connection.                                                      *)
SameThroughBothDoors(tool, in) ==
  \A c \in Said(tool, in) :
    /\ Handle(c.name, Authorized(FALSE, "v"), c.args) = Tool(tool, in)
    /\ Len(c.args) > c.fixed => Handle(c.name, Authorized(FALSE, "v"), Front(c.args)) = {}
    /\ c.name \in WorkspaceCommands => StaysWithin(c)

(* What the comment of authorizedForWorkspace says: every command that     *)
(* takes an explicit workspace stays within that of its connection.        *)
KeptApart(tool, in) == \A c \in Said(tool, in) : StaysWithin(c)
=============================================================================
