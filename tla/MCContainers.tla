---------------------------- MODULE MCContainers ----------------------------
(* Walks with SCAN, the vector store, and what the algorithms for lists,   *)
(* sorted sets, patterns and arguments compute, against reference          *)
(* definitions, over every input in small sets.                            *)
EXTENDS Scan, Queries, Vector, Doors

CONSTANTS MaxLen, MaxPieces

ArgRange == -4 .. 4
NumberRange == -1 .. 2
TwoMaps == {<<>>, [lang |-> "en"]}

Stored(v, m, t) == [vector |-> v, metadata |-> m, text |-> t]
SomeEntries ==
  {Stored(<<0, 0>>, <<>>, {"x"}), Stored(<<3, 4>>, [lang |-> "en"], {}),
   Stored(<<3, 4>>, <<>>, {"x", "y"}), Stored(<<3, 0>>, <<>>, {"x"}),
   Stored(<<3, 0>>, [lang |-> "en"], {"y"}), Stored(<<0, 4>>, [lang |-> "en"], {"x", "y"}),
   Stored(<<5>>, <<>>, {"x"})}

SeqsUpTo(n, S) == UNION {[1..k -> S] : k \in 0..n}

ListValues == {[about |-> "list", value |-> l] : l \in SeqsUpTo(MaxLen, Members)}
ZSetValues == {[about |-> "zset", value |-> z] : z \in UNION {[M -> ZScores] : M \in SUBSET Members}}

(* Patterns made of a, *, ?, [, ], \, ^ and a-c; texts of a, b, [, ], \, ^. *)
Pieces == {<<97>>, <<Star>>, <<Question>>, <<OpenBracket>>, <<CloseBracket>>, <<Backslash>>, <<Caret>>, <<97, Dash, 99>>}
Patterns == {[about |-> "glob", value |-> FlattenSeq(s)] : s \in SeqsUpTo(MaxPieces, Pieces)}
SomeTexts == SeqsUpTo(2, {97, 98, 99, OpenBracket, CloseBracket, Backslash, Caret})

(* MCP calls, by tool. *)
Space == [workspace : {"", "w"}]
With(r, s) == r @@ s
Calls(tool, fields, spaces) ==
  {[about |-> "door", tool |-> tool, value |-> With(f, s)] : f \in fields, s \in spaces}
NoSpace == [workspace : {""}]
Temps == {"", "0.5", "x"}
Kinds == {"", "semantic", "EPISODIC", "x"}
Costs == {-100, 0, 50}
Thresholds == {{}, {0}, {50}}
MCPCalls ==
  UNION
  {Calls("cache_semantic_set",
         [prompt : {"p"}, response : {"r"}, model : {"", "m"}, temp : Temps,
          ttl : Numbers, cost : Costs], NoSpace),
   Calls("cache_semantic_get",
         [prompt : {"p"}, model : {"", "m"}, temp : Temps, threshold : Thresholds], NoSpace),
   Calls("cache_prompt_set",
         [template : {"t"}, variables : {"{}", "{"}, model : {"m"}, response : {"r"},
          ttl : Numbers, cost : Costs], NoSpace),
   Calls("cache_prompt_get",
         [template : {"t"}, variables : {"{}", "{"}, model : {"m"}], NoSpace),
   Calls("tool_cache_set",
         [name : {"t"}, args : {"{}", "{"}, result : {"r"}, ttl : Numbers], NoSpace),
   Calls("tool_cache_get", [name : {"t"}, args : {"{}", "{"}], NoSpace),
   Calls("store_vector",
         [namespace : {"w"}, id : {"i"}, vector : {"[1]"}, metadata : Maps,
          text : {"", "x"}], NoSpace),
   Calls("find_similar",
         [namespace : {"w"}, vector : {"[1]"}, k : {{}} \cup {{n} : n \in Numbers},
          metric : {"", "DOT", "euclidean", "x"},
          filter : Maps \cup {[lang |-> "en", by |-> "a"]}], NoSpace),
   Calls("delete_vector", [namespace : {"w"}, id : {"i"}], NoSpace),
   Calls("remember",
         [agent : {"a"}, content : {"c"}, kind : Kinds, metadata : Maps, ttl : Numbers], Space),
   Calls("recall",
         [agent : {"a"}, query : {"q"}, kind : Kinds, k : Numbers, threshold : Thresholds], Space),
   Calls("memory_history", [id : {"i"}, limit : Numbers], Space),
   Calls("consolidate", [agent : {"a"}, kind : Kinds, dedup : Costs], Space),
   Calls("extract_entities", [memory : {"i"}], Space),
   Calls("find_related", [node : {"n"}, depth : Numbers], Space)}

inputVars == <<scanVars, namespaces, input>>

(* A walk is about to begin, the vector store is empty, or one input is    *)
(* looked at.                                                              *)
InputInit ==
  /\ ScanInit
  /\ VectorInit
  /\ \/ input = [about |-> "walk"]
     \/ /\ live = {} /\ count = 1
        /\ \/ input = [about |-> "vectors"]
           \/ input \in ListValues \/ input \in ZSetValues
           \/ input \in Patterns \/ input \in MCPCalls

InputNext ==
  /\ UNCHANGED input
  /\ \/ input.about = "walk" /\ ScanNext /\ UNCHANGED namespaces
     \/ input.about = "vectors" /\ VectorNext /\ UNCHANGED scanVars
     \/ input.about \notin {"walk", "vectors", "sessions"} /\ UNCHANGED inputVars

InputSpec == InputInit /\ [][InputNext]_inputVars

-----------------------------------------------------------------------------
(* Every MCP tool does what the RESP command of the same meaning does, and *)
(* the commands workspaces.md lists refuse other connections' workspaces.  *)
DoorsAgree == input.about = "door" => SameThroughBothDoors(input.tool, input.value)

(* client.go, authorizedForWorkspace: "the actual isolation boundary,      *)
(* checked by every command that takes an explicit workspace/namespace     *)
(* argument".                                                              *)
WorkspacesKeptApart == input.about = "door" => KeptApart(input.tool, input.value)
=============================================================================
