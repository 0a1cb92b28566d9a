-------------------------------- MODULE Caches --------------------------------
(***************************************************************************)
(* The caches for language models: CACHE.SEMANTIC and CACHE.PROMPT         *)
(* (internal/semantic), TOOL.CACHE (internal/toolcache), as their handlers *)
(* (handlers_semantic.go, handlers_toolcache.go) use them, and the savings *)
(* that hits report to the Tracker.                                        *)
(*                                                                         *)
(* Each cache has one mutex, and reads the clock before it takes it, or,   *)
(* in Get of the prompt and tool caches, while it holds it.  TOOL.CACHE    *)
(* looks a key up under the read lock and, if it found it expired, takes   *)
(* the write lock to drop it.  Prompts are embedded before any lock is     *)
(* taken; the embedding service may fail.                                  *)
(*                                                                         *)
(* Texts are known by their similarity.  The JSON arguments of a tool, and *)
(* the variables of a template, are a number: canonicalising them parses   *)
(* it as a float64 of MantissaBits bits.                                   *)
(***************************************************************************)
EXTENDS Tracker

CONSTANTS
  Clients,
  ToolArgs,       \* numbers that tools are called with
  MantissaBits,   \* 53
  Templates,
  Partitions,     \* model and temperature of CACHE.SEMANTIC
  Prompts,
  Similarity,     \* Similarity[<<p, q>>]: cosine of two prompts, or NaN
  NaN,
  Responses,
  TTLs,           \* 0: never expires
  Thresholds,     \* what THRESHOLD may say, NaN included
  Commands,       \* the operations clients call in this instance
  MaxOps,         \* bound: calls begun
  MaxTime,        \* bound: how far the clock runs
  None

(* The entries the caches hold. *)
Stored == [text : Prompts \cup Templates \cup {None}, response : Responses,
           cost : Costs \cup {0}, expiresAt : Nat \cup {None}]

ASSUME CachesAssumption ==
  /\ ({"semantic"} \X Prompts) \cup ({"prompt"} \X Templates) \subseteq Entries
  /\ None \notin Stored
  /\ ToolArgs \subseteq Nat /\ MantissaBits \in Nat \ {0}
  /\ Similarity \in [Prompts \X Prompts -> Int \cup {NaN}]
  /\ TTLs \subseteq Nat /\ Thresholds \subseteq Int \cup {NaN}
  /\ MaxOps \in Nat /\ MaxTime \in Nat

VARIABLES
  tool,      \* tool[k]: the entry of ToolCache for key k, or None
  prompt,    \* prompt[k]: the entry of PromptCache, k a template and its variables
  semantic,  \* semantic[p]: the entries of a partition, oldest first
  op,        \* op[c]: the call client c is in
  clock,
  issued     \* calls begun so far

vars == <<saved, top, hits, tool, prompt, semantic, op, clock, issued>>

(* encoding/json reads a number as a float64: one that needs more bits     *)
(* than the mantissa has is rounded to a multiple of `unit', ties to even. *)
canonical(n) ==
  LET unit == CHOOSE u \in {2^i : i \in 0..n} :
                /\ n < u * 2^MantissaBits
                /\ u = 1 \/ n >= (u \div 2) * 2^MantissaBits
      down == n \div unit
      rest == n % unit
      up   == 2 * rest > unit \/ (2 * rest = unit /\ down % 2 = 1)
  IN  unit * (IF up THEN down + 1 ELSE down)

Keys == {canonical(n) : n \in ToolArgs}
PromptKeys == Templates \X Keys

Call(pc, name, key, entry, now) ==
  [pc |-> pc, name |-> name, key |-> key, entry |-> entry, now |-> now]

Idle == Call("idle", "none", None, None, 0)

Init ==
  /\ TrackerInit
  /\ tool = [k \in Keys |-> None]
  /\ prompt = [k \in PromptKeys |-> None]
  /\ semantic = [p \in Partitions |-> <<>>]
  /\ op = [c \in Clients |-> Idle]
  /\ clock = 0
  /\ issued = 0

Entry(text, response, cost, expiresAt) ==
  [text |-> text, response |-> response, cost |-> cost, expiresAt |-> expiresAt]

expired(e, now) == e.expiresAt # None /\ e.expiresAt <= now

ExpiresAt(ttl) == IF ttl > 0 THEN clock + ttl ELSE None

Calls(c, name) ==
  /\ op[c].pc = "idle"
  /\ name \in Commands
  /\ issued < MaxOps
  /\ issued' = issued + 1
  /\ UNCHANGED <<saved, top, hits, tool, prompt, semantic, clock>>

(* A step of the call of c that leaves the caches alone. *)
Goto(c, call) ==
  /\ op' = [op EXCEPT ![c] = call]
  /\ UNCHANGED <<saved, top, hits, tool, prompt, semantic, clock, issued>>

-----------------------------------------------------------------------------
(* TOOL.CACHE. *)

ToolSet(c) ==
  /\ Calls(c, "ToolSet")
  /\ \E n \in ToolArgs, r \in Responses, t \in TTLs :
       op' = [op EXCEPT ![c] = Call("store", "ToolSet", canonical(n),
                                    Entry(None, r, 0, ExpiresAt(t)), 0)]

ToolStore(c) ==
  /\ op[c].pc = "store" /\ op[c].name = "ToolSet"
  /\ tool' = [tool EXCEPT ![op[c].key] = op[c].entry]
  /\ op' = [op EXCEPT ![c] = Idle]
  /\ UNCHANGED <<saved, top, hits, prompt, semantic, clock, issued>>

(* The lookup, under the read lock. *)
ToolGet(c) ==
  /\ Calls(c, "ToolGet")
  /\ \E n \in ToolArgs :
       LET k == canonical(n)
           e == tool[k]
       IN  op' = [op EXCEPT ![c] =
                    IF e = None THEN Idle
                    ELSE IF expired(e, clock) THEN Call("evict", "ToolGet", k, None, 0)
                    ELSE Call("hit", "ToolGet", k, e, 0)]

(* Fault: what was expired a moment ago is dropped without another look. *)
ToolEvictUnchecked(c) ==
  /\ op[c].pc = "evict"
  /\ tool' = [tool EXCEPT ![op[c].key] = None]
  /\ op' = [op EXCEPT ![c] = Idle]
  /\ UNCHANGED <<saved, top, hits, prompt, semantic, clock, issued>>

(* The write lock: the key may have been refreshed since.  It is a miss    *)
(* either way.                                                             *)
ToolEvict(c) ==
  /\ op[c].pc = "evict"
  /\ tool' = IF tool[op[c].key] # None /\ expired(tool[op[c].key], clock)
             THEN [tool EXCEPT ![op[c].key] = None] ELSE tool
  /\ op' = [op EXCEPT ![c] = Idle]
  /\ UNCHANGED <<saved, top, hits, prompt, semantic, clock, issued>>

ToolReturns(c) ==
  /\ op[c].pc = "hit" /\ op[c].name = "ToolGet"
  /\ Goto(c, Idle)

-----------------------------------------------------------------------------
(* CACHE.PROMPT. *)

PromptSet(c) ==
  /\ Calls(c, "PromptSet")
  /\ \E k \in PromptKeys, r \in Responses, t \in TTLs, cost \in Costs :
       op' = [op EXCEPT ![c] = Call("store", "PromptSet", k,
                                    Entry(k[1], r, cost, ExpiresAt(t)), 0)]

PromptStore(c) ==
  /\ op[c].pc = "store" /\ op[c].name = "PromptSet"
  /\ prompt' = [prompt EXCEPT ![op[c].key] = op[c].entry]
  /\ op' = [op EXCEPT ![c] = Idle]
  /\ UNCHANGED <<saved, top, hits, tool, semantic, clock, issued>>

PromptGet(c) ==
  /\ op[c].pc = "idle" /\ "PromptGet" \in Commands /\ issued < MaxOps
  /\ issued' = issued + 1
  /\ \E k \in PromptKeys :
       LET e == prompt[k]
           gone == e = None \/ expired(e, clock)
       IN  /\ prompt' = IF gone THEN [prompt EXCEPT ![k] = None] ELSE prompt
           /\ op' = [op EXCEPT ![c] = IF gone THEN Idle ELSE Call("hit", "PromptGet", e.text, e, 0)]
  /\ UNCHANGED <<saved, top, hits, tool, semantic, clock>>

-----------------------------------------------------------------------------
(* CACHE.SEMANTIC. *)

SemanticCall(c) ==
  \/ /\ Calls(c, "SemanticSet")
     /\ \E p \in Partitions, x \in Prompts, r \in Responses, t \in TTLs, cost \in Costs :
          op' = [op EXCEPT ![c] = Call("embed", "SemanticSet", p, Entry(x, r, cost, t), 0)]
  \/ /\ Calls(c, "SemanticGet")
     /\ \E p \in Partitions, x \in Prompts, th \in Thresholds :
          op' = [op EXCEPT ![c] = Call("embed", "SemanticGet", p, [text |-> x, threshold |-> th], 0)]

EmbedFails(c) == op[c].pc = "embed" /\ Goto(c, Idle)

(* The prompt is embedded and the clock read; the lock comes next. *)
Embedded(c) ==
  /\ op[c].pc = "embed"
  /\ LET e == op[c].entry
     IN  Goto(c, IF op[c].name = "SemanticSet"
                 THEN Call("store", "SemanticSet", op[c].key,
                           Entry(e.text, e.response, e.cost, ExpiresAt(e.expiresAt)), 0)
                 ELSE Call("scan", "SemanticGet", op[c].key, e, clock))

(* The partition grows at its end: a prompt stored twice is there twice. *)
SemanticStore(c) ==
  /\ op[c].pc = "store" /\ op[c].name = "SemanticSet"
  /\ semantic' = [semantic EXCEPT ![op[c].key] = Append(@, op[c].entry)]
  /\ op' = [op EXCEPT ![c] = Idle]
  /\ UNCHANGED <<saved, top, hits, tool, prompt, clock, issued>>

Score(x, e) == Similarity[<<x, e.text>>]

(* Fault: the last entry wins. *)
BeatsAlways(score, r) == score # NaN

(* Is a score better than the best so far? *)
Beats(score, r) == score # NaN /\ (r.best = 0 \/ score > r.bestScore)

(* What the pass makes of one entry: an expired one is dropped, a better   *)
(* one becomes the best, by its place among those kept.                    *)
Visit(x, e, now, r) ==
  LET score == Score(x, e)
      kept  == Append(r.kept, e)
  IN  IF expired(e, now) THEN r
      ELSE IF Beats(score, r) THEN [kept |-> kept, best |-> Len(kept), bestScore |-> score]
      ELSE [kept |-> kept, best |-> r.best, bestScore |-> r.bestScore]

NothingYet == [kept |-> <<>>, best |-> 0, bestScore |-> None]

(* One pass over the partition: drop the expired entries and remember the  *)
(* first of the closest among the others, 0 if there is none.              *)
scan(x, entries, now) ==
  LET pass[i \in 0..Len(entries)] ==
        IF i = 0 THEN NothingYet ELSE Visit(x, entries[i], now, pass[i - 1])
  IN  pass[Len(entries)]

(* Is a score high enough?  The lookup misses if score < threshold, and    *)
(* nothing is less than NaN.                                               *)
Clears(score, threshold) == threshold = NaN \/ score >= threshold

SemanticScan(c) ==
  LET r == scan(op[c].entry.text, semantic[op[c].key], op[c].now)
      found == r.best # 0 /\ Clears(r.bestScore, op[c].entry.threshold)
  IN  /\ op[c].pc = "scan"
      /\ semantic' = [semantic EXCEPT ![op[c].key] = r.kept]
      /\ op' = [op EXCEPT ![c] = IF found THEN Call("hit", "SemanticGet", op[c].entry.text, r.kept[r.best], 0)
                                 ELSE Idle]
      /\ UNCHANGED <<saved, top, hits, tool, prompt, clock, issued>>

-----------------------------------------------------------------------------
(* A hit of CACHE.PROMPT or CACHE.SEMANTIC: the handler reports what it    *)
(* saved, under the asked-for prompt or the template, and replies.         *)
HitReturns(c) ==
  /\ op[c].pc = "hit" /\ op[c].name # "ToolGet"
  /\ RecordCacheHitSavings(<<IF op[c].name = "PromptGet" THEN "prompt" ELSE "semantic", op[c].key>>,
                           op[c].entry.cost)
  /\ op' = [op EXCEPT ![c] = Idle]
  /\ UNCHANGED <<tool, prompt, semantic, clock, issued>>

Tick ==
  /\ clock < MaxTime
  /\ clock' = clock + 1
  /\ UNCHANGED <<saved, top, hits, tool, prompt, semantic, op, issued>>

(* No client need call anything. *)
Silent == (\A c \in Clients : op[c].pc = "idle") /\ UNCHANGED vars

Next ==
  \/ \E c \in Clients :
       \/ ToolSet(c) \/ ToolStore(c) \/ ToolGet(c) \/ ToolEvict(c) \/ ToolReturns(c)
       \/ PromptSet(c) \/ PromptStore(c) \/ PromptGet(c)
       \/ SemanticCall(c) \/ EmbedFails(c) \/ Embedded(c) \/ SemanticStore(c) \/ SemanticScan(c)
       \/ HitReturns(c)
  \/ Tick \/ Silent

Spec == Init /\ [][Next]_vars

-----------------------------------------------------------------------------
(* Properties. *)

LiveAt(e) == e # None /\ ~expired(e, clock)

LiveOf(s) ==
  LET live[i \in 0..Len(s)] == IF i = 0 THEN <<>>
                               ELSE IF expired(s[i], clock) THEN live[i - 1]
                               ELSE Append(live[i - 1], s[i])
  IN  live[Len(s)]

(* The live entries of s are the first ones of those of t. *)
LiveStay(s, t) ==
  LET before == LiveOf(s)
      after  == LiveOf(t)
  IN  Len(before) <= Len(after) /\ before = SubSeq(after, 1, Len(before))

(* No lookup ever throws away what is still good: an entry that has not    *)
(* expired stays until a SET of its key replaces it, though readers drop   *)
(* expired entries on what they saw before they took the lock; and the     *)
(* live entries of a partition survive its compaction, in their order.     *)
NothingLiveLost ==
  [][/\ \A k \in Keys : LiveAt(tool[k]) => tool'[k] # None
     /\ \A k \in PromptKeys : LiveAt(prompt[k]) => prompt'[k] # None
     /\ \A p \in Partitions : LiveStay(semantic[p], semantic'[p])]_vars

(* If the lookup of c ends in this step, it answers with the first of the  *)
(* closest live entries, if one is similar enough.                         *)
AnswersBest(c) ==
  op[c].pc = "scan" /\ op'[c].pc # "scan" =>
    LET entries == semantic[op[c].key]
        S(i) == Score(op[c].entry.text, entries[i])
        good == {i \in 1..Len(entries) : ~expired(entries[i], op[c].now) /\ S(i) # NaN
                                          /\ Clears(S(i), op[c].entry.threshold)}
    IN  IF op'[c].pc = "idle" THEN good = {}
        ELSE \E i \in good : /\ op'[c].entry = entries[i]
                             /\ \A j \in good : S(j) < S(i) \/ (S(j) = S(i) /\ i <= j)

(* CACHE.SEMANTIC GET answers with the oldest of the closest live entries  *)
(* of its partition, if that is similar enough, and misses only if none    *)
(* is: a prompt stored again is answered as before until the older entry   *)
(* expires.                                                                *)
SemanticBest == [][\A c \in Clients : AnswersBest(c)]_vars
=============================================================================
