------------------------------ MODULE AgentMemory ------------------------------
(***************************************************************************)
(* The agents' shared memory (internal/memory), its search index           *)
(* (internal/vector) and the consolidation of memories into summaries      *)
(* (internal/consolidate), as the MEMORY.*, AGENT.* and SUMMARY.CREATE     *)
(* handlers use them.                                                      *)
(*                                                                         *)
(* Calls embed their text first, with no lock held; the embedding service  *)
(* may fail.  Everything Put, Get, History and List do to records, history *)
(* and index happens under Store.mu and is one step.  Search, however,     *)
(* ranks the index, which has its own mutex, before it takes Store.mu.     *)
(* (Between the record and the index update of a call that holds Store.mu, *)
(* a ranking sees the index as it was before that call.)                   *)
(*                                                                         *)
(* A text is known by its similarity to the queries and to other texts.    *)
(* A slot is a pair <<workspace, id>>; ids are numbers, ordered as their   *)
(* strings are.  Id 0 stands for the empty id, to be generated.            *)
(***************************************************************************)
EXTENDS Integers, Sequences, FiniteSets

CONSTANTS
  Clients,       \* goroutines serving connections
  Workspaces, Ids, Agents,
  GeneratedIds,  \* the ids newID comes up with
  Kinds,         \* memory kinds; summaries are "long_term"
  Contents,      \* texts of memories and summaries
  Similarity,    \* cosine of a text to the query, NaN where it is undefined
  NaN,
  Alike,         \* pairs of texts whose cosine reaches the dedup threshold
  TTLs,          \* 0: never expires
  Ks,            \* K arguments of searches
  Thresholds,    \* THRESHOLD arguments; NoThreshold: not given
  NoThreshold,
  HistoryCap,    \* maxMemoryHistoryPerRecord
  DefaultK,      \* defaultSearchK
  Commands,      \* the operations clients call in this instance
  MaxOps,        \* bound: calls begun
  MaxTime,       \* bound: how far the clock runs
  None

Slots == Workspaces \X Ids
NoTTL == -1

(* One version of a memory. *)
Memories == [agent : Agents, kind : Kinds, content : Contents,
             createdAt : Nat, version : Nat \ {0}, expiresAt : Nat \cup {NoTTL}]

ASSUME MemoryAssumption ==
  /\ Ids \subseteq Nat \ {0} /\ GeneratedIds \subseteq Ids
  /\ "long_term" \in Kinds
  /\ HistoryCap \in Nat \ {0} /\ DefaultK \in Nat \ {0}
  /\ TTLs \subseteq Nat /\ Ks \subseteq Int
  /\ Similarity \in [Contents -> Int \cup {NaN}]
  /\ Alike \subseteq Contents \X Contents
  /\ \A p \in Alike : <<p[2], p[1]>> \in Alike
  /\ MaxOps \in Nat /\ MaxTime \in Nat
  /\ None \notin Memories

VARIABLES
  records,   \* records[s]: the current version of slot s, or None
  history,   \* history[s]: its prior versions, oldest first
  index,     \* index[s]: what the vector store holds for s, or None
  op,        \* op[c]: the call client c is in
  clock,
  issued     \* calls begun so far

vars == <<records, history, index, op, clock, issued>>

NoReq == [name |-> "none", ws |-> None, id |-> 0, agent |-> None, kind |-> None,
          content |-> None, ttl |-> 0, k |-> 0, threshold |-> NoThreshold]

(* pc: idle; embed; store (Put, about to lock); filter (Search, ranked);   *)
(* complete (Consolidate, waiting for the language model).                 *)
(* raw: ranked candidates; out: ids returned; sources, reps: the memories  *)
(* Consolidate listed and kept.                                            *)
Idle == [pc |-> "idle", req |-> NoReq, now |-> 0, raw |-> <<>>, out |-> <<>>,
         sources |-> {}, reps |-> {}]

Init ==
  /\ records = [s \in Slots |-> None]
  /\ history = [s \in Slots |-> <<>>]
  /\ index = [s \in Slots |-> None]
  /\ op = [c \in Clients |-> Idle]
  /\ clock = 0
  /\ issued = 0

Req(c) == op[c].req

expired(rec, now) == rec.expiresAt # NoTTL /\ rec.expiresAt <= now

Live(s) == records[s] # None /\ ~expired(records[s], clock)

(* A client calls an operation. *)
Calls(c, name) ==
  /\ op[c].pc = "idle"
  /\ name \in Commands
  /\ issued < MaxOps
  /\ issued' = issued + 1

-----------------------------------------------------------------------------
(* Put, also for Consolidate's summary.                                    *)

(* Clients know a generated id only once it was returned to them. *)
KnownIds(w) == (Ids \ GeneratedIds) \cup {i \in GeneratedIds : records[<<w, i>>] # None}

PutRequest(w, i, a, k, x, t) ==
  [Idle EXCEPT !.pc = "embed",
     !.req = [NoReq EXCEPT !.name = "Put", !.ws = w, !.id = i, !.agent = a,
                           !.kind = k, !.content = x, !.ttl = t]]

(* MEMORY.PUT *)
PutBegin(c) ==
  /\ Calls(c, "Put")
  /\ \E w \in Workspaces, a \in Agents, k \in Kinds, x \in Contents, t \in TTLs :
     \E i \in KnownIds(w) \cup {0} : op' = [op EXCEPT ![c] = PutRequest(w, i, a, k, x, t)]
  /\ UNCHANGED <<records, history, index, clock>>

(* AGENT.REMEMBER takes no id. *)
Remember(c) ==
  /\ Calls(c, "Remember")
  /\ \E w \in Workspaces, a \in Agents, k \in Kinds, x \in Contents, t \in TTLs :
       op' = [op EXCEPT ![c] = PutRequest(w, 0, a, k, x, t)]
  /\ UNCHANGED <<records, history, index, clock>>

(* EmbedOne returns an error, and so does the call. *)
EmbedFails(c) ==
  /\ op[c].pc = "embed"
  /\ op' = [op EXCEPT ![c] = Idle]
  /\ UNCHANGED <<records, history, index, clock, issued>>

(* newID never repeats an id.  external: crypto/rand.                      *)
IdsFor(r) ==
  IF r.id # 0 THEN {r.id}
  ELSE {i \in GeneratedIds : records[<<r.ws, i>>] = None /\ \A c \in Clients : op[c].req.id # i}

PutEmbedded(c) ==
  /\ op[c].pc = "embed" /\ Req(c).name \in {"Put", "Consolidate"}
  /\ \E i \in IdsFor(Req(c)) :
       op' = [op EXCEPT ![c] = [Idle EXCEPT !.pc = "store", !.req = [Req(c) EXCEPT !.id = i],
                                             !.now = clock]]
  /\ UNCHANGED <<records, history, index, clock, issued>>

NewestOf(h) == IF Len(h) > HistoryCap THEN SubSeq(h, Len(h) - HistoryCap + 1, Len(h)) ELSE h

recordHistoryLocked(s) ==
  [history EXCEPT ![s] = IF records[s] = None THEN @ ELSE NewestOf(Append(@, records[s]))]

(* The current version is looked up without asking whether it has expired. *)
NewVersion(s, r, now) ==
  LET old == records[s]
  IN  [agent |-> r.agent, kind |-> r.kind, content |-> r.content,
       createdAt |-> IF old = None THEN now ELSE old.createdAt,
       version |-> IF old = None THEN 1 ELSE old.version + 1,
       expiresAt |-> IF r.ttl > 0 THEN now + r.ttl ELSE NoTTL]

Indexed(rec) == [content |-> rec.content, agent |-> rec.agent, kind |-> rec.kind]

PutStore(c) ==
  LET s   == <<Req(c).ws, Req(c).id>>
      rec == NewVersion(s, Req(c), op[c].now)
  IN  /\ op[c].pc = "store"
      /\ history' = recordHistoryLocked(s)
      /\ records' = [records EXCEPT ![s] = rec]
      /\ index' = [index EXCEPT ![s] = Indexed(rec)]
      /\ op' = [op EXCEPT ![c] = Idle]
      /\ UNCHANGED <<clock, issued>>

-----------------------------------------------------------------------------
(* Lazy expiry: every reader that meets an expired record drops it, its    *)
(* index entry and its history.                                            *)

(* Fault: the index is forgotten. *)
DropRecordsOnly(S) ==
  /\ records' = [s \in Slots |-> IF s \in S THEN None ELSE records[s]]
  /\ history' = [s \in Slots |-> IF s \in S THEN <<>> ELSE history[s]]
  /\ UNCHANGED index

Drop(S) ==
  /\ records' = [s \in Slots |-> IF s \in S THEN None ELSE records[s]]
  /\ index'   = [s \in Slots |-> IF s \in S THEN None ELSE index[s]]
  /\ history' = [s \in Slots |-> IF s \in S THEN <<>> ELSE history[s]]

(* Fault: an entry is dropped one instant before it expires. *)
DropsEarly(S) == {s \in S : records[s] # None /\ expired(records[s], clock + 1)}

Expired(S) == {s \in S : records[s] # None /\ expired(records[s], clock)}

(* Get and History look at one record. *)
Lookup(c) ==
  /\ Calls(c, "Get")
  /\ \E s \in Slots : Drop(Expired({s}))
  /\ UNCHANGED <<op, clock>>

-----------------------------------------------------------------------------
(* Search. *)

SearchRequest(w, a, kd, k, th) ==
  [Idle EXCEPT !.pc = "embed",
     !.req = [NoReq EXCEPT !.name = "Search", !.ws = w, !.agent = a, !.kind = kd,
                           !.k = IF k <= 0 THEN DefaultK ELSE k, !.threshold = th]]

(* MEMORY.SEARCH *)
SearchBegin(c) ==
  /\ Calls(c, "Search")
  /\ \E w \in Workspaces, a \in Agents \cup {None}, kd \in Kinds \cup {None}, k \in Ks, th \in Thresholds :
       op' = [op EXCEPT ![c] = SearchRequest(w, a, kd, k, th)]
  /\ UNCHANGED <<records, history, index, clock>>

(* AGENT.RECALL always names an agent. *)
Recall(c) ==
  /\ Calls(c, "Recall")
  /\ \E w \in Workspaces, a \in Agents, kd \in Kinds \cup {None}, k \in Ks, th \in Thresholds :
       op' = [op EXCEPT ![c] = SearchRequest(w, a, kd, k, th)]
  /\ UNCHANGED <<records, history, index, clock>>

Matches(e, r) == r.agent \in {None, e.agent} /\ r.kind \in {None, e.kind}

Score(s) == Similarity[index[s].content]

(* Best score first, ties by id. *)
Better(s, t) == Score(s) > Score(t) \/ (Score(s) = Score(t) /\ s[2] < t[2])

Ranked(S) ==
  [i \in 1..Cardinality(S) |->
     CHOOSE s \in S : Cardinality({t \in S : Better(t, s)}) = i - 1]

(* vector.Store.Search: filter, score, sort, cut off at K.                 *)
VectorSearch(r) ==
  LET found == {s \in Slots : /\ s[1] = r.ws /\ index[s] # None
                              /\ Matches(index[s], r) /\ Score(s) # NaN}
      all   == Ranked(found)
  IN  [i \in 1..(IF Len(all) > r.k THEN r.k ELSE Len(all)) |-> [slot |-> all[i], score |-> Score(all[i])]]

Rank(c) ==
  /\ op[c].pc = "embed" /\ Req(c).name = "Search"
  /\ op' = [op EXCEPT ![c] = [Idle EXCEPT !.pc = "filter", !.req = Req(c), !.raw = VectorSearch(Req(c))]]
  /\ UNCHANGED <<records, history, index, clock, issued>>

(* Fault: expired candidates are dropped, and returned all the same. *)
KeepsExpired(c, x) ==
  /\ records[x.slot] # None
  /\ Req(c).threshold = NoThreshold \/ x.score >= Req(c).threshold

(* A candidate is returned if it still has a live record and scores enough.*)
Keeps(c, x) ==
  /\ Live(x.slot)
  /\ Req(c).threshold = NoThreshold \/ x.score >= Req(c).threshold

Results(c) ==
  LET raw == op[c].raw
      kept[i \in 0..Len(raw)] == IF i = 0 THEN <<>>
                                 ELSE IF Keeps(c, raw[i]) THEN Append(kept[i - 1], raw[i])
                                 ELSE kept[i - 1]
  IN  kept[Len(raw)]

Filter(c) ==
  /\ op[c].pc = "filter"
  /\ Drop(Expired({op[c].raw[i].slot : i \in 1..Len(op[c].raw)}))
  /\ op' = [op EXCEPT ![c] = [Idle EXCEPT !.pc = "reply", !.req = Req(c), !.out = Results(c)]]
  /\ UNCHANGED <<clock, issued>>

SearchReturns(c) ==
  /\ op[c].pc = "reply"
  /\ op' = [op EXCEPT ![c] = Idle]
  /\ UNCHANGED <<records, history, index, clock, issued>>

-----------------------------------------------------------------------------
(* Consolidate: list, dedupe, let the model summarise, Put the summary.    *)

(* Most recently created first, ties by id. *)
Newer(s, t) ==
  \/ records[s].createdAt > records[t].createdAt
  \/ records[s].createdAt = records[t].createdAt /\ s[2] < t[2]

NewestFirst(S) ==
  [i \in 1..Cardinality(S) |->
     CHOOSE s \in S : Cardinality({t \in S : Newer(t, s)}) = i - 1]

AlikeSlots(s, t) == <<records[s].content, records[t].content>> \in Alike

(* Fault: a memory is only compared with the latest representative. *)
dedupeAgainstLast(S) ==
  LET order == NewestFirst(S)
      kept[i \in 0..Cardinality(S)] ==
        IF i = 0 THEN <<>>
        ELSE LET reps == kept[i - 1]
             IN  IF reps # <<>> /\ AlikeSlots(order[i], reps[Len(reps)]) THEN reps ELSE Append(reps, order[i])
      all == kept[Cardinality(S)]
  IN  {all[i] : i \in 1..Len(all)}

(* Greedily, newest first: keep what resembles nothing kept so far.        *)
dedupe(S) ==
  LET order == NewestFirst(S)
      kept[i \in 0..Cardinality(S)] ==
        IF i = 0 THEN {}
        ELSE IF \E s \in kept[i - 1] : AlikeSlots(order[i], s) THEN kept[i - 1]
             ELSE kept[i - 1] \cup {order[i]}
  IN  kept[Cardinality(S)]

(* List drops every expired record of the workspace, then filters.         *)
List(r) == {s \in Slots : s[1] = r.ws /\ Live(s) /\ Matches(records[s], r)}

(* With nothing to summarise the model is not called. *)
Summarises(c, r) ==
  op' = IF List(r) = {} THEN op
        ELSE [op EXCEPT ![c] = [Idle EXCEPT !.pc = "complete", !.req = r,
                                  !.sources = List(r), !.reps = dedupe(List(r))]]

(* SUMMARY.CREATE *)
Consolidate(c) ==
  /\ Calls(c, "Consolidate")
  /\ \E w \in Workspaces, a \in Agents, kd \in Kinds :
       /\ Drop(Expired({s \in Slots : s[1] = w}))
       /\ Summarises(c, [NoReq EXCEPT !.name = "Consolidate", !.ws = w, !.agent = a, !.kind = kd])
  /\ UNCHANGED clock

(* external: the language model answers with some text ... *)
Summarised(c) ==
  /\ op[c].pc = "complete"
  /\ \E x \in Contents :
       op' = [op EXCEPT ![c] = [Idle EXCEPT !.pc = "embed",
                !.req = [NoReq EXCEPT !.name = "Consolidate", !.ws = Req(c).ws, !.agent = Req(c).agent,
                                      !.kind = "long_term", !.content = x]]]
  /\ UNCHANGED <<records, history, index, clock, issued>>

(* ... or with an error. *)
CompletionFails(c) ==
  /\ op[c].pc = "complete"
  /\ op' = [op EXCEPT ![c] = Idle]
  /\ UNCHANGED <<records, history, index, clock, issued>>

-----------------------------------------------------------------------------
Tick ==
  /\ clock < MaxTime
  /\ clock' = clock + 1
  /\ UNCHANGED <<records, history, index, op, issued>>

(* No client need call anything. *)
Silent == (\A c \in Clients : op[c].pc = "idle") /\ UNCHANGED vars

Next ==
  \/ \E c \in Clients :
       \/ PutBegin(c) \/ Remember(c) \/ EmbedFails(c) \/ PutEmbedded(c) \/ PutStore(c)
       \/ Lookup(c)
       \/ SearchBegin(c) \/ Recall(c) \/ Rank(c) \/ Filter(c) \/ SearchReturns(c)
       \/ Consolidate(c) \/ Summarised(c) \/ CompletionFails(c)
  \/ Tick \/ Silent

Spec == Init /\ [][Next]_vars

-----------------------------------------------------------------------------
(* Properties. *)

(* Records, index and history are in step, whichever reader dropped an     *)
(* expired memory and however writers overtake each other: exactly the     *)
(* stored memories are indexed, by their current text, agent and kind; the *)
(* prior versions are the ones right before the current one, in order, as  *)
(* many as there were up to the cap, all of them with one creation time; a *)
(* slot without a record has none.                                         *)
RecordsInStep ==
  \A s \in Slots :
    LET n == Len(history[s])
    IN  IF records[s] = None THEN index[s] = None /\ n = 0 ELSE
        /\ index[s] = Indexed(records[s])
        /\ n = IF records[s].version - 1 > HistoryCap THEN HistoryCap ELSE records[s].version - 1
        /\ \A i \in 1..n : /\ history[s][i].version = records[s].version - n + i - 1
                           /\ history[s][i].createdAt = records[s].createdAt

(* A memory that has not expired is never lost: it stays, or is replaced   *)
(* by its next version.                                                    *)
LiveMemoryKept ==
  [][\A s \in Slots :
       Live(s) => records'[s] # None
                  /\ records'[s].version \in {records[s].version, records[s].version + 1}]_vars

(* The versions of a slot. *)
Lineage(s) == IF records[s] = None THEN <<>> ELSE Append(history[s], records[s])

(* The store implements lineages, although Put shifts the current version  *)
(* into the history, cuts that off at its cap and stores the next one,     *)
(* readers drop expired memories at any time, and a Put may meet one that  *)
(* no reader has dropped: MEMORY.HISTORY returns the very versions that    *)
(* were stored, in order and without a gap, and no Put, search or          *)
(* consolidation ends a lineage that is not over.                          *)
Lineages == INSTANCE LineageSpec WITH lineage <- [s \in Slots |-> Lineage(s)]

LineageContract == Lineages!Spec

ReturnsLive(c) ==
  op[c].pc = "filter" /\ op'[c].pc = "reply" =>
    LET out == op'[c].out
    IN  /\ Len(out) <= Req(c).k
        /\ \A i \in 1..Len(out) : Live(out[i].slot)
        /\ \A i, j \in 1..Len(out) : i < j => out[i].score >= out[j].score

(* A search returns only memories that are live when it returns, best      *)
(* score first and at most K of them, although it ranked an older index.   *)
SearchReturnsLive == [][\A c \in Clients : ReturnsLive(c)]_vars

LeavesMemories(c) ==
  "Consolidate" \in {Req(c).name, op'[c].req.name} /\ op'[c] # op[c] =>
    \A s \in Slots : Live(s) => records'[s] = records[s]

SaysEverything(c) ==
  op'[c].pc = "complete" /\ op[c].pc = "idle" =>
    LET o == op'[c]
    IN  /\ o.reps \subseteq o.sources
        /\ \A s \in o.sources : s \in o.reps \/ \E t \in o.reps : AlikeSlots(s, t) /\ Newer(t, s)
        /\ \A s, t \in o.reps : s # t => ~AlikeSlots(s, t)

(* Consolidation destroys nothing and says everything: none of its steps,  *)
(* the storing of the summary included, changes a memory that is live, the *)
(* duplicates it left out of the prompt among them; every memory it listed *)
(* is in the prompt or resembles one there that is at least as new; and no *)
(* two in the prompt resemble each other.                                  *)
ConsolidationSound == [][\A c \in Clients : LeavesMemories(c) /\ SaysEverything(c)]_vars
=============================================================================
