-------------------------------- MODULE Tracker --------------------------------
(***************************************************************************)
(* Money saved by cache hits (internal/analytics Tracker): the running     *)
(* total and the bounded list of the most expensive entries that were hit. *)
(* An entry is known by its cache and its prompt or template text.  The    *)
(* list is full after MaxTopEntries entries; a dearer entry then displaces *)
(* the cheapest.  Token usage, which is only added up, is left out.        *)
(***************************************************************************)
EXTENDS Integers, Sequences, FiniteSets

CONSTANTS
  Entries,        \* what can be hit: pairs <<cache type, text>>
  Costs,          \* costs that callers report
  MaxTopEntries

ASSUME TrackerAssumption == Costs \subseteq Int /\ MaxTopEntries \in Nat \ {0}

VARIABLES
  saved,   \* moneySavedTotalUSD
  top,     \* the list, in the order its entries came
  hits     \* history: hits[x], the costs of all hits on x that counted

trackerVars == <<saved, top, hits>>

TrackerInit ==
  /\ saved = 0
  /\ top = <<>>
  /\ hits = [x \in Entries |-> <<>>]

Listed == {top[i].entry : i \in 1..Len(top)}

(* The first of the cheapest entries. *)
minIdx ==
  CHOOSE i \in 1..Len(top) :
    /\ \A j \in 1..Len(top) : top[i].cost <= top[j].cost
    /\ \A j \in 1..(i - 1) : top[i].cost < top[j].cost

Fresh(x, cost) == [entry |-> x, cost |-> cost, hits |-> 1]

(* Fault: the newcomer goes in whatever it costs. *)
AlwaysDisplaces(x, cost) ==
  IF Len(top) < MaxTopEntries THEN Append(top, Fresh(x, cost))
  ELSE [top EXCEPT ![minIdx] = Fresh(x, cost)]

(* x is not listed: append it, or let it displace the cheapest. *)
WithNew(x, cost) ==
  IF Len(top) < MaxTopEntries THEN Append(top, Fresh(x, cost))
  ELSE IF cost > top[minIdx].cost THEN [top EXCEPT ![minIdx] = Fresh(x, cost)]
  ELSE top

(* x is listed: one hit more, at the highest cost seen. *)
WithHit(x, cost) ==
  [i \in 1..Len(top) |->
     IF top[i].entry # x THEN top[i]
     ELSE [entry |-> x, cost |-> IF cost > top[i].cost THEN cost ELSE top[i].cost,
           hits |-> top[i].hits + 1]]

RecordCacheHitSavings(x, cost) ==
  IF cost <= 0 THEN UNCHANGED trackerVars
  ELSE /\ saved' = saved + cost
       /\ top' = IF x \in Listed THEN WithHit(x, cost) ELSE WithNew(x, cost)
       /\ hits' = [hits EXCEPT ![x] = Append(@, cost)]

-----------------------------------------------------------------------------
(* Properties. *)

DearestHit(x) == CHOOSE c \in {hits[x][i] : i \in 1..Len(hits[x])} :
                   \A i \in 1..Len(hits[x]) : hits[x][i] <= c

(* The list is what it is for: it holds distinct entries, each with the    *)
(* highest cost it was ever hit at, and an entry that was hit and is not   *)
(* listed never cost more than any that is, however entries displaced each *)
(* other and came back.                                                    *)
TopHoldsDearest ==
  /\ Len(top) <= MaxTopEntries
  /\ Cardinality(Listed) = Len(top)
  /\ \A i \in 1..Len(top) : top[i].cost = DearestHit(top[i].entry)
  /\ \A x \in Entries \ Listed : hits[x] # <<>> =>
       /\ Len(top) = MaxTopEntries
       /\ \A i \in 1..Len(top) : DearestHit(x) <= top[i].cost
=============================================================================
