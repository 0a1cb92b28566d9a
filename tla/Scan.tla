--------------------------------- MODULE Scan ---------------------------------
(***************************************************************************)
(* Walking the keyspace with SCAN (memstore Store.Scan, handlers_generic.go*)
(* handleScan).  Every call lists and sorts the keys anew and takes the    *)
(* cursor as a position in that list, while other clients add and remove   *)
(* keys between the calls, so a position may stand for another key each    *)
(* time.  Keys are integers, in the order sort.Strings puts them.          *)
(*                                                                         *)
(* One call is atomic here.  Within one call the shards are visited one by *)
(* one; that part is KeysComplete of module MemStore.                      *)
(***************************************************************************)
EXTENDS Containers

CONSTANTS
  ScanKeys,    \* the keys of one workspace
  Counts,      \* COUNT arguments clients give
  MaxChanges   \* bound: keys added and removed during one behaviour

ASSUME ScanAssumption ==
  /\ ScanKeys \subseteq Nat /\ IsFiniteSet(ScanKeys)
  /\ Counts \subseteq Int
  /\ MaxChanges \in Nat

VARIABLES
  live,      \* the keys that exist
  cursor,    \* the cursor the client sends next
  count,     \* the COUNT of this walk
  returned,  \* returned[k]: how often the walk has returned k so far
  walk,      \* "none", "going" or "over"
  steady,    \* history: keys that have been there since the walk began
  added,     \* history: some key was added during the walk
  deleted,   \* history: some key was deleted during the walk
  changes    \* keys added and removed so far

scanVars == <<live, cursor, count, returned, walk, steady, added, deleted, changes>>

Sorted(S) == sortedMembers([k \in S |-> 0])

ScanInit ==
  /\ live \in SUBSET ScanKeys
  /\ count \in Counts
  /\ cursor = 0
  /\ returned = [k \in ScanKeys |-> 0]
  /\ walk = "none"
  /\ steady = {} /\ added = FALSE /\ deleted = FALSE /\ changes = 0

(* The client calls SCAN, at first with cursor 0, until it gets back 0. *)
ScanCall ==
  /\ walk # "over"
  /\ LET r  == ScanPage(Sorted(live), cursor, count)
         in == {r.page[i] : i \in 1..Len(r.page)}
     IN  /\ returned' = [k \in ScanKeys |-> IF k \in in THEN returned[k] + 1 ELSE returned[k]]
         /\ cursor' = r.next
         /\ walk' = IF r.next = 0 THEN "over" ELSE "going"
  /\ steady' = IF walk = "none" THEN live ELSE steady
  /\ UNCHANGED <<live, count, added, deleted, changes>>

(* Another client creates a key ... *)
KeyAdded ==
  /\ walk = "going" /\ changes < MaxChanges
  /\ changes' = changes + 1
  /\ \E k \in ScanKeys \ live : live' = live \cup {k}
  /\ added' = TRUE
  /\ UNCHANGED <<cursor, count, returned, walk, steady, deleted>>

(* ... or deletes one. *)
KeyDeleted ==
  /\ walk = "going" /\ changes < MaxChanges
  /\ changes' = changes + 1
  /\ \E k \in live : live' = live \ {k} /\ steady' = steady \ {k}
  /\ deleted' = TRUE
  /\ UNCHANGED <<cursor, count, returned, walk, added>>

WalkOver == walk = "over" /\ UNCHANGED scanVars

ScanNext == ScanCall \/ KeyAdded \/ KeyDeleted \/ WalkOver

ScanSpec == ScanInit /\ [][ScanNext]_scanVars

-----------------------------------------------------------------------------
(* A walk during which keys are only added finds every key that was there  *)
(* from its beginning, for an insertion moves positions up and never down; *)
(* one during which they are only removed returns no key twice.            *)
ScanSteady ==
  /\ walk = "over" /\ ~deleted => \A k \in steady : returned[k] > 0
  /\ ~added => \A k \in ScanKeys : returned[k] <= 1
=============================================================================
