------------------------------ MODULE LineageSpec ------------------------------
(***************************************************************************)
(* What the memory store promises of one memory (memory.Store, versioning):*)
(* a slot holds a lineage, its versions from the oldest that is kept to    *)
(* the current one.  A Put begins a lineage or adds the next version to    *)
(* it, with all earlier ones as they were but for the oldest beyond the    *)
(* cap; and a lineage ends only as a whole, when its current version has   *)
(* expired.                                                                *)
(***************************************************************************)
EXTENDS Integers, Sequences

CONSTANTS
  Slots,
  HistoryCap,   \* how many versions are kept before the current one
  NoTTL

VARIABLES
  lineage,   \* lineage[s]: the versions of slot s, the current one last
  clock

Current(l) == l[Len(l)]

Kept(l) == IF Len(l) > HistoryCap + 1 THEN SubSeq(l, Len(l) - HistoryCap, Len(l)) ELSE l

Init ==
  /\ lineage = [s \in Slots |-> <<>>]
  /\ clock = 0

(* v follows the versions of l. *)
Follows(l, v) ==
  IF l = <<>> THEN v.version = 1
  ELSE v.version = Current(l).version + 1 /\ v.createdAt = Current(l).createdAt

Put(s) ==
  /\ lineage'[s] # <<>>
  /\ Follows(lineage[s], Current(lineage'[s]))
  /\ lineage' = [lineage EXCEPT ![s] = Kept(Append(@, Current(lineage'[s])))]
  /\ UNCHANGED clock

Over(s) ==
  /\ lineage[s] # <<>>
  /\ Current(lineage[s]).expiresAt # NoTTL /\ Current(lineage[s]).expiresAt <= clock

Forget(S) ==
  /\ \A s \in S : Over(s)
  /\ lineage' = [s \in Slots |-> IF s \in S THEN <<>> ELSE lineage[s]]
  /\ UNCHANGED clock

Wait == clock' = clock + 1 /\ UNCHANGED lineage

Next ==
  \/ \E s \in Slots : Put(s)
  \/ \E S \in SUBSET Slots : Forget(S)
  \/ Wait

Spec == Init /\ [][Next]_<<lineage, clock>>
=============================================================================
