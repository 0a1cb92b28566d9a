------------------------------ MODULE MCCaches ------------------------------
(* Small instances of the caches for TLC.  The prompts hello and hallo     *)
(* resemble each other, blank is similar to nothing, itself included.      *)
(* A list of several entries fills, and an entry comes back to it, only    *)
(* after more hits than MaxOps calls can make: in half of the behaviours   *)
(* the tracker is on its own and hit by hit is recorded.                   *)
EXTENDS Caches, TLC

CONSTANTS c1, c2, hello, hallo, blank, gpt, mail, yes, MaxHits, HitCosts

VARIABLE alone   \* is only the tracker driven?

Numbered == {<<x, i>> : x \in Entries, i \in 1..MaxHits}

Hit ==
  /\ Cardinality({h \in Numbered : h[2] <= Len(hits[h[1]])}) < MaxHits
  /\ \E x \in Entries, cost \in HitCosts : RecordCacheHitSavings(x, cost)
  /\ UNCHANGED <<tool, prompt, semantic, op, clock, issued>>

MCInit == Init /\ alone \in BOOLEAN

MCNext ==
  /\ UNCHANGED alone
  /\ \/ ~alone /\ Next
     \/ alone /\ (Hit \/ Silent)

MCSpec == MCInit /\ [][MCNext]_<<vars, alone>>

Close == [p \in Prompts \X Prompts |->
            IF blank \in {p[1], p[2]} THEN NaN ELSE IF p[1] = p[2] THEN 9 ELSE 8]

AllEntries == ({"semantic"} \X Prompts) \cup ({"prompt"} \X Templates)

ClientSymmetry == Permutations(Clients)
=============================================================================
