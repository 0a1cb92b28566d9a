----------------------------- MODULE MCMemStore -----------------------------
(* Small instances of the engine for TLC. *)
EXTENDS MemStore, TLC

CONSTANTS c1, c2, w1, w2, ka, kb, kd, ke

(* kb lives in shard 1, the other names in shard 0, in every workspace. *)
TwoShards == [k \in Keys |-> IF k[2] = kb THEN 1 ELSE 0]

(* Set as SET key value GET and SET key value XX call it, as SETNX does,   *)
(* and as plain SET.                                                       *)
GetAndXX == {[mode |-> "none", getOld |-> TRUE], [mode |-> "XX", getOld |-> FALSE]}
SetNX    == {[mode |-> "NX", getOld |-> FALSE]}
PlainSet == {[mode |-> "none", getOld |-> FALSE]}

MinusOne == {-1}

ClientSymmetry == Permutations(Clients)
=============================================================================
