------------------------------ MODULE WatchSpec ------------------------------
(***************************************************************************)
(* What WATCH/EXEC relies on in the engine (storage.Engine.WatchVersion):  *)
(* every key has a counter that never goes back and that has moved on      *)
(* whenever what a client can see of the key - its kind, its value, its    *)
(* expiry, or its absence - has changed.  Comparing two readings of the    *)
(* counter then tells whether the key was modified in between, deletion    *)
(* followed by recreation included.                                        *)
(***************************************************************************)
EXTENDS Naturals

CONSTANTS Keys, Absent

VARIABLES
  seen,      \* seen[k]: what a client can see of key k
  version    \* version[k]: the mutation counter of key k

Init ==
  /\ seen = [k \in Keys |-> Absent]
  /\ version = [k \in Keys |-> 0]

(* A step modifies some keys and counts every one of them.                 *)
Modify ==
  \A k \in Keys :
    \/ version'[k] > version[k]
    \/ version'[k] = version[k] /\ seen'[k] = seen[k]

Spec == Init /\ [][Modify]_<<seen, version>>
=============================================================================
