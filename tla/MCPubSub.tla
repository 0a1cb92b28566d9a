------------------------------ MODULE MCPubSub ------------------------------
(* Small instances of the broker for TLC. *)
EXTENDS PubSub, TLC

CONSTANTS c1, c2, news, any

MatchAll == {<<news, news>>, <<any, news>>}
ConnSymmetry == Permutations(Conns)
=============================================================================
