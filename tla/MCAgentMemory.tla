--------------------------- MODULE MCAgentMemory ---------------------------
(* Small instances of the agents' memory for TLC.  The texts this and that *)
(* resemble only themselves; the text blank has no direction, so that its  *)
(* similarity to anything is undefined.                                    *)
EXTENDS AgentMemory, TLC

CONSTANTS c1, c2, team, alice, bob, this, that, blank

Scores == [t \in Contents |-> CASE t = this -> 3 [] t = that -> 1 [] OTHER -> NaN]

Neighbours == {p \in Contents \X Contents : p[1] = p[2] /\ p[1] # blank}

ClientSymmetry == Permutations(Clients)
=============================================================================
