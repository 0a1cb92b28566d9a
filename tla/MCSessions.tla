----------------------------- MODULE MCSessions -----------------------------
(* Small instances of the connection layer for TLC. *)
EXTENDS Sessions, TLC

CONSTANTS c1, c2, kx, ky, home, team

(* Password 1 opens the workspace team; 2 opens nothing. *)
OneWorkspace == 1 :> team

Ctl(name) == Cmd(name, <<>>, 0, TRUE)
IncrX == Cmd("INCRBY", <<kx>>, 1, TRUE)
WatchXY == Cmd("WATCH", <<kx, ky>>, 0, TRUE)
MSetXY == Cmd("MSET", <<kx, ky>>, 1, TRUE)

(* Transactions over a counter and a pair of keys, with the errors, the    *)
(* watches and the logins that can come in between.  HELLO's option, which *)
(* changes nothing that matters on an open server, is sent to others only. *)
TxCmds ==
  {Ctl("MULTI"), Ctl("EXEC"), Ctl("DISCARD"), Ctl("UNWATCH"), Ctl("Read"), Ctl("QUIT"),
   Ctl("UNKNOWN"), Cmd("SET", <<kx>>, 1, FALSE), IncrX, WatchXY, MSetXY,
   Cmd("APPEND", <<ky>>, 9, TRUE), Cmd("AUTH", <<>>, 1, TRUE)}

AllCmds ==
  [m \in Modes |->
     IF m = "open" THEN TxCmds ELSE TxCmds \cup {Cmd("HELLO", <<>>, p, TRUE) : p \in {1, 2}}]

(* Watching only. *)
WatchCmds == [m \in Modes |-> {Ctl("MULTI"), Ctl("EXEC"), WatchXY, MSetXY}]

ConnSymmetry == Permutations(Conns)
=============================================================================
