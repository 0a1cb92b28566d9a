----------------------------- MODULE ServerProofs -----------------------------
(***************************************************************************)
(* Proofs about the server's life, for any number of connections, any      *)
(* limit, any configurations and whatever clients send.  Connections may   *)
(* be infinitely many over time: that those in service are finitely many   *)
(* at any moment is part of what is proved.  Then the framing of commands, *)
(* from a grammar of what clients send.                                    *)
(***************************************************************************)
EXTENDS Server, Induction, SequenceTheorems, FiniteSetTheorems, TLAPS

Serving == {k \in Conns : conn[k] = "serving"}
Inside  == {k \in Conns : loop[k] \in {"loop", "closing"}}

ConnStates == {"new", "backlog", "accepted", "serving", "leaving", "ended", "rejected", "refused"}
LoopStates == {"none", "start", "loop", "closing", "returned"}

TypeInv ==
  /\ conn \in [Conns -> ConnStates]
  /\ loop \in [Conns -> LoopStates]
  /\ limit \in Nat
  /\ hand \in Conns \cup {Nobody}
  /\ main \in {"start", "accept", "slot", "drain", "mcp", "stopped", "failed"}
  /\ waiter \in {"none", "wait", "done"}
  /\ stopper \in {"wait", "close", "shutdown", "done"}
  /\ closing \in BOOLEAN /\ listening \in BOOLEAN /\ grace \in BOOLEAN

(* HandleConn runs, or has run, for exactly the connections that got a     *)
(* slot, and only while they hold it.                                      *)
LoopInv ==
  \A k \in Conns :
    /\ conn[k] \in {"serving", "leaving", "ended"} <=> loop[k] # "none"
    /\ conn[k] \in {"leaving", "ended"} => loop[k] = "returned"

(* The three counters count what they are meant to count. *)
CountInv ==
  /\ IsFiniteSet(Serving) /\ slots = Cardinality(Serving)
  /\ IsFiniteSet(Inside) /\ active = Cardinality(Inside)
  /\ IsFiniteSet(Served) /\ wg = Cardinality(Served)
  /\ slots <= limit

(* Where the accept loop and the shutdown are, and what that excludes. *)
LifeInv ==
  /\ main = "slot" <=> hand # Nobody
  /\ hand # Nobody => conn[hand] = "accepted"
  /\ main = "start" => Served = {} /\ engine = "none"
  /\ waiter # "none" => main \in {"drain", "mcp", "stopped"}
  /\ waiter = "done" => Served = {}
  /\ main \in {"mcp", "stopped"} /\ ~grace => Served = {}
  /\ main \in {"stopped", "failed"} => engine # "open"
  /\ stopper # "wait" => closing
  /\ ~listening => stopper \in {"shutdown", "done"}
  /\ errors = 0

Inv == TypeInv /\ LoopInv /\ CountInv /\ LifeInv

-----------------------------------------------------------------------------
LEMMA InitInv == Init => Inv
<1> SUFFICES ASSUME Init PROVE Inv
  OBVIOUS
<1>1. TypeInv
  BY ServerAssumption DEF Init, ConnInit, TypeInv, ConnStates, LoopStates
<1>2. Serving = {} /\ Inside = {} /\ Served = {}
  BY DEF Init, ConnInit, Serving, Inside, Served
<1>3. LoopInv
  BY DEF Init, ConnInit, LoopInv
<1>4. CountInv
  BY <1>2, FS_EmptySet DEF CountInv, Init, ConnInit
<1>5. LifeInv
  BY <1>2 DEF LifeInv, Init
<1> QED
  BY <1>1, <1>3, <1>4, <1>5 DEF Inv

-----------------------------------------------------------------------------
(* A step that moves no connection in or out of the counted sets.          *)
LEMMA SameSets ==
  ASSUME CountInv, Serving' = Serving, Inside' = Inside, Served' = Served,
         slots' = slots, active' = active, wg' = wg, limit' = limit
  PROVE  CountInv'
  BY DEF CountInv

(* Start-up: nothing is being served yet. *)
LEMMA StartUpInv ==
  ASSUME Inv, StartUp
  PROVE  Inv'
<1>1. PICK cfg \in Configs : StartFails(cfg) \/ Starts(cfg)
  BY DEF StartUp
<1>2. main = "start" /\ Served = {} /\ hand = Nobody /\ waiter = "none" /\ engine = "none"
  BY DEF StartUp, Inv, LifeInv, TypeInv
<1>3. /\ UNCHANGED <<conn, loop, slots, active, wg, hand, waiter, grace, errors>>
      /\ UNCHANGED <<signal, stopper, closing, listening>>
  BY <1>1 DEF StartFails, Starts, acceptVars, stopVars, drainVars, connVars
<1>4. limit' \in Nat /\ (limit' = limit \/ slots <= limit')
  <2>1. CASE StartFails(cfg)
    BY <2>1 DEF StartFails, Inv, TypeInv
  <2>2. CASE Starts(cfg)
    <3>1. limit' \in Nat
      BY <2>2, ServerAssumption DEF Starts
    <3>2. Serving = {}
      BY <1>2 DEF Serving, Served
    <3> QED
      BY <3>1, <3>2, FS_EmptySet DEF Inv, CountInv
  <2> QED
    BY <1>1, <2>1, <2>2
<1>5. main' \in {"failed", "accept"} /\ (main' = "failed" => engine' # "open")
  BY <1>1, <1>2 DEF StartFails, Starts
<1>6. Serving' = Serving /\ Inside' = Inside /\ Served' = Served
  BY <1>3 DEF Serving, Inside, Served
<1>7. TypeInv' /\ LoopInv'
  BY <1>3, <1>4, <1>5 DEF Inv, TypeInv, LoopInv
<1>8. CountInv'
  BY <1>3, <1>4, <1>6 DEF Inv, CountInv
<1>9. LifeInv'
  BY <1>2, <1>3, <1>5, <1>6 DEF Inv, LifeInv
<1> QED
  BY <1>7, <1>8, <1>9 DEF Inv

(* The client and the accept loop move connections that are not served.    *)
LEMMA AcceptLoopInv ==
  ASSUME Inv,
         \/ \E k \in Conns : Connect(k) \/ Accept(k)
         \/ AcceptFails \/ Reject \/ CloseListener
  PROVE  Inv'
<1>1. /\ UNCHANGED <<loop, slots, active, wg, limit, engine, grace>>
      /\ Serving' = Serving /\ Served' = Served /\ Inside' = Inside
  BY DEF Inv, TypeInv, LifeInv, Connect, Accept, AcceptFails, Reject, CloseListener, connVars,
         startVars, drainVars, Serving, Served, Inside
<1>2. TypeInv'
  <2>1. conn' \in [Conns -> ConnStates]
    BY DEF Inv, TypeInv, ConnStates, Connect, Accept, AcceptFails, Reject, CloseListener
  <2>2. hand' \in Conns \cup {Nobody}
    BY DEF Inv, TypeInv, Connect, Accept, AcceptFails, Reject, CloseListener
  <2> QED
    BY <1>1, <2>1, <2>2, ZenonT(40) DEF Inv, TypeInv, Connect, Accept, AcceptFails, Reject, CloseListener,
         stopVars, drainVars
<1>3. LoopInv'
  BY DEF Inv, TypeInv, LifeInv, LoopInv, Connect, Accept, AcceptFails, Reject, CloseListener, connVars
<1>4. CountInv'
  BY <1>1, SameSets DEF Inv
<1>5. LifeInv'
  <2>1. ASSUME NEW k \in Conns, Connect(k)  PROVE LifeInv'
    BY <1>1, <2>1 DEF Inv, TypeInv, LifeInv, Connect, connVars, startVars, stopVars, drainVars
  <2>2. ASSUME NEW k \in Conns, Accept(k)  PROVE LifeInv'
    BY <1>1, <2>2, ServerAssumption DEF Inv, TypeInv, LifeInv, Accept, connVars, startVars, stopVars, drainVars
  <2>3. CASE AcceptFails
    BY <1>1, <2>3 DEF Inv, TypeInv, LifeInv, AcceptFails, connVars, startVars, stopVars, drainVars
  <2>4. CASE Reject
    BY <1>1, <2>4 DEF Inv, TypeInv, LifeInv, Reject, connVars, startVars, stopVars, drainVars
  <2>5. CASE CloseListener
    BY <1>1, <2>5 DEF Inv, TypeInv, LifeInv, CloseListener, connVars, startVars, stopVars, drainVars
  <2> QED
    BY <2>1, <2>2, <2>3, <2>4, <2>5
<1> QED
  BY <1>2, <1>3, <1>4, <1>5 DEF Inv

(* A connection gets a slot. *)
LEMMA ServeInv ==
  ASSUME Inv, Serve
  PROVE  Inv'
<1>1. /\ hand \in Conns /\ conn[hand] = "accepted" /\ loop[hand] = "none" /\ waiter = "none"
      /\ slots < limit
  BY DEF Inv, TypeInv, LifeInv, LoopInv, Serve
<1>2. /\ Serving' = Serving \cup {hand} /\ hand \notin Serving
      /\ Served' = Served \cup {hand} /\ hand \notin Served
      /\ Inside' = Inside
  BY <1>1 DEF Inv, TypeInv, Serve, Serving, Served, Inside
<1>3. TypeInv' /\ LoopInv'
  BY <1>1 DEF Inv, TypeInv, LoopInv, ConnStates, LoopStates, Serve, startVars, stopVars, drainVars
<1>4. CountInv'
  <2>1. /\ IsFiniteSet(Serving') /\ Cardinality(Serving') = Cardinality(Serving) + 1
        /\ IsFiniteSet(Served') /\ Cardinality(Served') = Cardinality(Served) + 1
    BY <1>2, FS_AddElement DEF Inv, CountInv
  <2>2. Cardinality(Serving) \in Nat
    BY FS_CardinalityType DEF Inv, CountInv
  <2> QED
    BY <1>1, <1>2, <2>1, <2>2 DEF Inv, TypeInv, CountInv, Serve, startVars
<1>5. LifeInv'
  BY <1>1 DEF Inv, TypeInv, LifeInv, Serve, startVars, stopVars, drainVars
<1> QED
  BY <1>3, <1>4, <1>5 DEF Inv

(* HandleConn opens, returns, or only works. *)
LEMMA SessionInv ==
  ASSUME Inv, NEW k \in Conns, Session(k)
  PROVE  Inv'
<1>1. UNCHANGED <<main, conn, slots, wg, hand, errors, limit, engine, signal, stopper, closing,
                  listening, mcp, waiter, grace>>
  BY DEF Session, acceptVars, startVars, stopVars, drainVars
<1>2. Serving' = Serving /\ Served' = Served
  BY <1>1 DEF Serving, Served
<1>3. LifeInv'
  BY <1>1, <1>2 DEF Inv, LifeInv
<1>4. CASE Open(k)
  <2>1. conn[k] = "serving" /\ loop[k] = "start" /\ loop' = [loop EXCEPT ![k] = "loop"]
    BY <1>4 DEF Open, Inv, TypeInv, LoopInv, ConnStates
  <2>2. Inside' = Inside \cup {k} /\ k \notin Inside
    BY <2>1 DEF Inv, TypeInv, Inside
  <2>3. TypeInv' /\ LoopInv'
    BY <1>1, <2>1 DEF Inv, TypeInv, LoopInv, LoopStates
  <2>4. IsFiniteSet(Inside') /\ active' = Cardinality(Inside')
    BY <1>4, <2>2, FS_AddElement DEF Inv, CountInv, Open
  <2> QED
    BY <1>1, <1>2, <1>3, <2>3, <2>4 DEF Inv, CountInv
<1>5. CASE Return(k)
  <2>1. loop[k] = "closing" /\ loop' = [loop EXCEPT ![k] = "returned"]
    BY <1>5 DEF Return
  <2>2. Inside' = Inside \ {k} /\ k \in Inside
    BY <2>1 DEF Inv, TypeInv, Inside
  <2>3. TypeInv' /\ LoopInv'
    BY <1>1, <2>1 DEF Inv, TypeInv, LoopInv, LoopStates
  <2>4. IsFiniteSet(Inside') /\ active' = Cardinality(Inside')
    BY <1>5, <2>2, FS_RemoveElement DEF Inv, CountInv, Return
  <2> QED
    BY <1>1, <1>2, <1>3, <2>3, <2>4 DEF Inv, CountInv
<1>6. CASE /\ active' = active
           /\ loop' = loop \/ (loop[k] = "loop" /\ loop' = [loop EXCEPT ![k] = "closing"])
  <2>1. Inside' = Inside
    BY <1>6 DEF Inv, TypeInv, Inside
  <2>2. TypeInv' /\ LoopInv'
    BY <1>1, <1>6 DEF Inv, TypeInv, LoopInv, LoopStates
  <2>3. CountInv'
    BY <1>1, <1>2, <1>6, <2>1, SameSets DEF Inv
  <2> QED
    BY <1>3, <2>2, <2>3 DEF Inv
<1>7. \/ Open(k) \/ Return(k)
      \/ /\ active' = active
         /\ loop' = loop \/ (loop[k] = "loop" /\ loop' = [loop EXCEPT ![k] = "closing"])
  <2>1. CASE Fill(k) \/ ReadArrayHeader(k) \/ ReadBulk(k) \/ readInlineCommand(k) \/ Skip(k)
    BY <2>1 DEF Fill, ReadArrayHeader, ReadBulk, readInlineCommand, Skip
  <2>2. CASE ReadFails(k)
    BY <2>2 DEF ReadFails, Starting, InArray, NeedsMore
  <2>3. CASE HandleCommand(k)
    <3>1. loop[k] = "loop" /\ active' = active
      BY <2>3 DEF HandleCommand
    <3>2. loop' = [loop EXCEPT ![k] = "closing"] \/ loop' = [loop EXCEPT ![k] = loop[k]] \/ loop' = loop
      BY <2>3 DEF HandleCommand
    <3> QED
      BY <3>1, <3>2 DEF Inv, TypeInv
  <2> QED
    BY <2>1, <2>2, <2>3 DEF Session, HandleConn
<1> QED
  BY <1>4, <1>5, <1>6, <1>7

(* A connection frees its slot, and then tells the WaitGroup. *)
LEMMA LeaveInv ==
  ASSUME Inv, NEW k \in Conns, FreeSlot(k) \/ Done(k)
  PROVE  Inv'
<1>1. /\ UNCHANGED <<main, hand, errors, limit, engine, signal, stopper, closing, listening, mcp,
                     waiter, grace, loop, active>>
      /\ Inside' = Inside
  BY DEF FreeSlot, Done, startVars, stopVars, drainVars, connVars, Inside
<1>2. TypeInv' /\ LoopInv'
  BY <1>1 DEF Inv, TypeInv, LoopInv, ConnStates, FreeSlot, Done
<1>3. CASE FreeSlot(k)
  <2>1. /\ Serving' = Serving \ {k} /\ k \in Serving
        /\ Served' = Served
    BY <1>3 DEF Inv, TypeInv, FreeSlot, Serving, Served
  <2>2. IsFiniteSet(Serving') /\ Cardinality(Serving') = Cardinality(Serving) - 1
    BY <2>1, FS_RemoveElement DEF Inv, CountInv
  <2>3. CountInv'
    <3>1. Cardinality(Serving) \in Nat
      BY FS_CardinalityType DEF Inv, CountInv
    <3> QED
      BY <1>1, <1>3, <2>1, <2>2, <3>1 DEF Inv, TypeInv, CountInv, FreeSlot
  <2>4. LifeInv'
    BY <1>1, <1>3, <2>1 DEF Inv, TypeInv, LifeInv, FreeSlot
  <2> QED
    BY <1>2, <2>3, <2>4 DEF Inv
<1>4. CASE Done(k)
  <2>1. /\ Serving' = Serving
        /\ Served' = Served \ {k} /\ k \in Served
    BY <1>4 DEF Inv, TypeInv, Done, Serving, Served
  <2>2. IsFiniteSet(Served') /\ Cardinality(Served') = Cardinality(Served) - 1
    BY <2>1, FS_RemoveElement DEF Inv, CountInv
  <2>3. CountInv'
    BY <1>1, <1>4, <2>1, <2>2 DEF Inv, CountInv, Done
  <2>4. LifeInv'
    BY <1>1, <1>4, <2>1 DEF Inv, TypeInv, LifeInv, Done
  <2> QED
    BY <1>2, <2>3, <2>4 DEF Inv
<1> QED
  BY <1>3, <1>4

(* The shutdown moves no connection.  The waiter is done only when nobody  *)
(* is served any more, and by then nobody new can be.                      *)
LEMMA ShutdownInv ==
  ASSUME Inv,
         \/ Signal \/ MarkClosing \/ ShutdownMCP \/ WaiterDone \/ Drained \/ MCPFails \/ Stop
         \/ \E k \in Conns : Client(k)
  PROVE  Inv'
<1> USE DEF acceptVars, startVars, stopVars, drainVars, connVars
<1>1. /\ UNCHANGED <<conn, loop, slots, active, wg, hand, errors, limit>>
      /\ Serving' = Serving /\ Served' = Served /\ Inside' = Inside
  BY DEF Signal, MarkClosing, ShutdownMCP, WaiterDone, Drained, MCPFails, Stop, Client,
         ClientSends, ClientShuts, Serving, Served, Inside
<1>2. TypeInv'
  <2>1. closing' \in BOOLEAN /\ listening' \in BOOLEAN /\ grace' \in BOOLEAN
    BY Zenon DEF Inv, TypeInv, Signal, MarkClosing, ShutdownMCP, WaiterDone, Drained, MCPFails, Stop,
         Client
  <2>2. /\ main' \in {"start", "accept", "slot", "drain", "mcp", "stopped", "failed"}
        /\ waiter' \in {"none", "wait", "done"}
        /\ stopper' \in {"wait", "close", "shutdown", "done"}
    BY DEF Inv, TypeInv, Signal, MarkClosing, ShutdownMCP, WaiterDone, Drained, MCPFails, Stop, Client
  <2> QED
    BY <1>1, <2>1, <2>2 DEF Inv, TypeInv
<1>3. LoopInv'
  BY <1>1 DEF Inv, LoopInv
<1>4. CountInv'
  BY <1>1, SameSets DEF Inv
<1>5. LifeInv'
  <2>1. CASE WaiterDone
    <3>1. Served = {}
      BY <2>1, FS_EmptySet DEF WaiterDone, Inv, CountInv
    <3> QED
      BY <1>1, <2>1, <3>1 DEF Inv, LifeInv, WaiterDone
  <2>2. CASE Signal \/ MarkClosing \/ ShutdownMCP \/ MCPFails \/ \E k \in Conns : Client(k)
    BY <1>1, <2>2 DEF Inv, LifeInv, Signal, MarkClosing, ShutdownMCP, MCPFails, Client
  <2>3. CASE Drained \/ Stop
    BY <1>1, <2>3 DEF Inv, LifeInv, TypeInv, Drained, Stop
  <2> QED
    BY <2>1, <2>2, <2>3
<1> QED
  BY <1>2, <1>3, <1>4, <1>5 DEF Inv

LEMMA NextInv == Inv /\ [Next]_vars => Inv'
<1> SUFFICES ASSUME Inv, [Next]_vars PROVE Inv'
  OBVIOUS
<1>1. CASE UNCHANGED vars
  <2>1. UNCHANGED <<main, conn, slots, wg, hand, errors, limit, engine, stopper, closing, listening,
                    waiter, grace, loop, active>>
    BY <1>1 DEF vars, acceptVars, startVars, stopVars, drainVars, connVars
  <2>2. Serving' = Serving /\ Served' = Served /\ Inside' = Inside
    BY <2>1 DEF Serving, Served, Inside
  <2>3. CountInv'
    BY <2>1, <2>2, SameSets DEF Inv
  <2> QED
    BY <2>1, <2>2, <2>3 DEF Inv, TypeInv, LoopInv, LifeInv
<1>2. CASE Next
  BY <1>1, <1>2, StartUpInv, AcceptLoopInv, ServeInv, SessionInv, LeaveInv, ShutdownInv
     DEF Next, Waits
<1> QED
  BY <1>1, <1>2

-----------------------------------------------------------------------------
(* The inductive invariant: what HandleConn, the slots, the WaitGroup and  *)
(* the gauge say of a connection agree, and no connection can be added     *)
(* once somebody waits for the last to leave.                              *)
THEOREM Invariance == Spec => []Inv
  BY InitInv, NextInv, PTL DEF Spec

(* Server.run: slots are neither lost nor duplicated and the maximum       *)
(* holds, and the gauge counts the connections inside HandleConn.          *)
THEOREM SlotsCorrect == Spec => []SlotsExact
<1>1. Inv => SlotsExact
  <2> SUFFICES ASSUME Inv PROVE SlotsExact
    OBVIOUS
  <2>1. Inside \subseteq Serving
    BY DEF Inside, Serving, Inv, TypeInv, LoopInv
  <2>2. Cardinality(Inside) <= Cardinality(Serving)
    BY <2>1, FS_Subset DEF Inv, CountInv
  <2> QED
    BY <2>2 DEF Inv, CountInv, SlotsExact, Serving, Inside
<1> QED
  BY <1>1, Invariance, PTL

(* Server.run: when it returns before the grace period has elapsed, nobody *)
(* it accepted is still being served; it never leaves the engine open, and *)
(* never takes the closing of the listener for a failure.                  *)
THEOREM StopIsGraceful == Spec => []GracefulStop
<1>1. Inv => GracefulStop
  BY DEF Inv, LifeInv, GracefulStop
<1> QED
  BY <1>1, Invariance, PTL
-----------------------------------------------------------------------------
(* What clients send.  A piece is some input together with the commands it *)
(* stands for, and whether it is the last the server is to read.           *)

Units == [is : {"*", "$", "word", "nl"}, n : Int]
Args  == Seq(Units)

Piece(u, c, o) == [units |-> u, cmds |-> c, over |-> o]
Pieces(C) == [units : Seq(Units), cmds : Seq(C), over : BOOLEAN]

Nothing == Piece(<<>>, <<>>, FALSE)

(* x, and y after it; after the end of a connection, input means nothing.  *)
Then(x, y) ==
  Piece(x.units \o y.units,
        IF x.over = TRUE THEN x.cmds ELSE x.cmds \o y.cmds,
        IF x.over = TRUE THEN TRUE ELSE y.over)

(* g[i] is what is left of the pieces of R that g[0] consists of, after i. *)
Chain(g, n, R) ==
  /\ g[n] = Nothing
  /\ \A i \in 1..n : \E r \in R : g[i - 1] = Then(r, g[i])

(* All that consists of pieces of R, which stand for members of C.         *)
Streams(R, C) ==
  {x \in Pieces(C) : \E n \in Nat : \E g \in [0..n -> Pieces(C)] : g[0] = x /\ Chain(g, n, R)}

LEMMA PieceFields ==
  ASSUME NEW C, NEW u \in Seq(Units), NEW c \in Seq(C), NEW o \in BOOLEAN
  PROVE  /\ Piece(u, c, o) \in Pieces(C)
         /\ Piece(u, c, o).units = u /\ Piece(u, c, o).cmds = c /\ Piece(u, c, o).over = o
BY DEF Piece, Pieces

LEMMA PieceTypes ==
  ASSUME NEW C, NEW x \in Pieces(C)
  PROVE  /\ x.units \in Seq(Units) /\ x.cmds \in Seq(C) /\ x.over \in BOOLEAN
         /\ x = Piece(x.units, x.cmds, x.over)
BY DEF Piece, Pieces

LEMMA NothingType ==
  ASSUME NEW C
  PROVE  /\ Nothing \in Pieces(C)
         /\ Nothing.units = <<>> /\ Nothing.cmds = <<>> /\ Nothing.over = FALSE
BY PieceFields, EmptySeq DEF Nothing

LEMMA ThenFields ==
  ASSUME NEW C, NEW x \in Pieces(C), NEW y \in Pieces(C)
  PROVE  /\ Then(x, y) \in Pieces(C)
         /\ Then(x, y).units = x.units \o y.units
         /\ Then(x, y).cmds = IF x.over = TRUE THEN x.cmds ELSE x.cmds \o y.cmds
         /\ Then(x, y).over = IF x.over = TRUE THEN TRUE ELSE y.over
<1> DEFINE u == x.units \o y.units
           c == IF x.over = TRUE THEN x.cmds ELSE x.cmds \o y.cmds
           o == IF x.over = TRUE THEN TRUE ELSE y.over
<1>1. u \in Seq(Units) /\ x.cmds \o y.cmds \in Seq(C) /\ x.cmds \in Seq(C)
  BY PieceTypes, ConcatProperties
<1>2. y.over \in BOOLEAN
  BY PieceTypes
<1>3. o \in BOOLEAN /\ c \in Seq(C)
  BY <1>1, <1>2
<1>7. Then(x, y) = Piece(u, c, o)
  BY DEF Then
<1> SUFFICES /\ Then(x, y) \in Pieces(C)
             /\ Then(x, y).units = u /\ Then(x, y).cmds = c /\ Then(x, y).over = o
  OBVIOUS
<1> HIDE DEF u, c, o
<1> QED
  BY <1>1, <1>3, <1>7, PieceFields

LEMMA ThenType ==
  ASSUME NEW C, NEW x \in Pieces(C), NEW y \in Pieces(C) PROVE Then(x, y) \in Pieces(C)
BY ThenFields

LEMMA SamePiece ==
  ASSUME NEW C, NEW x \in Pieces(C), NEW y \in Pieces(C),
         x.units = y.units, x.cmds = y.cmds, x.over = y.over
  PROVE  x = y
BY PieceTypes

LEMMA ThenNothing ==
  ASSUME NEW C, NEW x \in Pieces(C) PROVE Then(x, Nothing) = x /\ Then(Nothing, x) = x
<1>1. /\ Nothing \in Pieces(C) /\ Nothing.units = <<>> /\ Nothing.cmds = <<>>
      /\ Nothing.over = FALSE
  BY NothingType
<1>2. /\ x.units \o <<>> = x.units /\ <<>> \o x.units = x.units
      /\ x.cmds \o <<>> = x.cmds /\ <<>> \o x.cmds = x.cmds
      /\ x.over \in BOOLEAN
  BY PieceTypes, ConcatEmptySeq
<1>3. Then(x, Nothing) = x
  <2> DEFINE t == Then(x, Nothing)
  <2> SUFFICES t = x
    OBVIOUS
  <2>0. Nothing \in Pieces(C)
    BY <1>1
  <2>1. /\ t \in Pieces(C) /\ t.units = x.units \o Nothing.units
        /\ t.cmds = IF x.over = TRUE THEN x.cmds ELSE x.cmds \o Nothing.cmds
        /\ t.over = IF x.over = TRUE THEN TRUE ELSE Nothing.over
    BY <2>0, ThenFields
  <2> HIDE DEF t
  <2>2. t.units = x.units /\ t.cmds = x.cmds
    BY <1>1, <1>2, <2>1
  <2>3. t.over = x.over
    BY <1>1, <1>2, <2>1
  <2> QED
    BY <2>1, <2>2, <2>3, SamePiece
<1>4. Then(Nothing, x) = x
  <2> DEFINE t == Then(Nothing, x)
  <2> SUFFICES t = x
    OBVIOUS
  <2>0. Nothing \in Pieces(C)
    BY <1>1
  <2>1. /\ t \in Pieces(C) /\ t.units = Nothing.units \o x.units
        /\ t.cmds = IF Nothing.over = TRUE THEN Nothing.cmds ELSE Nothing.cmds \o x.cmds
        /\ t.over = IF Nothing.over = TRUE THEN TRUE ELSE x.over
    BY <2>0, ThenFields
  <2> HIDE DEF t
  <2>2. t.units = x.units /\ t.cmds = x.cmds /\ t.over = x.over
    BY <1>1, <1>2, <2>1
  <2> QED
    BY <2>1, <2>2, SamePiece
<1> QED
  BY <1>3, <1>4

LEMMA ThenAssociative ==
  ASSUME NEW C, NEW x \in Pieces(C), NEW y \in Pieces(C), NEW z \in Pieces(C)
  PROVE  Then(Then(x, y), z) = Then(x, Then(y, z))
<1> DEFINE xy == Then(x, y)
           yz == Then(y, z)
           l == Then(xy, z)
           r == Then(x, yz)
<1> SUFFICES l = r
  OBVIOUS
<1>1. /\ xy \in Pieces(C)
      /\ xy.units = x.units \o y.units
      /\ xy.cmds = IF x.over = TRUE THEN x.cmds ELSE x.cmds \o y.cmds
      /\ xy.over = IF x.over = TRUE THEN TRUE ELSE y.over
  BY ThenFields
<1>2. /\ yz \in Pieces(C)
      /\ yz.units = y.units \o z.units
      /\ yz.cmds = IF y.over = TRUE THEN y.cmds ELSE y.cmds \o z.cmds
      /\ yz.over = IF y.over = TRUE THEN TRUE ELSE z.over
  BY ThenFields
<1> HIDE DEF xy, yz
<1>a. xy \in Pieces(C) /\ yz \in Pieces(C)
  BY <1>1, <1>2
<1>3. /\ l \in Pieces(C)
      /\ l.units = xy.units \o z.units
      /\ l.cmds = IF xy.over = TRUE THEN xy.cmds ELSE xy.cmds \o z.cmds
      /\ l.over = IF xy.over = TRUE THEN TRUE ELSE z.over
  BY <1>a, ThenFields
<1>4. /\ r \in Pieces(C)
      /\ r.units = x.units \o yz.units
      /\ r.cmds = IF x.over = TRUE THEN x.cmds ELSE x.cmds \o yz.cmds
      /\ r.over = IF x.over = TRUE THEN TRUE ELSE yz.over
  BY <1>a, ThenFields
<1> HIDE DEF l, r
<1>5. /\ (x.units \o y.units) \o z.units = x.units \o (y.units \o z.units)
      /\ (x.cmds \o y.cmds) \o z.cmds = x.cmds \o (y.cmds \o z.cmds)
  <2>1. /\ x.units \in Seq(Units) /\ y.units \in Seq(Units) /\ z.units \in Seq(Units)
        /\ x.cmds \in Seq(C) /\ y.cmds \in Seq(C) /\ z.cmds \in Seq(C)
    BY PieceTypes
  <2> DEFINE xu == x.units yu == y.units zu == z.units
             xc == x.cmds  yc == y.cmds  zc == z.cmds
  <2>2. xu \in Seq(Units) /\ yu \in Seq(Units) /\ zu \in Seq(Units)
    BY <2>1
  <2>3. xc \in Seq(C) /\ yc \in Seq(C) /\ zc \in Seq(C)
    BY <2>1
  <2> SUFFICES (xu \o yu) \o zu = xu \o (yu \o zu) /\ (xc \o yc) \o zc = xc \o (yc \o zc)
    OBVIOUS
  <2> HIDE DEF xu, yu, zu, xc, yc, zc
  <2>4. (xu \o yu) \o zu = xu \o (yu \o zu)
    BY <2>2, ConcatAssociative
  <2>5. (xc \o yc) \o zc = xc \o (yc \o zc)
    BY <2>3, ConcatAssociative
  <2> QED
    BY <2>4, <2>5
<1>6. l.units = r.units
  BY <1>1, <1>2, <1>3, <1>4, <1>5
<1>7. l.cmds = r.cmds /\ l.over = r.over
  <2>1. CASE x.over = TRUE
    BY <1>1, <1>3, <1>4, <2>1
  <2>2. CASE x.over # TRUE /\ y.over = TRUE
    BY <1>1, <1>2, <1>3, <1>4, <2>2
  <2>3. CASE x.over # TRUE /\ y.over # TRUE
    BY <1>1, <1>2, <1>3, <1>4, <1>5, <2>3
  <2> QED
    BY <2>1, <2>2, <2>3
<1> QED
  BY <1>3, <1>4, <1>6, <1>7, SamePiece

LEMMA StreamNothing ==
  ASSUME NEW R, NEW C PROVE Nothing \in Streams(R, C)
<1> DEFINE g == [i \in 0..0 |-> Nothing]
<1>0. Nothing \in Pieces(C)
  BY NothingType
<1>1. g \in [0..0 -> Pieces(C)] /\ g[0] = Nothing
  BY <1>0
<1> HIDE DEF g
<1>2. Chain(g, 0, R)
  BY <1>1 DEF Chain
<1>3. \E h \in [0..0 -> Pieces(C)] : h[0] = Nothing /\ Chain(h, 0, R)
  BY <1>1, <1>2, Zenon
<1>4. 0 \in Nat
  OBVIOUS
<1> QED
  BY <1>0, <1>3, <1>4, Zenon DEF Streams

(* A stream is empty or begins with a piece. *)
LEMMA StreamFront ==
  ASSUME NEW R, NEW C, NEW x \in Streams(R, C), x # Nothing
  PROVE  \E r \in R : \E y \in Streams(R, C) : x = Then(r, y)
<1>1. PICK n \in Nat : \E g \in [0..n -> Pieces(C)] : g[0] = x /\ Chain(g, n, R)
  BY DEF Streams
<1>2. PICK g \in [0..n -> Pieces(C)] : g[0] = x /\ Chain(g, n, R)
  BY <1>1
<1>3. n # 0
  BY <1>2 DEF Chain
<1>4. PICK r \in R : g[0] = Then(r, g[1])
  <2>1. 1 \in 1..n /\ 1 - 1 = 0
    BY <1>3
  <2> QED
    BY <1>2, <2>1 DEF Chain
<1> DEFINE h == [i \in 0..(n - 1) |-> g[i + 1]]
<1>5. h \in [0..(n - 1) -> Pieces(C)] /\ h[0] = g[1] /\ h[n - 1] = g[n]
  BY <1>3
<1>6. \A i \in 1..(n - 1) : h[i] = g[i + 1] /\ h[i - 1] = g[(i + 1) - 1] /\ i + 1 \in 1..n
  BY <1>3
<1> HIDE DEF h
<1>7. Chain(h, n - 1, R)
  BY <1>2, <1>5, <1>6 DEF Chain
<1>8. g[1] \in Pieces(C) /\ n - 1 \in Nat
  BY <1>3
<1>9. g[1] \in Streams(R, C)
  BY <1>5, <1>7, <1>8 DEF Streams
<1> QED
  BY <1>2, <1>4, <1>9

(* Two streams make one. *)
LEMMA StreamThen ==
  ASSUME NEW R, NEW C, R \subseteq Pieces(C), NEW x \in Streams(R, C), NEW y \in Streams(R, C)
  PROVE  Then(x, y) \in Streams(R, C)
<1>1. PICK n \in Nat : \E g \in [0..n -> Pieces(C)] : g[0] = x /\ Chain(g, n, R)
  BY DEF Streams
<1>2. PICK g \in [0..n -> Pieces(C)] : g[0] = x /\ Chain(g, n, R)
  BY <1>1
<1>3. PICK m \in Nat : \E h \in [0..m -> Pieces(C)] : h[0] = y /\ Chain(h, m, R)
  BY DEF Streams
<1>4. PICK h \in [0..m -> Pieces(C)] : h[0] = y /\ Chain(h, m, R)
  BY <1>3
<1>5. y \in Pieces(C) /\ x \in Pieces(C)
  BY DEF Streams
<1> DEFINE f == [i \in 0..(n + m) |-> IF i <= n THEN Then(g[i], y) ELSE h[i - n]]
<1>6. \A i \in 0..n : g[i] \in Pieces(C) /\ Then(g[i], y) \in Pieces(C)
  BY <1>5, ThenType
<1>7. f \in [0..(n + m) -> Pieces(C)]
  BY <1>6
<1>8. ASSUME NEW i \in 0..n PROVE f[i] = Then(g[i], y)
  OBVIOUS
<1>9. ASSUME NEW i \in 0..m PROVE f[n + i] = h[i] /\ n + i \in 0..(n + m)
  <2>1. CASE i = 0
    <3>1. f[n + i] = Then(g[n], y) /\ g[n] = Nothing
      BY <1>2, <2>1 DEF Chain
    <3>2. Then(Nothing, y) = y
      BY <1>5, ThenNothing
    <3> QED
      BY <1>4, <2>1, <3>1, <3>2
  <2>2. CASE i # 0
    BY <2>2
  <2> QED
    BY <2>1, <2>2
<1> HIDE DEF f
<1>10. ASSUME NEW i \in 1..(n + m) PROVE \E r \in R : f[i - 1] = Then(r, f[i])
  <2>1. CASE i <= n
    <3>1. i \in 1..n /\ i \in 0..n /\ i - 1 \in 0..n
      BY <2>1
    <3>2. PICK r \in R : g[i - 1] = Then(r, g[i])
      BY <1>2, <3>1 DEF Chain
    <3>3. f[i - 1] = Then(Then(r, g[i]), y) /\ f[i] = Then(g[i], y)
      BY <1>8, <3>1, <3>2
    <3>4. r \in Pieces(C) /\ g[i] \in Pieces(C)
      BY <1>6, <3>1
    <3>5. Then(Then(r, g[i]), y) = Then(r, Then(g[i], y))
      BY <1>5, <3>4, ThenAssociative
    <3> QED
      BY <3>3, <3>5
  <2>2. CASE i > n
    <3>1. i - n \in 1..m /\ i - n \in 0..m /\ (i - n) - 1 \in 0..m
          /\ n + (i - n) = i /\ n + ((i - n) - 1) = i - 1
      BY <2>2
    <3>2. PICK r \in R : h[(i - n) - 1] = Then(r, h[i - n])
      BY <1>4, <3>1 DEF Chain
    <3>3. f[i] = h[i - n] /\ f[i - 1] = h[(i - n) - 1]
      BY <1>9, <3>1
    <3> QED
      BY <3>2, <3>3
  <2> QED
    BY <2>1, <2>2
<1>11. f[n + m] = Nothing
  <2>1. m \in 0..m
    OBVIOUS
  <2> QED
    BY <1>4, <1>9, <2>1 DEF Chain
<1>12. Chain(f, n + m, R) /\ n + m \in Nat
  BY <1>10, <1>11 DEF Chain
<1>13. f[0] = Then(x, y) /\ Then(x, y) \in Pieces(C)
  <2>1. 0 \in 0..n
    OBVIOUS
  <2>2. f[0] = Then(x, y)
    BY <1>2, <1>8, <2>1
  <2> QED
    BY <1>5, <2>2, ThenType
<1>14. \E d \in [0..(n + m) -> Pieces(C)] : d[0] = Then(x, y) /\ Chain(d, n + m, R)
  BY <1>7, <1>12, <1>13, Zenon
<1> QED
  BY <1>12, <1>13, <1>14, Zenon DEF Streams

-----------------------------------------------------------------------------
(* Sequences and lines. *)

LEMMA CatItems ==
  ASSUME NEW S, NEW s \in Seq(S), NEW t \in Seq(S)
  PROVE  /\ s \o t \in Seq(S)
         /\ Len(s \o t) = Len(s) + Len(t) /\ Len(s) \in Nat /\ Len(t) \in Nat
         /\ \A i \in 1..Len(s) : (s \o t)[i] = s[i]
         /\ \A i \in 1..Len(t) : (s \o t)[Len(s) + i] = t[i]
<1>1. /\ s \o t \in Seq(S) /\ Len(s \o t) = Len(s) + Len(t)
      /\ \A i \in 1 .. Len(s) + Len(t) : (s \o t)[i] = IF i <= Len(s) THEN s[i] ELSE t[i - Len(s)]
  BY ConcatProperties
<1>2. Len(s) \in Nat /\ Len(t) \in Nat
  BY LenProperties
<1>3. ASSUME NEW i \in 1..Len(s) PROVE (s \o t)[i] = s[i]
  <2>1. i \in 1 .. Len(s) + Len(t) /\ i <= Len(s)
    BY <1>2
  <2> QED
    BY <1>1, <2>1
<1>4. ASSUME NEW i \in 1..Len(t) PROVE (s \o t)[Len(s) + i] = t[i]
  <2>1. Len(s) + i \in 1 .. Len(s) + Len(t) /\ ~(Len(s) + i <= Len(s)) /\ (Len(s) + i) - Len(s) = i
    BY <1>2
  <2> QED
    BY <1>1, <2>1
<1> QED
  BY <1>1, <1>2, <1>3, <1>4

LEMMA UnitsAssociative ==
  ASSUME NEW a \in Seq(Units), NEW b \in Seq(Units), NEW c \in Seq(Units)
  PROVE  (a \o b) \o c = a \o (b \o c)
BY ConcatAssociative

LEMMA ListsAssociative ==
  ASSUME NEW S, NEW a \in Seq(S), NEW b \in Seq(S), NEW c \in Seq(S)
  PROVE  (a \o b) \o c = a \o (b \o c)
BY ConcatAssociative

LEMMA TableIsList ==
  ASSUME NEW S, NEW n \in Nat, NEW c \in [1..n -> S]
  PROVE  c \in Seq(S) /\ Len(c) = n
OBVIOUS

(* The sequence s \o t is also a \o b, and s goes at least as far as a.    *)
CutAt(S, s, t, a, b) ==
  /\ From(s, Len(a) + 1) \in Seq(S) /\ From(s, Len(a) + 1) \o t = b
  /\ \A i \in 1..Len(a) : s[i] = a[i]

LEMMA Cut ==
  ASSUME NEW S, NEW s \in Seq(S), NEW t \in Seq(S), NEW a \in Seq(S), NEW b \in Seq(S),
         s \o t = a \o b, Len(a) <= Len(s)
  PROVE  CutAt(S, s, t, a, b)
<1>1. /\ Len(s) \in Nat /\ Len(t) \in Nat /\ Len(a) \in Nat /\ Len(b) \in Nat
      /\ Len(s) + Len(t) = Len(a) + Len(b)
  <2>1. Len(s \o t) = Len(s) + Len(t) /\ Len(s) \in Nat /\ Len(t) \in Nat
    BY CatItems
  <2>2. Len(a \o b) = Len(a) + Len(b) /\ Len(a) \in Nat /\ Len(b) \in Nat
    BY CatItems
  <2> QED
    BY <2>1, <2>2
<1>2. ASSUME NEW i \in 1..Len(a) PROVE s[i] = a[i]
  <2>1. i \in 1..Len(s)
    BY <1>1
  <2>2. (s \o t)[i] = s[i]
    BY <2>1, CatItems
  <2>3. (a \o b)[i] = a[i]
    BY CatItems
  <2> QED
    BY <2>2, <2>3
<1> DEFINE f == From(s, Len(a) + 1)
<1>3. /\ f \in Seq(S) /\ Len(f) = Len(s) - Len(a)
      /\ \A i \in 1..(Len(s) - Len(a)) : f[i] = s[Len(a) + i]
  <2>1. \A i \in (Len(a) + 1)..Len(s) : s[i] \in S
    BY <1>1, ElementOfSeq
  <2>2. Len(a) + 1 \in Int /\ Len(s) \in Int
    BY <1>1
  <2>3. /\ f \in Seq(S)
        /\ Len(f) = IF Len(a) + 1 <= Len(s) THEN Len(s) - (Len(a) + 1) + 1 ELSE 0
        /\ \A i \in 1 .. Len(s) - (Len(a) + 1) + 1 : f[i] = s[Len(a) + 1 + i - 1]
    BY <2>1, <2>2, SubSeqProperties DEF From
  <2> HIDE DEF f
  <2>4. Len(f) = Len(s) - Len(a)
    BY <1>1, <2>3
  <2>5. ASSUME NEW i \in 1..(Len(s) - Len(a)) PROVE f[i] = s[Len(a) + i]
    <3>1. i \in 1 .. Len(s) - (Len(a) + 1) + 1 /\ Len(a) + 1 + i - 1 = Len(a) + i
      BY <1>1
    <3> QED
      BY <2>3, <3>1
  <2> QED
    BY <2>3, <2>4, <2>5
<1> HIDE DEF f
<1>4. f \o t \in Seq(S) /\ Len(f \o t) = Len(b)
  <2>1. f \o t \in Seq(S) /\ Len(f \o t) = Len(f) + Len(t)
    BY <1>3, CatItems
  <2> QED
    BY <1>1, <1>3, <2>1
<1>5. ASSUME NEW i \in 1..Len(b) PROVE (f \o t)[i] = b[i]
  <2>1. (a \o b)[Len(a) + i] = b[i]
    BY CatItems
  <2>2. CASE i <= Len(f)
    <3>1. i \in 1..Len(f) /\ Len(a) + i \in 1..Len(s)
      BY <1>1, <1>3, <2>2
    <3>2. (f \o t)[i] = f[i]
      BY <1>3, <3>1, CatItems
    <3>3. (s \o t)[Len(a) + i] = s[Len(a) + i]
      BY <3>1, CatItems
    <3> QED
      BY <1>3, <2>1, <3>1, <3>2, <3>3
  <2>3. CASE ~(i <= Len(f))
    <3> DEFINE j == i - Len(f)
    <3>1. /\ j \in 1..Len(t) /\ Len(f) + j = i /\ Len(s) + j = Len(a) + i
      BY <1>1, <1>3, <2>3
    <3> HIDE DEF j
    <3>2. (f \o t)[Len(f) + j] = t[j]
      BY <1>3, <3>1, CatItems
    <3>3. (s \o t)[Len(s) + j] = t[j]
      BY <3>1, CatItems, SMTT(30)
    <3> QED
      BY <2>1, <3>1, <3>2, <3>3
  <2> QED
    BY <2>2, <2>3
<1>6. f \o t = b
  <2> DEFINE g == f \o t
  <2>1. g \in Seq(S) /\ Len(g) = Len(b) /\ \A i \in 1..Len(b) : g[i] = b[i]
    BY <1>4, <1>5
  <2> SUFFICES g = b
    OBVIOUS
  <2> HIDE DEF g
  <2> QED
    BY <2>1, SeqEqual
<1> QED
  BY <1>2, <1>3, <1>6 DEF CutAt, f

(* The first line of s ends at e. *)
EndsAt(s, e) == e \in 1..Len(s) /\ s[e] = NL /\ \A i \in 1..(e - 1) : s[i] # NL

LEMMA LineEnds ==
  ASSUME NEW s \in Seq(Units), readLine(s) # 0
  PROVE  EndsAt(s, readLine(s)) /\ readLine(s) \in Nat
<1> DEFINE ends == {p \in 1..Len(s) : s[p] = NL}
           first(p) == \A q \in ends : p <= q
<1>1. Len(s) \in Nat
  BY LenProperties
<1>2. ends # {} /\ readLine(s) = CHOOSE p \in ends : first(p)
  BY DEF readLine
<1>3. ends \subseteq Nat
  BY <1>1
<1>4. \E p \in ends : first(p)
  <2> HIDE DEF ends
  <2> QED
    BY <1>2, <1>3, LeastMember
<1>5. readLine(s) \in ends /\ first(readLine(s))
  <2> HIDE DEF ends, first
  <2> QED
    BY <1>2, <1>4
<1> DEFINE e == readLine(s)
<1>6. e \in 1..Len(s) /\ s[e] = NL
  BY <1>5
<1>7. ASSUME NEW i \in 1..(e - 1) PROVE s[i] # NL
  <2> SUFFICES ASSUME s[i] = NL PROVE FALSE
    OBVIOUS
  <2>1. i \in 1..Len(s) /\ i < e
    BY <1>1, <1>6
  <2>2. i \in ends
    BY <2>1
  <2>3. e <= i
    BY <1>5, <2>2
  <2> QED
    BY <1>1, <1>6, <2>1, <2>3
<1>8. e \in Nat
  BY <1>1, <1>6
<1> HIDE DEF e
<1>9. EndsAt(s, e)
  BY <1>6, <1>7 DEF EndsAt
<1> QED
  BY <1>8, <1>9 DEF e

LEMMA LineFound ==
  ASSUME NEW s \in Seq(Units), NEW e, EndsAt(s, e)
  PROVE  readLine(s) = e
<1>1. Len(s) \in Nat
  BY LenProperties
<1>2. e \in 1..Len(s) /\ s[e] = NL /\ \A i \in 1..(e - 1) : s[i] # NL
  BY DEF EndsAt
<1>3. readLine(s) # 0
  <2> DEFINE ends == {p \in 1..Len(s) : s[p] = NL}
             first(p) == \A q \in ends : p <= q
  <2>1. e \in ends
    BY <1>2
  <2>2. readLine(s) = CHOOSE p \in ends : first(p)
    BY <2>1 DEF readLine
  <2>3. ends \subseteq Nat /\ 0 \notin ends
    BY <1>1
  <2>4. \E p \in ends : first(p)
    <3> HIDE DEF ends
    <3> QED
      BY <2>1, <2>3, LeastMember
  <2>5. readLine(s) \in ends
    <3> HIDE DEF ends, first
    <3> QED
      BY <2>2, <2>4
  <2> QED
    BY <2>3, <2>5
<1> DEFINE d == readLine(s)
<1>4. d \in 1..Len(s) /\ s[d] = NL /\ \A i \in 1..(d - 1) : s[i] # NL
  BY <1>3, LineEnds DEF EndsAt
<1> SUFFICES d = e
  OBVIOUS
<1> HIDE DEF d
<1>5. ~(d < e)
  <2> SUFFICES ASSUME d < e PROVE FALSE
    OBVIOUS
  <2>1. d \in 1..(e - 1)
    BY <1>1, <1>2, <1>4
  <2> QED
    BY <1>2, <1>4, <2>1
<1>6. ~(e < d)
  <2> SUFFICES ASSUME e < d PROVE FALSE
    OBVIOUS
  <2>1. e \in 1..(d - 1)
    BY <1>1, <1>2, <1>4
  <2> QED
    BY <1>2, <1>4, <2>1
<1> QED
  BY <1>1, <1>2, <1>4, <1>5, <1>6

(* What follows a line does not change where it ends. *)
LEMMA LineBefore ==
  ASSUME NEW s \in Seq(Units), NEW t \in Seq(Units), readLine(s) # 0
  PROVE  /\ readLine(s \o t) = readLine(s) /\ readLine(s) \in 1..Len(s)
         /\ \A i \in 1..readLine(s) : (s \o t)[i] = s[i]
<1> DEFINE e == readLine(s)
<1>1. EndsAt(s, e) /\ e \in Nat
  BY LineEnds
<1>2. /\ s \o t \in Seq(Units) /\ Len(s \o t) = Len(s) + Len(t) /\ Len(s) \in Nat /\ Len(t) \in Nat
      /\ \A i \in 1..Len(s) : (s \o t)[i] = s[i]
  BY CatItems
<1> SUFFICES /\ readLine(s \o t) = e /\ e \in 1..Len(s)
             /\ \A i \in 1..e : (s \o t)[i] = s[i]
  OBVIOUS
<1> HIDE DEF e
<1>3. e \in 1..Len(s) /\ s[e] = NL /\ \A i \in 1..(e - 1) : s[i] # NL
  BY <1>1 DEF EndsAt
<1>4. \A i \in 1..e : (s \o t)[i] = s[i] /\ i \in 1..Len(s \o t)
  BY <1>2, <1>3
<1>5. e \in 1..e /\ \A i \in 1..(e - 1) : i \in 1..e
  BY <1>3
<1>6. EndsAt(s \o t, e)
  BY <1>3, <1>4, <1>5 DEF EndsAt
<1>7. readLine(s \o t) = e
  BY <1>2, <1>6, LineFound
<1> QED
  BY <1>3, <1>4, <1>7

-----------------------------------------------------------------------------
(* The language clients speak. *)

CommandLists == Seq(Args)

(* One line, its end included. *)
Lines == {l \in Args : readLine(l) # 0 /\ readLine(l) = Len(l)}

IsQuit(c) == IF c[1] = <<QUIT>> THEN TRUE ELSE FALSE

(* An element of an array: the null bulk string, or a payload of the       *)
(* length its header gives and the line end after it.                      *)
Elements ==
  {x \in Pieces(Args) :
     /\ x.over = FALSE
     /\ \/ /\ x.cmds = <<<<>>>>
           /\ \E m \in Int : m < 0 /\ m # NotANumber /\ x.units = <<Dollar(m), NL>>
        \/ \E p \in Args : \E u \in Units :
             x.cmds = <<p>> /\ x.units = <<Dollar(Len(p)), NL>> \o (p \o <<u>>)}

Bodies == Streams(Elements, Args)

(* A blank line or an empty array; words on a line; a line that begins     *)
(* like an array and is none; an array; an array with an element that is   *)
(* no bulk string.                                                         *)
IsBlank(x) ==
  /\ x.units \in Lines /\ x.cmds = <<>> /\ x.over = FALSE
  /\ Len(x.units) = 1 \/ (IsHeader(x.units, "*") /\ x.units[1].n <= 0)

IsInline(x) ==
  /\ x.units \in Lines /\ Len(x.units) > 1 /\ x.units[1].is # "*"
  /\ LET c == [i \in 1..(Len(x.units) - 1) |-> <<x.units[i]>>]
     IN  x.cmds = <<c>> /\ x.over = IsQuit(c)

IsBadLine(x) ==
  /\ x.units \in Lines /\ x.units[1].is = "*" /\ ~IsHeader(x.units, "*")
  /\ x.cmds = <<>> /\ x.over = TRUE

IsArray(x) ==
  \E b \in Bodies :
    /\ Len(b.cmds) > 0
    /\ x.units = <<Star(Len(b.cmds)), NL>> \o b.units
    /\ x.cmds = <<b.cmds>> /\ x.over = IsQuit(b.cmds)

IsBadArray(x) ==
  \E b \in Bodies : \E n \in Int : \E l \in Lines :
    /\ n > Len(b.cmds) /\ ~IsHeader(l, "$")
    /\ x.units = <<Star(n), NL>> \o (b.units \o l)
    /\ x.cmds = <<>> /\ x.over = TRUE

Requests ==
  {x \in Pieces(CommandLists) :
     IsBlank(x) \/ IsInline(x) \/ IsBadLine(x) \/ IsArray(x) \/ IsBadArray(x)}

Input == Streams(Requests, CommandLists)

(* What the frames of clients are: bursts of requests, with the commands   *)
(* they stand for.                                                         *)
Conforming == \A f \in Frames : Piece(f.units, f.means, f.ends) \in Input

-----------------------------------------------------------------------------
(* The connection's invariant, about the input that is not consumed yet,   *)
(* the command ReadCommand is at, what the client meant and what was run.  *)

Means(me, ran, p) == me.cmds = ran \o p.cmds /\ me.over = p.over

(* Between two commands. *)
Between(todo, cm, me, ran, st) == cm = None /\ todo = st.units /\ Means(me, ran, st)

(* In a command, with the elements b still to come. *)
Within(todo, cm, me, ran, b, st) ==
  LET c == cm.args \o b.cmds
  IN  /\ cm.left = Len(b.cmds) /\ c # <<>>
      /\ todo = b.units \o st.units
      /\ Means(me, ran, Then(Piece(<<>>, <<c>>, IsQuit(c)), st))

(* In an array that will turn out to be broken, at the line l. *)
Doomed(todo, cm, me, ran, b, l, st) ==
  /\ cm.left > Len(b.cmds) /\ ~IsHeader(l, "$")
  /\ todo = b.units \o (l \o st.units)
  /\ Means(me, ran, Piece(<<>>, <<>>, TRUE))

Framed(todo, cm, me, ran) ==
  \E st \in Input :
    \/ Between(todo, cm, me, ran, st)
    \/ \E b \in Bodies : Within(todo, cm, me, ran, b, st)
    \/ \E b \in Bodies : \E l \in Lines : Doomed(todo, cm, me, ran, b, l, st)

-----------------------------------------------------------------------------
LEMMA UnitTypes ==
  /\ NL \in Units /\ QUIT \in Units /\ NL.is = "nl"
  /\ \A n \in Int : Star(n) \in Units /\ Dollar(n) \in Units
  /\ \A n \in Int : Star(n).is = "*" /\ Star(n).n = n /\ Dollar(n).is = "$" /\ Dollar(n).n = n
  /\ \A n \in Int : Star(n) # NL /\ Dollar(n) # NL
<1>1. NL \in Units /\ QUIT \in Units /\ NL.is = "nl"
  BY DEF NL, QUIT, Word, Units
<1>2. ASSUME NEW n \in Int
      PROVE  /\ Star(n) \in Units /\ Dollar(n) \in Units
             /\ Star(n).is = "*" /\ Star(n).n = n /\ Dollar(n).is = "$" /\ Dollar(n).n = n
  BY DEF Star, Dollar, Units
<1>3. "*" # "nl" /\ "$" # "nl"
  OBVIOUS
<1>4. ASSUME NEW n \in Int PROVE Star(n) # NL /\ Dollar(n) # NL
  BY <1>1, <1>2, <1>3
<1> QED
  BY <1>1, <1>2, <1>4

LEMMA StreamTypes ==
  ASSUME NEW R, NEW C, NEW x \in Streams(R, C)
  PROVE  /\ x \in Pieces(C)
         /\ x.units \in Seq(Units) /\ x.cmds \in Seq(C) /\ x.over \in BOOLEAN
BY PieceTypes DEF Streams

LEMMA LineTypes ==
  ASSUME NEW l \in Lines
  PROVE  l \in Seq(Units) /\ readLine(l) # 0 /\ readLine(l) = Len(l) /\ Len(l) \in Nat
BY LenProperties DEF Lines, Args

(* A header is a line of two units. *)
LEMMA HeaderLine ==
  ASSUME NEW u \in Units, u # NL, NEW t \in Seq(Units)
  PROVE  /\ <<u, NL>> \in Seq(Units) /\ Len(<<u, NL>>) = 2
         /\ <<u, NL>> \o t \in Seq(Units) /\ (<<u, NL>> \o t)[1] = u
         /\ readLine(<<u, NL>>) = 2 /\ readLine(<<u, NL>> \o t) = 2
<1> DEFINE h == <<u, NL>>
<1>1. h \in Seq(Units) /\ Len(h) = 2 /\ h[1] = u /\ h[2] = NL
  BY UnitTypes
<1> SUFFICES /\ h \in Seq(Units) /\ Len(h) = 2 /\ h \o t \in Seq(Units) /\ (h \o t)[1] = u
             /\ readLine(h) = 2 /\ readLine(h \o t) = 2
  OBVIOUS
<1> HIDE DEF h
<1>2. EndsAt(h, 2)
  <2>1. \A i \in 1..(2 - 1) : i = 1
    OBVIOUS
  <2> QED
    BY <1>1, <2>1 DEF EndsAt
<1>3. readLine(h) = 2
  BY <1>1, <1>2, LineFound
<1>4. readLine(h \o t) = 2
  BY <1>1, <1>3, LineBefore
<1>5. h \o t \in Seq(Units) /\ (h \o t)[1] = h[1]
  <2>1. 1 \in 1..Len(h)
    BY <1>1
  <2> QED
    BY <1>1, <2>1, CatItems
<1> QED
  BY <1>1, <1>3, <1>4, <1>5

(* Every request holds a line. *)
LEMMA RequestLine ==
  ASSUME NEW r \in Requests
  PROVE  r \in Pieces(CommandLists) /\ r.units \in Seq(Units) /\ readLine(r.units) # 0
<1>1. r \in Pieces(CommandLists) /\ r.units \in Seq(Units)
  BY PieceTypes DEF Requests
<1>2. CASE IsBlank(r) \/ IsInline(r) \/ IsBadLine(r)
  BY <1>1, <1>2 DEF IsBlank, IsInline, IsBadLine, Lines
<1>3. CASE IsArray(r)
  <2>1. PICK b \in Bodies : r.units = <<Star(Len(b.cmds)), NL>> \o b.units
    BY <1>3 DEF IsArray
  <2>2. b.units \in Seq(Units) /\ Len(b.cmds) \in Int
    BY StreamTypes, LenProperties DEF Bodies
  <2>3. Star(Len(b.cmds)) \in Units /\ Star(Len(b.cmds)) # NL
    BY <2>2, UnitTypes
  <2>4. readLine(<<Star(Len(b.cmds)), NL>> \o b.units) = 2
    BY <2>2, <2>3, HeaderLine
  <2> QED
    BY <1>1, <2>1, <2>4
<1>4. CASE IsBadArray(r)
  <2>1. PICK b \in Bodies, n \in Int, l \in Lines : r.units = <<Star(n), NL>> \o (b.units \o l)
    BY <1>4 DEF IsBadArray
  <2>2. b.units \in Seq(Units) /\ l \in Seq(Units)
    BY StreamTypes, LineTypes DEF Bodies
  <2>3. b.units \o l \in Seq(Units)
    BY <2>2, CatItems
  <2>4. Star(n) \in Units /\ Star(n) # NL
    BY UnitTypes
  <2>5. readLine(<<Star(n), NL>> \o (b.units \o l)) = 2
    BY <2>3, <2>4, HeaderLine
  <2> QED
    BY <1>1, <2>1, <2>5
<1> QED
  BY <1>1, <1>2, <1>3, <1>4 DEF Requests

(* Input with a whole line in it begins with a request of the same first   *)
(* line.                                                                   *)
LEMMA FirstRequest ==
  ASSUME NEW st \in Input, NEW s \in Seq(Units), NEW t \in Seq(Units),
         s \o t = st.units, readLine(s) # 0
  PROVE  \E r \in Requests : \E y \in Input :
           /\ st = Then(r, y) /\ s \o t = r.units \o y.units
           /\ readLine(r.units) = readLine(s)
           /\ \A i \in 1..readLine(s) : r.units[i] = s[i]
<1>1. /\ readLine(s \o t) = readLine(s) /\ readLine(s) \in 1..Len(s)
      /\ \A i \in 1..readLine(s) : (s \o t)[i] = s[i]
  BY LineBefore
<1>2. st # Nothing
  <2> SUFFICES ASSUME st = Nothing PROVE FALSE
    OBVIOUS
  <2>1. s \o t = <<>>
    BY NothingType
  <2>2. Len(s \o t) = Len(s) + Len(t) /\ Len(s) \in Nat /\ Len(t) \in Nat
    BY CatItems
  <2>3. Len(s \o t) = 0
    BY <2>1
  <2>4. Len(s) = 0
    BY <2>2, <2>3
  <2> QED
    BY <1>1, <2>4
<1>3. PICK r \in Requests : \E y \in Input : st = Then(r, y)
  BY <1>2, StreamFront DEF Input
<1>4. PICK y \in Input : st = Then(r, y)
  BY <1>3
<1>5. r \in Pieces(CommandLists) /\ r.units \in Seq(Units) /\ readLine(r.units) # 0
  BY RequestLine
<1>6. y \in Pieces(CommandLists) /\ y.units \in Seq(Units)
  BY StreamTypes DEF Input
<1>7. s \o t = r.units \o y.units
  BY <1>4, <1>5, <1>6, ThenFields
<1> DEFINE u == r.units
           v == y.units
<1>8. u \in Seq(Units) /\ v \in Seq(Units) /\ readLine(u) # 0 /\ s \o t = u \o v
  BY <1>5, <1>6, <1>7
<1> SUFFICES readLine(u) = readLine(s) /\ \A i \in 1..readLine(s) : u[i] = s[i]
  BY <1>4, <1>7
<1> HIDE DEF u, v
<1>9. readLine(u \o v) = readLine(u) /\ \A i \in 1..readLine(u) : (u \o v)[i] = u[i]
  BY <1>8, LineBefore
<1> QED
  BY <1>1, <1>8, <1>9

-----------------------------------------------------------------------------
(* More input arrives. *)

LEMMA RequestsArePieces == Requests \subseteq Pieces(CommandLists)
BY DEF Requests

Meanings == [cmds : Seq(CommandLists), over : BOOLEAN]

(* What is meant, once the piece q is sent too. *)
With(me, q) ==
  IF me.over = TRUE THEN me ELSE [cmds |-> me.cmds \o q.cmds, over |-> q.over]

LEMMA MeansMore ==
  ASSUME NEW me \in Meanings, NEW ran \in Seq(CommandLists),
         NEW p \in Pieces(CommandLists), NEW q \in Pieces(CommandLists), Means(me, ran, p)
  PROVE  Means(With(me, q), ran, Then(p, q))
<1> DEFINE t == Then(p, q)
           w == With(me, q)
           pc == p.cmds
           qc == q.cmds
<1>1. /\ t.cmds = IF p.over = TRUE THEN pc ELSE pc \o qc
      /\ t.over = IF p.over = TRUE THEN TRUE ELSE q.over
  BY ThenFields
<1>2. me.cmds = ran \o pc /\ me.over = p.over
  BY DEF Means
<1>3. pc \in Seq(CommandLists) /\ qc \in Seq(CommandLists)
  BY PieceTypes
<1> SUFFICES Means(w, ran, t)
  OBVIOUS
<1>4. CASE me.over = TRUE
  <2>1. w = me
    BY <1>4 DEF With
  <2> HIDE DEF t, w, pc, qc
  <2> QED
    BY <1>1, <1>2, <1>4, <2>1 DEF Means
<1>5. CASE me.over # TRUE
  <2>1. w.cmds = me.cmds \o qc /\ w.over = q.over
    BY <1>5 DEF With
  <2> HIDE DEF t, w, pc, qc
  <2>2. (ran \o pc) \o qc = ran \o (pc \o qc)
    BY <1>3, ConcatAssociative
  <2>3. t.cmds = pc \o qc /\ t.over = q.over
    BY <1>1, <1>2, <1>5
  <2> QED
    BY <1>2, <2>1, <2>2, <2>3 DEF Means
<1> QED
  BY <1>4, <1>5

(* The command that is at its end, as a piece. *)
LEMMA WholeType ==
  ASSUME NEW c \in CommandLists
  PROVE  /\ Piece(<<>>, <<c>>, IsQuit(c)) \in Pieces(CommandLists)
         /\ Piece(<<>>, <<c>>, IsQuit(c)).cmds = <<c>>
         /\ Piece(<<>>, <<c>>, IsQuit(c)).over = IsQuit(c)
         /\ IsQuit(c) \in BOOLEAN
<1>1. <<c>> \in Seq(CommandLists) /\ <<>> \in Seq(Units)
  OBVIOUS
<1>2. IsQuit(c) \in BOOLEAN
  BY DEF IsQuit
<1> DEFINE d == <<c>>
           o == IsQuit(c)
           p == Piece(<<>>, d, o)
<1> SUFFICES p \in Pieces(CommandLists) /\ p.cmds = d /\ p.over = o
  BY <1>2
<1>3. d \in Seq(CommandLists) /\ o \in BOOLEAN
  BY <1>1, <1>2
<1> HIDE DEF d, o
<1> QED
  BY <1>1, <1>3 DEF Piece, Pieces

LEMMA BrokenType ==
  /\ Piece(<<>>, <<>>, TRUE) \in Pieces(CommandLists)
  /\ Piece(<<>>, <<>>, TRUE).cmds = <<>> /\ Piece(<<>>, <<>>, TRUE).over = TRUE
BY PieceFields, EmptySeq

LEMMA FramedMore ==
  ASSUME NEW todo \in Seq(Units), NEW cm, cm.args \in Seq(Args), NEW me \in Meanings,
         NEW ran \in Seq(CommandLists), Framed(todo, cm, me, ran), NEW q \in Input
  PROVE  Framed(todo \o q.units, cm, With(me, q), ran)
<1> DEFINE qu == q.units
           w == With(me, q)
<1>1. q \in Pieces(CommandLists) /\ qu \in Seq(Units)
  BY StreamTypes DEF Input
<1>2. PICK st \in Input :
        \/ Between(todo, cm, me, ran, st)
        \/ \E b \in Bodies : Within(todo, cm, me, ran, b, st)
        \/ \E b \in Bodies : \E l \in Lines : Doomed(todo, cm, me, ran, b, l, st)
  BY DEF Framed
<1> DEFINE su == st.units
           both == Then(st, q)
<1>3. st \in Pieces(CommandLists) /\ su \in Seq(Units)
  BY StreamTypes DEF Input
<1>4. both \in Input
  BY RequestsArePieces, StreamThen DEF Input
<1>5. both.units = su \o qu
  BY <1>1, <1>3, ThenFields
<1>6. ASSUME NEW p \in Pieces(CommandLists), Means(me, ran, p) PROVE Means(w, ran, Then(p, q))
  BY <1>1, <1>6, MeansMore
<1> SUFFICES Framed(todo \o qu, cm, w, ran)
  OBVIOUS
<1> HIDE DEF qu, su, w
<1>7. CASE Between(todo, cm, me, ran, st)
  <2>1. cm = None /\ todo = su /\ Means(w, ran, both)
    BY <1>3, <1>6, <1>7 DEF Between, su
  <2> HIDE DEF both
  <2>2. Between(todo \o qu, cm, w, ran, both)
    BY <1>5, <2>1 DEF Between
  <2> QED
    BY <1>4, <2>2 DEF Framed
<1>8. ASSUME NEW b \in Bodies, Within(todo, cm, me, ran, b, st)
      PROVE  Framed(todo \o qu, cm, w, ran)
  <2> DEFINE bc == b.cmds
             bu == b.units
             c == cm.args \o bc
             p == Piece(<<>>, <<c>>, IsQuit(c))
  <2>1. bu \in Seq(Units) /\ bc \in Seq(Args)
    BY StreamTypes DEF Bodies
  <2>2. c \in CommandLists
    <3> HIDE DEF bc
    <3> QED
      BY <2>1, ConcatProperties DEF CommandLists
  <2>3. cm.left = Len(bc) /\ c # <<>> /\ todo = bu \o su /\ Means(me, ran, Then(p, st))
    BY <1>8 DEF Within, su
  <2>4. p \in Pieces(CommandLists)
    <3> HIDE DEF c
    <3> QED
      BY <2>2, WholeType
  <2> HIDE DEF p
  <2>5. Then(p, st) \in Pieces(CommandLists)
    BY <1>3, <2>4, ThenType
  <2>6. Means(w, ran, Then(Then(p, st), q))
    BY <1>6, <2>3, <2>5
  <2>7. Then(Then(p, st), q) = Then(p, both)
    BY <1>1, <1>3, <2>4, ThenAssociative
  <2>8. todo \o qu = bu \o both.units
    <3> HIDE DEF bu, both
    <3>0. bu \in Seq(Units) /\ su \in Seq(Units) /\ qu \in Seq(Units)
      BY <1>1, <1>3, <2>1
    <3>1. (bu \o su) \o qu = bu \o (su \o qu)
      BY <3>0, ConcatAssociative, SMTT(30)
    <3> QED
      BY <1>5, <2>3, <3>1
  <2> HIDE DEF both
  <2>9. Within(todo \o qu, cm, w, ran, b, both)
    BY <2>3, <2>6, <2>7, <2>8 DEF Within, p
  <2> QED
    BY <1>4, <2>9 DEF Framed
<1>9. ASSUME NEW b \in Bodies, NEW l \in Lines, Doomed(todo, cm, me, ran, b, l, st)
      PROVE  Framed(todo \o qu, cm, w, ran)
  <2> DEFINE bu == b.units
             p == Piece(<<>>, <<>>, TRUE)
  <2>1. bu \in Seq(Units) /\ l \in Seq(Units)
    BY StreamTypes, LineTypes DEF Bodies
  <2>2. p \in Pieces(CommandLists) /\ p.cmds = <<>> /\ p.over = TRUE
    BY BrokenType
  <2>3. cm.left > Len(b.cmds) /\ ~IsHeader(l, "$") /\ todo = bu \o (l \o su) /\ Means(me, ran, p)
    BY <1>9 DEF Doomed, su
  <2> HIDE DEF p
  <2>4. Then(p, q).cmds = <<>> /\ Then(p, q).over = TRUE
    BY <1>1, <2>2, ThenFields
  <2>5. Means(w, ran, p)
    <3>1. Means(w, ran, Then(p, q))
      BY <1>6, <2>2, <2>3
    <3> QED
      BY <2>2, <2>4, <3>1 DEF Means
  <2>6. todo \o qu = bu \o (l \o both.units)
    <3> HIDE DEF bu, both
    <3> DEFINE ls == l \o su
    <3>1. ls \in Seq(Units)
      BY <1>3, <2>1, CatItems
    <3>2. (bu \o ls) \o qu = bu \o (ls \o qu)
      <4> HIDE DEF ls
      <4> QED
        BY <1>1, <2>1, <3>1, ConcatAssociative, SMTT(30)
    <3>3. ls \o qu = l \o (su \o qu)
      BY <1>1, <1>3, <2>1, ConcatAssociative, SMTT(30)
    <3> HIDE DEF ls
    <3> QED
      BY <1>5, <2>3, <3>2, <3>3 DEF ls
  <2> HIDE DEF both
  <2>7. Doomed(todo \o qu, cm, w, ran, b, l, both)
    BY <2>3, <2>5, <2>6 DEF Doomed, p
  <2> QED
    BY <1>4, <2>7 DEF Framed
<1> QED
  BY <1>2, <1>7, <1>8, <1>9

-----------------------------------------------------------------------------
(* ReadCommand. *)

(* Only what p stands for matters to what follows from it. *)
LEMMA ThenMeans ==
  ASSUME NEW me, NEW ran, NEW p \in Pieces(CommandLists), NEW q \in Pieces(CommandLists),
         NEW y \in Pieces(CommandLists), p.cmds = q.cmds, p.over = q.over
  PROVE  Means(me, ran, Then(p, y)) => Means(me, ran, Then(q, y))
<1>1. /\ Then(p, y).cmds = IF p.over = TRUE THEN p.cmds ELSE p.cmds \o y.cmds
      /\ Then(p, y).over = IF p.over = TRUE THEN TRUE ELSE y.over
  BY ThenFields, ZenonT(40)
<1>2. /\ Then(q, y).cmds = IF q.over = TRUE THEN q.cmds ELSE q.cmds \o y.cmds
      /\ Then(q, y).over = IF q.over = TRUE THEN TRUE ELSE y.over
  BY ThenFields
<1> QED
  BY <1>1, <1>2 DEF Means

LEMMA NoCommand == None.left = -1 /\ None.args = <<>>
BY DEF None, Command

LEMMA CommandFields ==
  \A n, a : Command(n, a).left = n /\ Command(n, a).args = a
BY DEF Command

(* The request r comes first, and then y. *)
Follows(s, t, me, ran, r, y) ==
  /\ Means(me, ran, Then(r, y)) /\ s \o t = r.units \o y.units
  /\ readLine(r.units) = readLine(s)
  /\ \A i \in 1..readLine(s) : r.units[i] = s[i]

(* Between commands, the first request follows. *)
LEMMA RequestFollows ==
  ASSUME NEW s \in Seq(Units), NEW t \in Seq(Units), NEW me, NEW ran,
         Framed(s \o t, None, me, ran), readLine(s) # 0
  PROVE  \E r \in Requests : \E y \in Input :
           Follows(s, t, me, ran, r, y)
<1>1. PICK st \in Input :
        \/ Between(s \o t, None, me, ran, st)
        \/ \E b \in Bodies : Within(s \o t, None, me, ran, b, st)
        \/ \E b \in Bodies : \E l \in Lines : Doomed(s \o t, None, me, ran, b, l, st)
  BY DEF Framed
<1>2. ASSUME NEW b \in Bodies PROVE Len(b.cmds) \in Nat
  BY StreamTypes, LenProperties DEF Bodies
<1>3. ASSUME NEW b \in Bodies PROVE ~Within(s \o t, None, me, ran, b, st)
  BY <1>2, NoCommand DEF Within
<1>4. ASSUME NEW b \in Bodies, NEW l \in Lines PROVE ~Doomed(s \o t, None, me, ran, b, l, st)
  <2>1. ~(None.left > Len(b.cmds))
    BY <1>2, NoCommand
  <2> QED
    BY <2>1 DEF Doomed
<1>5. s \o t = st.units /\ Means(me, ran, st)
  BY <1>1, <1>3, <1>4 DEF Between
<1>6. PICK r \in Requests : \E y \in Input :
           /\ st = Then(r, y) /\ s \o t = r.units \o y.units
           /\ readLine(r.units) = readLine(s)
           /\ \A i \in 1..readLine(s) : r.units[i] = s[i]
  BY <1>5, FirstRequest
<1> QED
  BY <1>5, <1>6 DEF Follows

(* The first unit of an array is its header. *)
LEMMA ArrayHeader ==
  ASSUME NEW r \in Requests, IsArray(r) \/ IsBadArray(r)
  PROVE  r.units[1].is = "*" /\ r.units[1].n > 0 /\ readLine(r.units) = 2
<1>1. CASE IsArray(r)
  <2>1. PICK b \in Bodies : Len(b.cmds) > 0 /\ r.units = <<Star(Len(b.cmds)), NL>> \o b.units
    BY <1>1 DEF IsArray
  <2>2. b.units \in Seq(Units) /\ Len(b.cmds) \in Int
    BY StreamTypes, LenProperties DEF Bodies
  <2> DEFINE h == Star(Len(b.cmds))
  <2>3. h \in Units /\ h # NL /\ h.is = "*" /\ h.n = Len(b.cmds)
    BY <2>2, UnitTypes
  <2>4. readLine(<<h, NL>> \o b.units) = 2 /\ (<<h, NL>> \o b.units)[1] = h
    <3> HIDE DEF h
    <3> QED
      BY <2>2, <2>3, HeaderLine
  <2> QED
    BY <2>1, <2>3, <2>4
<1>2. CASE IsBadArray(r)
  <2>1. PICK b \in Bodies, n \in Int, l \in Lines :
          n > Len(b.cmds) /\ r.units = <<Star(n), NL>> \o (b.units \o l)
    BY <1>2 DEF IsBadArray
  <2>2. b.units \in Seq(Units) /\ l \in Seq(Units) /\ Len(b.cmds) \in Nat
    BY StreamTypes, LineTypes, LenProperties DEF Bodies
  <2> DEFINE v == b.units \o l
             h == Star(n)
  <2>3. v \in Seq(Units)
    BY <2>2, CatItems
  <2>4. h \in Units /\ h # NL /\ h.is = "*" /\ h.n = n
    BY UnitTypes
  <2>5. r.units = <<h, NL>> \o v /\ n > 0
    BY <2>1, <2>2
  <2> HIDE DEF h, v
  <2>6. readLine(<<h, NL>> \o v) = 2 /\ (<<h, NL>> \o v)[1] = h
    BY <2>3, <2>4, HeaderLine
  <2> QED
    BY <2>4, <2>5, <2>6
<1> QED
  BY <1>1, <1>2

LEMMA ArrayRead ==
  ASSUME NEW s \in Seq(Units), NEW t \in Seq(Units), NEW me, NEW ran,
         Framed(s \o t, None, me, ran), IsHeader(s, "*"), s[1].n > 0
  PROVE  Framed(From(s, 3) \o t, Command(s[1].n, <<>>), me, ran)
<1>1. readLine(s) = 2 /\ s[1].is = "*" /\ s[1].n # NotANumber
  BY DEF IsHeader
<1>0. readLine(s) # 0
  BY <1>1
<1>2. PICK r \in Requests : \E y \in Input :
           Follows(s, t, me, ran, r, y)
  BY <1>0, RequestFollows, Zenon
<1>3. PICK y \in Input :
           Follows(s, t, me, ran, r, y)
  BY <1>2
<1>a. Means(me, ran, Then(r, y)) /\ s \o t = r.units \o y.units
  BY <1>3 DEF Follows
<1>4. r.units[1] = s[1] /\ readLine(r.units) = 2
  BY <1>1, <1>3 DEF Follows
<1>5. ~IsBlank(r) /\ ~IsInline(r) /\ ~IsBadLine(r)
  <2>1. IsHeader(r.units, "*")
    BY <1>1, <1>4 DEF IsHeader
  <2>2. ASSUME IsBlank(r) PROVE FALSE
    <3>1. Len(r.units) = 2
      BY <1>4, <2>2 DEF IsBlank, Lines
    <3>2. s[1].n <= 0
      BY <1>4, <2>2, <3>1 DEF IsBlank
    <3>3. s[1].n \in Int
      <4>1. 2 \in 1..Len(s) /\ Len(s) \in Nat
        BY <1>1, LineBefore, LenProperties
      <4>2. 1 \in 1..Len(s)
        BY <4>1
      <4>3. s[1] \in Units
        BY <4>2, ElementOfSeq
      <4> QED
        BY <4>3 DEF Units
    <3> QED
      BY <3>2, <3>3
  <2> QED
    BY <1>1, <1>4, <2>1, <2>2 DEF IsInline, IsBadLine
<1> DEFINE yu == y.units
           n == s[1].n
           u == Star(n)
<1>6. yu \in Seq(Units) /\ y \in Pieces(CommandLists) /\ r \in Pieces(CommandLists)
  BY StreamTypes, RequestsArePieces DEF Input
<1>7. 2 <= Len(s)
  <2>1. 2 \in 1..Len(s) /\ Len(s) \in Nat
    BY <1>1, LineBefore, LenProperties
  <2> QED
    BY <2>1
<1>8. ASSUME NEW v \in Seq(Units), NEW x \in Units, s \o t = <<x, NL>> \o v
      PROVE  From(s, 3) \o t = v
  <2> DEFINE h == <<x, NL>>
  <2>1. h \in Seq(Units) /\ Len(h) = 2 /\ s \o t = h \o v
    BY <1>8, UnitTypes
  <2> HIDE DEF h
  <2>a. h \in Seq(Units) /\ s \o t = h \o v /\ Len(h) <= Len(s)
    BY <1>7, <2>1
  <2>2. From(s, Len(h) + 1) \o t = v
    BY <2>a, Cut, ZenonT(40) DEF CutAt
  <2>3. Len(h) + 1 = 3
    BY <2>1
  <2> QED
    BY <2>2, <2>3
<1>9. CASE IsArray(r)
  <2>1. PICK b \in Bodies : /\ Len(b.cmds) > 0
                            /\ r.units = <<Star(Len(b.cmds)), NL>> \o b.units
                            /\ r.cmds = <<b.cmds>> /\ r.over = IsQuit(b.cmds)
    BY <1>9 DEF IsArray
  <2> DEFINE bu == b.units
             bc == b.cmds
             m == Len(bc)
             x == Star(m)
             h == <<x, NL>>
  <2>2. bu \in Seq(Units) /\ bc \in Seq(Args) /\ m \in Nat
    BY StreamTypes, LenProperties DEF Bodies
  <2>3. x \in Units /\ x # NL /\ x.n = m
    BY <2>2, UnitTypes
  <2>4. r.units = h \o bu
    BY <2>1
  <2> HIDE DEF x
  <2>5. h \in Seq(Units) /\ (h \o bu)[1] = x
    <3> HIDE DEF bu
    <3> QED
      BY <2>2, <2>3, HeaderLine
  <2>6. n = m
    BY <1>4, <2>3, <2>4, <2>5
  <2>7. bu \o yu \in Seq(Units) /\ (h \o bu) \o yu = h \o (bu \o yu)
    <3> HIDE DEF bu, yu, h
    <3> QED
      <4>1. bu \in Seq(Units) /\ yu \in Seq(Units) /\ h \in Seq(Units)
        BY <1>6, <2>2, <2>5
      <4>2. bu \o yu \in Seq(Units)
        BY <4>1, CatItems
      <4>3. (h \o bu) \o yu = h \o (bu \o yu)
        BY <4>1, UnitsAssociative
      <4> QED
        BY <4>2, <4>3
  <2>8. From(s, 3) \o t = bu \o yu
    BY <1>a, <1>8, <2>3, <2>4, <2>7
  <2> DEFINE cm == Command(n, <<>>)
             c == cm.args \o bc
             p == Piece(<<>>, <<c>>, IsQuit(c))
  <2>9. cm.left = m /\ cm.args = <<>>
    BY <2>6, CommandFields
  <2>10. c = bc
    <3> HIDE DEF bc, cm
    <3> QED
      BY <2>2, <2>9, ConcatEmptySeq
  <2>11. c # <<>>
    <3> HIDE DEF c, bc
    <3>1. m > 0
      BY <2>1 DEF bc
    <3> QED
      BY <2>10, <3>1
  <2>12. p \in Pieces(CommandLists) /\ p.cmds = r.cmds /\ p.over = r.over
    <3>1. c \in CommandLists /\ r.cmds = <<c>> /\ r.over = IsQuit(c)
      BY <2>1, <2>2, <2>10 DEF CommandLists
    <3> HIDE DEF c
    <3> QED
      BY <3>1, WholeType
  <2>13. Means(me, ran, Then(p, y))
    <3> HIDE DEF p
    <3> QED
      BY <1>a, <1>6, <2>12, ThenMeans
  <2> HIDE DEF cm
  <2>14. Within(From(s, 3) \o t, cm, me, ran, b, y)
    BY <2>8, <2>9, <2>11, <2>13 DEF Within
  <2> QED
    BY <2>14 DEF Framed, cm
<1>10. CASE IsBadArray(r)
  <2>1. PICK b \in Bodies, k \in Int, l \in Lines :
           /\ k > Len(b.cmds) /\ ~IsHeader(l, "$")
           /\ r.units = <<Star(k), NL>> \o (b.units \o l)
           /\ r.cmds = <<>> /\ r.over = TRUE
    BY <1>10 DEF IsBadArray
  <2> DEFINE bu == b.units
             bl == bu \o l
             x == Star(k)
             h == <<x, NL>>
  <2>2. bu \in Seq(Units) /\ l \in Seq(Units)
    BY StreamTypes, LineTypes DEF Bodies
  <2>3. x \in Units /\ x # NL /\ x.n = k
    BY UnitTypes
  <2>4. r.units = h \o bl
    BY <2>1
  <2>5. bl \in Seq(Units)
    <3> HIDE DEF bu
    <3> QED
      BY <2>2, CatItems
  <2> HIDE DEF x
  <2>6. h \in Seq(Units) /\ (h \o bl)[1] = x
    <3> HIDE DEF bl
    <3> QED
      BY <2>3, <2>5, HeaderLine
  <2>7. n = k
    BY <1>4, <2>3, <2>4, <2>6
  <2>8. bl \o yu \in Seq(Units) /\ (h \o bl) \o yu = h \o (bl \o yu)
    <3> HIDE DEF bl, yu, h
    <3> QED
      <4>1. bl \in Seq(Units) /\ yu \in Seq(Units) /\ h \in Seq(Units)
        BY <1>6, <2>5, <2>6
      <4>2. bl \o yu \in Seq(Units)
        BY <4>1, CatItems
      <4>3. (h \o bl) \o yu = h \o (bl \o yu)
        BY <4>1, UnitsAssociative
      <4> QED
        BY <4>2, <4>3
  <2>9. bl \o yu = bu \o (l \o yu)
    <3> HIDE DEF bu, yu
    <3> QED
      BY <1>6, <2>2, ConcatAssociative, SMTT(30)
  <2>10. From(s, 3) \o t = bu \o (l \o yu)
    BY <1>a, <1>8, <2>3, <2>4, <2>8, <2>9
  <2> DEFINE cm == Command(n, <<>>)
             p == Piece(<<>>, <<>>, TRUE)
  <2>11. cm.left = k
    BY <2>7, CommandFields
  <2>12. p.cmds = <<>> /\ p.over = TRUE
    BY BrokenType
  <2>13. Then(r, y).cmds = <<>> /\ Then(r, y).over = TRUE
    BY <1>6, <2>1, ThenFields
  <2> HIDE DEF cm, p
  <2>14. Means(me, ran, p)
    BY <1>a, <2>12, <2>13 DEF Means
  <2>15. Doomed(From(s, 3) \o t, cm, me, ran, b, l, y)
    BY <2>1, <2>10, <2>11, <2>14 DEF Doomed, p
  <2> QED
    BY <2>15 DEF Framed, cm
<1> QED
  BY <1>5, <1>9, <1>10 DEF Requests

(* One element: its argument is taken, and what follows it is left. *)
(* The element e is what stands in s up to end, and its payload. *)
ElementAt(s, t, v, e, end) ==
  /\ From(s, end + 1) \in Seq(Units) /\ From(s, end + 1) \o t = v
  /\ SubSeq(s, 3, end - 1) \in Args /\ e.cmds = <<SubSeq(s, 3, end - 1)>>

LEMMA ElementRead ==
  ASSUME NEW s \in Seq(Units), NEW t \in Seq(Units), NEW v \in Seq(Units), NEW e \in Elements,
         s \o t = e.units \o v, IsHeader(s, "$"), ~(Len(s) < s[1].n + 3),
         NEW end, end = IF s[1].n < 0 THEN 2 ELSE s[1].n + 3
  PROVE  ElementAt(s, t, v, e, end)
<1> SUFFICES /\ From(s, end + 1) \in Seq(Units) /\ From(s, end + 1) \o t = v
             /\ SubSeq(s, 3, end - 1) \in Args /\ e.cmds = <<SubSeq(s, 3, end - 1)>>
  BY DEF ElementAt
<1> DEFINE eu == e.units
           n == s[1].n
<1>1. e \in Pieces(Args) /\ eu \in Seq(Units)
  BY PieceTypes DEF Elements
<1>2. Len(s) \in Nat /\ 2 <= Len(s)
  <2>1. readLine(s) = 2
    BY DEF IsHeader
  <2>2. readLine(s) # 0
    BY <2>1
  <2>3. readLine(s) \in 1..Len(s) /\ Len(s) \in Nat
    BY <2>2, LineBefore, LenProperties
  <2> QED
    BY <2>1, <2>3
<1>3. (s \o t)[1] = s[1]
  <2>1. 1 \in 1..Len(s)
    BY <1>2
  <2> QED
    BY <2>1, CatItems
<1>4. CASE \E m \in Int : m < 0 /\ m # NotANumber /\ eu = <<Dollar(m), NL>> /\ e.cmds = <<<<>>>>
  <2>1. PICK m \in Int : m < 0 /\ eu = <<Dollar(m), NL>> /\ e.cmds = <<<<>>>>
    BY <1>4
  <2> DEFINE d == Dollar(m)
  <2>2. d \in Units /\ d # NL /\ d.n = m
    BY UnitTypes
  <2> HIDE DEF d
  <2>3. Len(<<d, NL>>) = 2 /\ (<<d, NL>> \o v)[1] = d
    BY <2>2, HeaderLine
  <2>4. Len(eu) = 2 /\ (eu \o v)[1] = d
    BY <2>1, <2>3 DEF d
  <2>5. n = m
    BY <1>3, <2>2, <2>4
  <2>6. end = 2
    BY <2>1, <2>5
  <2>7. Len(eu) <= Len(s) /\ Len(eu) + 1 = end + 1
    BY <1>2, <2>4, <2>6
  <2> HIDE DEF eu
  <2>8. From(s, Len(eu) + 1) \in Seq(Units) /\ From(s, Len(eu) + 1) \o t = v
    <3>1. s \o t = eu \o v /\ Len(eu) <= Len(s)
      BY <2>7 DEF eu
    <3> QED
      <4>1. CutAt(Units, s, t, eu, v)
        BY <1>1, <3>1, Cut
      <4> QED
        BY <4>1 DEF CutAt
  <2>9. SubSeq(s, 3, end - 1) = <<>>
    <3>1. end - 1 = 1
      BY <2>6
    <3>2. SubSeq(s, 3, 1) = <<>>
      BY SubSeqEmpty
    <3> QED
      BY <3>1, <3>2
  <2>10. <<>> \in Args
    BY DEF Args
  <2> QED
    BY <2>1, <2>7, <2>8, <2>9, <2>10
<1>5. CASE \E p \in Args : \E u \in Units :
             e.cmds = <<p>> /\ eu = <<Dollar(Len(p)), NL>> \o (p \o <<u>>)
  <2>1. PICK p \in Args, u \in Units :
             e.cmds = <<p>> /\ eu = <<Dollar(Len(p)), NL>> \o (p \o <<u>>)
    BY <1>5
  <2>2. p \in Seq(Units) /\ Len(p) \in Nat /\ <<u>> \in Seq(Units) /\ Len(<<u>>) = 1
    BY LenProperties DEF Args
  <2> DEFINE d == Dollar(Len(p))
             q == p \o <<u>>
             h == <<d, NL>>
  <2>3. d \in Units /\ d # NL /\ d.n = Len(p)
    BY <2>2, UnitTypes
  <2>4. q \in Seq(Units) /\ Len(q) = Len(p) + 1 /\ \A i \in 1..Len(p) : q[i] = p[i]
    BY <2>2, CatItems
  <2>5. eu = h \o q
    BY <2>1
  <2> HIDE DEF d, q
  <2>6. h \in Seq(Units) /\ Len(h) = 2 /\ (h \o q)[1] = d
    BY <2>3, <2>4, HeaderLine
  <2> HIDE DEF h
  <2>7. /\ Len(eu) = Len(p) + 3
        /\ \A i \in 1..Len(q) : eu[2 + i] = q[i]
    <3>1. Len(h \o q) = Len(h) + Len(q) /\ \A i \in 1..Len(q) : (h \o q)[Len(h) + i] = q[i]
      <4>1. h \in Seq(Units) /\ q \in Seq(Units)
        BY <2>4, <2>6
      <4> QED
        BY <4>1, CatItems
    <3> QED
      BY <2>2, <2>4, <2>5, <2>6, <3>1
  <2>8. eu[1] = d
    BY <2>5, <2>6
  <2>9. (eu \o v)[1] = eu[1]
    <3>1. 1 \in 1..Len(eu)
      BY <2>2, <2>7
    <3> HIDE DEF eu
    <3> QED
      BY <1>1, <3>1, CatItems
  <2>10. n = Len(p) /\ end = Len(p) + 3
    <3>1. s[1] = d
      BY <1>3, <2>8, <2>9
    <3> QED
      BY <2>2, <2>3, <3>1
  <2>11. Len(eu) <= Len(s) /\ Len(eu) + 1 = end + 1
    BY <1>2, <2>2, <2>7, <2>10
  <2> HIDE DEF eu, n
  <2>12. /\ From(s, Len(eu) + 1) \in Seq(Units) /\ From(s, Len(eu) + 1) \o t = v
         /\ \A i \in 1..Len(eu) : s[i] = eu[i]
    <3>1. s \o t = eu \o v /\ Len(eu) <= Len(s)
      BY <2>11 DEF eu
    <3> QED
      <4>1. CutAt(Units, s, t, eu, v)
        BY <1>1, <3>1, Cut
      <4> QED
        BY <4>1 DEF CutAt
  <2> DEFINE a == SubSeq(s, 3, end - 1)
  <2>13. /\ a \in Seq(Units) /\ Len(a) = Len(p)
         /\ \A i \in 1..Len(p) : a[i] = s[2 + i]
    <3>1. 3 \in Int /\ end - 1 \in Int /\ end - 1 = Len(p) + 2
      BY <2>2, <2>10
    <3>2. \A i \in 3..(end - 1) : s[i] \in Units
      <4>1. \A i \in 3..(end - 1) : i \in 1..Len(s)
        BY <1>2, <2>2, <2>7, <2>11, <3>1
      <4> QED
        BY <4>1, ElementOfSeq
    <3>3. /\ a \in Seq(Units) /\ Len(a) = IF 3 <= end - 1 THEN (end - 1) - 3 + 1 ELSE 0
          /\ \A i \in 1 .. (end - 1) - 3 + 1 : a[i] = s[3 + i - 1]
      BY <3>1, <3>2, SubSeqProperties
    <3> HIDE DEF a
    <3>4. Len(a) = Len(p)
      BY <2>2, <3>1, <3>3, SMTT(30)
    <3>5. ASSUME NEW i \in 1..Len(p) PROVE a[i] = s[2 + i]
      <4>1. i \in 1 .. (end - 1) - 3 + 1 /\ 3 + i - 1 = 2 + i
        BY <2>2, <3>1
      <4> QED
        BY <3>3, <4>1
    <3> QED
      BY <3>3, <3>4, <3>5
  <2> HIDE DEF a
  <2>14. ASSUME NEW i \in 1..Len(p) PROVE a[i] = p[i]
    <3>1. 2 + i \in 1..Len(eu) /\ i \in 1..Len(q)
      BY <2>2, <2>4, <2>7
    <3> QED
      BY <2>4, <2>7, <2>12, <2>13, <3>1
  <2>15. a = p
    BY <2>2, <2>13, <2>14, SeqEqual
  <2> QED
    BY <2>1, <2>11, <2>12, <2>15 DEF a
<1> QED
  BY <1>4, <1>5 DEF Elements

(* The elements that are left, and the first of them. *)
LEMMA FirstElement ==
  ASSUME NEW b \in Bodies, b # Nothing
  PROVE  \E e \in Elements : \E d \in Bodies :
           /\ b.units = e.units \o d.units /\ b.cmds = e.cmds \o d.cmds
           /\ Len(e.cmds) = 1 /\ Len(b.cmds) = Len(d.cmds) + 1
           /\ e.cmds \in Seq(Args) /\ e.units \in Seq(Units)
<1>1. PICK e \in Elements : \E d \in Bodies : b = Then(e, d)
  BY StreamFront DEF Bodies
<1>2. PICK d \in Bodies : b = Then(e, d)
  BY <1>1
<1>3. e \in Pieces(Args) /\ e.over = FALSE /\ \E p \in Args : e.cmds = <<p>>
  <2>1. <<>> \in Args
    BY DEF Args
  <2> QED
    BY <2>1 DEF Elements
<1>4. d \in Pieces(Args) /\ d.cmds \in Seq(Args) /\ e.cmds \in Seq(Args) /\ e.units \in Seq(Units)
  BY <1>3, StreamTypes, PieceTypes DEF Bodies
<1>5. b.units = e.units \o d.units /\ b.cmds = e.cmds \o d.cmds
  <2>1. e \in Pieces(Args) /\ d \in Pieces(Args) /\ e.over # TRUE
    BY <1>3, <1>4
  <2> QED
    BY <1>2, <2>1, ThenFields
<1>6. Len(e.cmds) = 1
  BY <1>3
<1> DEFINE x == e.cmds
           y == d.cmds
<1>7. Len(x \o y) = Len(x) + Len(y) /\ Len(y) \in Nat
  <2>1. x \in Seq(Args) /\ y \in Seq(Args)
    BY <1>4
  <2> HIDE DEF x, y
  <2> QED
    BY <2>1, CatItems
<1>8. Len(b.cmds) = Len(d.cmds) + 1
  BY <1>5, <1>6, <1>7
<1> QED
  BY <1>4, <1>5, <1>6, <1>8

(* With elements to come, one of them is read. *)
LEMMA BulkRead ==
  ASSUME NEW s \in Seq(Units), NEW t \in Seq(Units), NEW cm, cm.args \in Seq(Args),
         cm.left \in Int, cm.left > 0,
         NEW me, NEW ran, Framed(s \o t, cm, me, ran),
         IsHeader(s, "$"), ~(Len(s) < s[1].n + 3),
         NEW end, end = IF s[1].n < 0 THEN 2 ELSE s[1].n + 3
  PROVE  /\ SubSeq(s, 3, end - 1) \in Args /\ From(s, end + 1) \in Seq(Units)
         /\ Framed(From(s, end + 1) \o t, Command(cm.left - 1, Append(cm.args, SubSeq(s, 3, end - 1))),
                   me, ran)
<1> DEFINE a == SubSeq(s, 3, end - 1)
           f == From(s, end + 1)
           x == Append(cm.args, a)
           new == Command(cm.left - 1, x)
<1> SUFFICES a \in Args /\ f \in Seq(Units) /\ Framed(f \o t, new, me, ran)
  OBVIOUS
<1>1. PICK st \in Input :
        \/ Between(s \o t, cm, me, ran, st)
        \/ \E b \in Bodies : Within(s \o t, cm, me, ran, b, st)
        \/ \E b \in Bodies : \E l \in Lines : Doomed(s \o t, cm, me, ran, b, l, st)
  BY DEF Framed
<1>2. ~Between(s \o t, cm, me, ran, st)
  <2>1. cm # None
    BY NoCommand
  <2> QED
    BY <2>1 DEF Between
<1> DEFINE su == st.units
<1>3. su \in Seq(Units)
  BY StreamTypes DEF Input
<1>4. new.left = cm.left - 1 /\ new.args = x
  BY CommandFields
<1> HIDE DEF new
<1>5. ASSUME NEW b \in Bodies, b # Nothing, NEW w \in Seq(Units), s \o t = b.units \o w
      PROVE  \E d \in Bodies :
               /\ a \in Args /\ f \in Seq(Units) /\ f \o t = d.units \o w
               /\ Len(b.cmds) = Len(d.cmds) + 1 /\ Len(d.cmds) \in Nat
               /\ x \o d.cmds = cm.args \o b.cmds
  <2>1. PICK e \in Elements : \E d \in Bodies :
           /\ b.units = e.units \o d.units /\ b.cmds = e.cmds \o d.cmds
           /\ Len(e.cmds) = 1 /\ Len(b.cmds) = Len(d.cmds) + 1
           /\ e.cmds \in Seq(Args) /\ e.units \in Seq(Units)
    BY <1>5, FirstElement
  <2>2. PICK d \in Bodies :
           /\ b.units = e.units \o d.units /\ b.cmds = e.cmds \o d.cmds
           /\ Len(e.cmds) = 1 /\ Len(b.cmds) = Len(d.cmds) + 1
           /\ e.cmds \in Seq(Args) /\ e.units \in Seq(Units)
    BY <2>1
  <2> DEFINE eu == e.units
             du == d.units
             dc == d.cmds
             v == du \o w
  <2>3. eu \in Seq(Units) /\ du \in Seq(Units) /\ dc \in Seq(Args) /\ Len(dc) \in Nat
    BY <2>2, StreamTypes, LenProperties DEF Bodies
  <2>4. v \in Seq(Units)
    <3> HIDE DEF du
    <3> QED
      BY <2>3, CatItems
  <2>5. s \o t = eu \o v
    <3>1. s \o t = (eu \o du) \o w
      BY <1>5, <2>2
    <3> HIDE DEF eu, du
    <3>2. (eu \o du) \o w = eu \o (du \o w)
      BY <2>3, UnitsAssociative
    <3> QED
      BY <3>1, <3>2
  <2>6. f \in Seq(Units) /\ f \o t = v /\ a \in Args /\ e.cmds = <<a>>
    <3> HIDE DEF v
    <3>1. ElementAt(s, t, v, e, end)
      BY <2>4, <2>5, ElementRead
    <3> QED
      BY <3>1 DEF ElementAt
  <2>7. x \o dc = cm.args \o b.cmds
    <3> DEFINE y == cm.args
               z == <<a>>
    <3>1. y \in Seq(Args) /\ z \in Seq(Args)
      <4>1. a \in Args
        BY <2>6
      <4> HIDE DEF a
      <4>2. <<a>> \in Seq(Args)
        BY <4>1
      <4> QED
        BY <4>2
    <3>2. x = y \o z
      <4>1. a \in Args /\ y \in Seq(Args)
        BY <2>6, <3>1
      <4> SUFFICES Append(y, a) = y \o <<a>>
        OBVIOUS
      <4> HIDE DEF a, y
      <4> QED
        BY <4>1, AppendIsConcat
    <3>3. b.cmds = z \o dc
      BY <2>2, <2>6
    <3> HIDE DEF y, z, dc, x
    <3>4. (y \o z) \o dc = y \o (z \o dc)
      <4>1. dc \in Seq(Args)
        BY <2>3
      <4> QED
        BY <3>1, <4>1, ListsAssociative, SMTT(30)
    <3> QED
      BY <3>2, <3>3, <3>4 DEF y
  <2> QED
    BY <2>2, <2>3, <2>6, <2>7
<1>6. ASSUME NEW b \in Bodies, Within(s \o t, cm, me, ran, b, st)
      PROVE  a \in Args /\ f \in Seq(Units) /\ Framed(f \o t, new, me, ran)
  <2> DEFINE c == cm.args \o b.cmds
  <2>1. /\ cm.left = Len(b.cmds) /\ c # <<>> /\ s \o t = b.units \o su
        /\ Means(me, ran, Then(Piece(<<>>, <<c>>, IsQuit(c)), st))
    BY <1>6 DEF Within
  <2>2. b # Nothing
    <3>1. Nothing.cmds = <<>>
      BY NothingType
    <3>2. Len(b.cmds) > 0
      BY <2>1
    <3> QED
      BY <3>1, <3>2
  <2>3. PICK d \in Bodies :
               /\ a \in Args /\ f \in Seq(Units) /\ f \o t = d.units \o su
               /\ Len(b.cmds) = Len(d.cmds) + 1 /\ Len(d.cmds) \in Nat
               /\ x \o d.cmds = c
    <3> HIDE DEF su, a, f, x
    <3> QED
      BY <1>3, <1>5, <2>1, <2>2
  <2>4. new.left = Len(d.cmds) /\ new.args \o d.cmds = c
    <3>1. new.left = Len(d.cmds)
      BY <1>4, <2>1, <2>3
    <3> QED
      BY <1>4, <2>3, <3>1
  <2> HIDE DEF c, a, f, x
  <2>5. Within(f \o t, new, me, ran, d, st)
    BY <2>1, <2>3, <2>4 DEF Within, su
  <2> QED
    BY <2>3, <2>5 DEF Framed
<1>7. ASSUME NEW b \in Bodies, NEW l \in Lines, Doomed(s \o t, cm, me, ran, b, l, st)
      PROVE  a \in Args /\ f \in Seq(Units) /\ Framed(f \o t, new, me, ran)
  <2> DEFINE w == l \o su
  <2>1. /\ cm.left > Len(b.cmds) /\ ~IsHeader(l, "$") /\ s \o t = b.units \o w
        /\ Means(me, ran, Piece(<<>>, <<>>, TRUE))
    BY <1>7 DEF Doomed
  <2>2. l \in Seq(Units) /\ readLine(l) # 0
    BY LineTypes
  <2>3. w \in Seq(Units)
    <3> HIDE DEF su
    <3> QED
      BY <1>3, <2>2, CatItems
  <2>4. b # Nothing
    <3> SUFFICES ASSUME b = Nothing PROVE FALSE
      OBVIOUS
    <3>1. b.units = <<>>
      BY NothingType
    <3>2. s \o t = w
      <4> HIDE DEF w
      <4>1. <<>> \o w = w
        BY <2>3, ConcatEmptySeq
      <4> QED
        BY <2>1, <3>1, <4>1
    <3>3. readLine(s) = 2 /\ readLine(s) # 0
      BY DEF IsHeader
    <3>4. readLine(s \o t) = readLine(s) /\ \A i \in 1..readLine(s) : (s \o t)[i] = s[i]
      BY <3>3, LineBefore
    <3>5. readLine(w) = readLine(l) /\ \A i \in 1..readLine(l) : w[i] = l[i]
      <4> HIDE DEF su
      <4> QED
        BY <1>3, <2>2, LineBefore
    <3> HIDE DEF w
    <3>6. readLine(l) = 2 /\ l[1] = s[1]
      BY <3>2, <3>3, <3>4, <3>5
    <3>7. IsHeader(l, "$")
      BY <3>6 DEF IsHeader
    <3> QED
      BY <2>1, <3>7
  <2>5. PICK d \in Bodies :
               /\ a \in Args /\ f \in Seq(Units) /\ f \o t = d.units \o w
               /\ Len(b.cmds) = Len(d.cmds) + 1 /\ Len(d.cmds) \in Nat
               /\ x \o d.cmds = cm.args \o b.cmds
    <3> HIDE DEF w, a, f, x
    <3> QED
      BY <1>5, <2>1, <2>3, <2>4
  <2>6. new.left > Len(d.cmds)
    BY <1>4, <2>1, <2>5
  <2> HIDE DEF a, f, x
  <2>7. Doomed(f \o t, new, me, ran, d, l, st)
    BY <2>1, <2>5, <2>6 DEF Doomed
  <2> QED
    BY <2>5, <2>7 DEF Framed
<1> QED
  BY <1>1, <1>2, <1>6, <1>7

(* Words on a line. *)
LEMMA InlineRead ==
  ASSUME NEW s \in Seq(Units), NEW t \in Seq(Units), NEW me, NEW ran,
         Framed(s \o t, None, me, ran), readLine(s) > 1, s[1].is # "*",
         NEW c, c = [i \in 1..(readLine(s) - 1) |-> <<s[i]>>]
  PROVE  /\ c \in CommandLists /\ From(s, readLine(s) + 1) \in Seq(Units)
         /\ Framed(From(s, readLine(s) + 1) \o t, Command(0, c), me, ran)
<1> DEFINE e == readLine(s)
<1>1. e # 0
  <2> SUFFICES ASSUME e = 0 PROVE FALSE
    OBVIOUS
  <2>1. ~(0 > 1)
    OBVIOUS
  <2> QED
    BY <2>1
<1>2. e \in 1..Len(s) /\ Len(s) \in Nat
  BY <1>1, LineBefore, LenProperties
<1>3. PICK r \in Requests : \E y \in Input : Follows(s, t, me, ran, r, y)
  BY <1>1, RequestFollows
<1>4. PICK y \in Input : Follows(s, t, me, ran, r, y)
  BY <1>3
<1>5. /\ Means(me, ran, Then(r, y)) /\ s \o t = r.units \o y.units
      /\ readLine(r.units) = e
      /\ \A i \in 1..e : r.units[i] = s[i]
  BY <1>4 DEF Follows
<1>6. r.units[1] = s[1]
  <2>1. 1 \in 1..e
    BY <1>2
  <2> QED
    BY <1>5, <2>1
<1>7. IsInline(r)
  <2>1. ~IsBlank(r)
    <3>1. ~IsHeader(r.units, "*")
      BY <1>6 DEF IsHeader
    <3>2. r.units \in Lines => Len(r.units) = e
      BY <1>5 DEF Lines
    <3>3. e # 1
      BY <1>2
    <3> QED
      BY <3>1, <3>2, <3>3 DEF IsBlank
  <2>2. ~IsBadLine(r)
    BY <1>6 DEF IsBadLine
  <2>3. ~IsArray(r) /\ ~IsBadArray(r)
    BY <1>6, ArrayHeader
  <2> QED
    BY <2>1, <2>2, <2>3 DEF Requests
<1> DEFINE ru == r.units
           yu == y.units
<1>8. ru \in Seq(Units) /\ yu \in Seq(Units) /\ y \in Pieces(CommandLists) /\ r \in Pieces(CommandLists)
  BY RequestLine, StreamTypes DEF Input
<1>9. Len(ru) = e
  BY <1>5, <1>7 DEF IsInline, Lines
<1>10. c = [i \in 1..(Len(ru) - 1) |-> <<ru[i]>>] /\ r.cmds = <<c>> /\ r.over = IsQuit(c)
  <2>1. \A i \in 1..(e - 1) : ru[i] = s[i]
    <3>1. \A i \in 1..(e - 1) : i \in 1..e
      BY <1>2
    <3> QED
      BY <1>5, <3>1
  <2>2. c = [i \in 1..(Len(ru) - 1) |-> <<ru[i]>>]
    BY <1>9, <2>1
  <2> QED
    BY <1>7, <2>2 DEF IsInline
<1>11. c \in CommandLists /\ c # <<>>
  <2>1. ASSUME NEW i \in 1..(e - 1) PROVE <<s[i]>> \in Args
    <3>1. i \in 1..Len(s)
      BY <1>2
    <3>2. s[i] \in Units
      BY <3>1, ElementOfSeq
    <3> QED
      BY <3>2 DEF Args
  <2>2. c \in [1..(e - 1) -> Args] /\ e - 1 \in Nat /\ e - 1 > 0
    BY <1>2, <2>1
  <2>3. c \in Seq(Args) /\ Len(c) = e - 1
    <3> DEFINE n == e - 1
    <3>1. c \in [1..n -> Args] /\ n \in Nat
      BY <2>2
    <3> SUFFICES c \in Seq(Args) /\ Len(c) = n
      OBVIOUS
    <3> HIDE DEF n, e
    <3> QED
      BY <3>1, TableIsList
  <2> QED
    BY <2>2, <2>3 DEF CommandLists
<1>12. From(s, e + 1) \in Seq(Units) /\ From(s, e + 1) \o t = yu
  <2>1. s \o t = ru \o yu /\ Len(ru) <= Len(s)
    BY <1>2, <1>5, <1>9
  <2> HIDE DEF ru, yu
  <2>2. CutAt(Units, s, t, ru, yu)
    BY <1>8, <2>1, Cut
  <2> QED
    BY <1>9, <2>2 DEF CutAt
<1> DEFINE cm == Command(0, c)
           p == Piece(<<>>, <<c>>, IsQuit(c))
<1>13. cm.left = 0 /\ cm.args = c
  BY CommandFields
<1>14. /\ Nothing \in Bodies /\ Nothing.units = <<>> /\ Nothing.cmds = <<>>
       /\ Len(Nothing.cmds) = 0
  <2>1. Nothing \in Bodies /\ Nothing.units = <<>> /\ Nothing.cmds = <<>>
    BY StreamNothing, NothingType DEF Bodies
  <2> QED
    BY <2>1
<1>15. p \in Pieces(CommandLists) /\ p.cmds = r.cmds /\ p.over = r.over
  BY <1>10, <1>11, WholeType
<1>16. Means(me, ran, Then(p, y))
  <2> HIDE DEF p
  <2> QED
    BY <1>5, <1>8, <1>15, ThenMeans
<1>17. cm.args \o Nothing.cmds = c
  <2>1. c \o <<>> = c
    BY <1>11, ConcatEmptySeq DEF CommandLists
  <2> QED
    BY <1>13, <1>14, <2>1
<1>18. From(s, e + 1) \o t = Nothing.units \o yu
  <2> HIDE DEF yu
  <2>1. <<>> \o yu = yu
    BY <1>8, ConcatEmptySeq
  <2> QED
    BY <1>12, <1>14, <2>1
<1> HIDE DEF cm
<1>19. Within(From(s, e + 1) \o t, cm, me, ran, Nothing, y)
  BY <1>11, <1>13, <1>14, <1>16, <1>17, <1>18 DEF Within
<1>20. Framed(From(s, e + 1) \o t, cm, me, ran)
  BY <1>14, <1>19 DEF Framed
<1> QED
  BY <1>11, <1>12, <1>20 DEF cm

(* What a piece adds to the one before it. *)
LEMMA ThenStops ==
  ASSUME NEW x \in Pieces(CommandLists), NEW y \in Pieces(CommandLists), x.over = TRUE
  PROVE  Then(x, y).cmds = x.cmds
<1>1. Then(x, y).cmds = IF x.over = TRUE THEN x.cmds ELSE x.cmds \o y.cmds
  BY ThenFields, ZenonT(40)
<1> QED
  BY <1>1

LEMMA ThenGoesOn ==
  ASSUME NEW x \in Pieces(CommandLists), NEW y \in Pieces(CommandLists), x.over # TRUE
  PROVE  Then(x, y).cmds = x.cmds \o y.cmds /\ Then(x, y).over = y.over
<1>1. /\ Then(x, y).cmds = IF x.over = TRUE THEN x.cmds ELSE x.cmds \o y.cmds
      /\ Then(x, y).over = IF x.over = TRUE THEN TRUE ELSE y.over
  BY ThenFields
<1> QED
  BY <1>1

(* A blank line or an empty array means nothing. *)
LEMMA SkipRead ==
  ASSUME NEW s \in Seq(Units), NEW t \in Seq(Units), NEW me, NEW ran,
         Framed(s \o t, None, me, ran),
         readLine(s) = 1 \/ (IsHeader(s, "*") /\ s[1].n <= 0)
  PROVE  /\ From(s, readLine(s) + 1) \in Seq(Units)
         /\ Framed(From(s, readLine(s) + 1) \o t, None, me, ran)
<1> DEFINE e == readLine(s)
<1>1. e # 0
  BY DEF IsHeader
<1>2. e \in 1..Len(s) /\ Len(s) \in Nat
  BY <1>1, LineBefore, LenProperties
<1>3. PICK r \in Requests : \E y \in Input : Follows(s, t, me, ran, r, y)
  BY <1>1, RequestFollows
<1>4. PICK y \in Input : Follows(s, t, me, ran, r, y)
  BY <1>3
<1>5. /\ Means(me, ran, Then(r, y)) /\ s \o t = r.units \o y.units
      /\ readLine(r.units) = e
      /\ \A i \in 1..e : r.units[i] = s[i]
  BY <1>4 DEF Follows
<1>6. r.units[1] = s[1]
  <2>1. 1 \in 1..e
    BY <1>2
  <2> QED
    BY <1>5, <2>1
<1>7. IsBlank(r)
  <2>1. CASE e = 1
    <3>1. s[1] = NL
      BY <1>1, <2>1, LineEnds DEF EndsAt
    <3>2. ~IsInline(r)
      BY <1>5, <2>1 DEF IsInline, Lines
    <3>3. ~IsBadLine(r)
      BY <1>6, <3>1, UnitTypes DEF IsBadLine
    <3>4. ~IsArray(r) /\ ~IsBadArray(r)
      BY <1>5, <2>1, ArrayHeader
    <3> QED
      BY <3>2, <3>3, <3>4 DEF Requests
  <2>2. CASE IsHeader(s, "*") /\ s[1].n <= 0
    <3>1. IsHeader(r.units, "*")
      BY <1>5, <1>6, <2>2 DEF IsHeader
    <3>2. ~IsInline(r) /\ ~IsBadLine(r)
      BY <3>1 DEF IsInline, IsBadLine, IsHeader
    <3>3. ~(s[1].n > 0)
      <4>1. 1 \in 1..Len(s)
        BY <1>2
      <4>2. s[1] \in Units
        BY <4>1, ElementOfSeq
      <4>3. s[1].n \in Int
        BY <4>2 DEF Units
      <4> QED
        BY <2>2, <4>3
    <3>4. ~IsArray(r) /\ ~IsBadArray(r)
      BY <1>6, <3>3, ArrayHeader
    <3> QED
      BY <3>2, <3>4 DEF Requests
  <2> QED
    BY <2>1, <2>2
<1> DEFINE ru == r.units
           yu == y.units
<1>8. ru \in Seq(Units) /\ yu \in Seq(Units) /\ y \in Pieces(CommandLists) /\ r \in Pieces(CommandLists)
  BY RequestLine, StreamTypes DEF Input
<1>9. Len(ru) = e
  BY <1>5, <1>7 DEF IsBlank, Lines
<1>10. From(s, e + 1) \in Seq(Units) /\ From(s, e + 1) \o t = yu
  <2>1. s \o t = ru \o yu /\ Len(ru) <= Len(s)
    BY <1>2, <1>5, <1>9
  <2> HIDE DEF ru, yu
  <2>2. CutAt(Units, s, t, ru, yu)
    BY <1>8, <2>1, Cut
  <2> QED
    BY <1>9, <2>2 DEF CutAt
<1>11. Means(me, ran, y)
  <2>1. r.cmds = <<>> /\ r.over # TRUE
    BY <1>7 DEF IsBlank
  <2>2. Then(r, y).cmds = <<>> \o y.cmds /\ Then(r, y).over = y.over
    <3>1. r \in Pieces(CommandLists) /\ y \in Pieces(CommandLists)
      BY <1>8
    <3>2. Then(r, y).cmds = r.cmds \o y.cmds /\ Then(r, y).over = y.over
      BY <2>1, <3>1, ThenGoesOn
    <3> QED
      BY <2>1, <3>2
  <2>3. y.cmds \in Seq(CommandLists)
    BY <1>8, PieceTypes
  <2> DEFINE yc == y.cmds
  <2>4. <<>> \o yc = yc
    <3> HIDE DEF yc
    <3> QED
      BY <2>3, ConcatEmptySeq DEF yc
  <2> QED
    BY <1>5, <2>2, <2>4 DEF Means
<1>12. Between(From(s, e + 1) \o t, None, me, ran, y)
  BY <1>10, <1>11 DEF Between
<1> QED
  BY <1>10, <1>12 DEF Framed

(* What is meant begins with what was run. *)
Extends(me, ran) == \E rest \in Seq(CommandLists) : me.cmds = ran \o rest

LEMMA FramedExtends ==
  ASSUME NEW todo, NEW cm, cm.args \in Seq(Args), NEW me, NEW ran, Framed(todo, cm, me, ran)
  PROVE  Extends(me, ran)
<1>1. PICK st \in Input :
        \/ Between(todo, cm, me, ran, st)
        \/ \E b \in Bodies : Within(todo, cm, me, ran, b, st)
        \/ \E b \in Bodies : \E l \in Lines : Doomed(todo, cm, me, ran, b, l, st)
  BY DEF Framed
<1>2. st \in Pieces(CommandLists)
  BY StreamTypes DEF Input
<1>3. ASSUME NEW p \in Pieces(CommandLists), Means(me, ran, p) PROVE Extends(me, ran)
  BY <1>3, PieceTypes DEF Means, Extends
<1>4. CASE Between(todo, cm, me, ran, st)
  BY <1>2, <1>3, <1>4 DEF Between
<1>5. ASSUME NEW b \in Bodies, Within(todo, cm, me, ran, b, st) PROVE Extends(me, ran)
  <2> DEFINE bc == b.cmds
             c == cm.args \o bc
             p == Piece(<<>>, <<c>>, IsQuit(c))
  <2>1. bc \in Seq(Args)
    BY StreamTypes DEF Bodies
  <2>2. c \in CommandLists
    <3> HIDE DEF bc
    <3> QED
      BY <2>1, ConcatProperties DEF CommandLists
  <2>3. Means(me, ran, Then(p, st))
    BY <1>5 DEF Within
  <2>4. p \in Pieces(CommandLists)
    <3> HIDE DEF c
    <3> QED
      BY <2>2, WholeType
  <2> HIDE DEF p
  <2>5. Then(p, st) \in Pieces(CommandLists)
    BY <1>2, <2>4, ThenType
  <2> QED
    BY <1>3, <2>3, <2>5
<1>6. ASSUME NEW b \in Bodies, NEW l \in Lines, Doomed(todo, cm, me, ran, b, l, st)
      PROVE  Extends(me, ran)
  BY <1>3, <1>6, BrokenType DEF Doomed
<1> QED
  BY <1>1, <1>4, <1>5, <1>6

(* With all input read, all that is meant was run. *)
LEMMA AllRead ==
  ASSUME NEW me, NEW ran \in Seq(CommandLists), Framed(<<>>, None, me, ran)
  PROVE  me.cmds = ran
<1>1. PICK st \in Input :
        \/ Between(<<>>, None, me, ran, st)
        \/ \E b \in Bodies : Within(<<>>, None, me, ran, b, st)
        \/ \E b \in Bodies : \E l \in Lines : Doomed(<<>>, None, me, ran, b, l, st)
  BY DEF Framed
<1>2. ASSUME NEW b \in Bodies PROVE Len(b.cmds) \in Nat
  BY StreamTypes, LenProperties DEF Bodies
<1>3. ASSUME NEW b \in Bodies PROVE ~Within(<<>>, None, me, ran, b, st)
  BY <1>2, NoCommand DEF Within
<1>4. ASSUME NEW b \in Bodies, NEW l \in Lines PROVE ~Doomed(<<>>, None, me, ran, b, l, st)
  <2>1. ~(None.left > Len(b.cmds))
    BY <1>2, NoCommand
  <2> QED
    BY <2>1 DEF Doomed
<1>5. st.units = <<>> /\ Means(me, ran, st)
  BY <1>1, <1>3, <1>4 DEF Between
<1>6. st = Nothing
  <2> SUFFICES ASSUME st # Nothing PROVE FALSE
    OBVIOUS
  <2>1. PICK r \in Requests : \E y \in Input : st = Then(r, y)
    BY StreamFront DEF Input
  <2>2. PICK y \in Input : st = Then(r, y)
    BY <2>1
  <2> DEFINE ru == r.units
             yu == y.units
  <2>3. r \in Pieces(CommandLists) /\ ru \in Seq(Units) /\ readLine(ru) # 0
    BY RequestLine
  <2>4. y \in Pieces(CommandLists) /\ yu \in Seq(Units)
    BY StreamTypes DEF Input
  <2>5. ru \o yu = <<>>
    BY <1>5, <2>2, <2>3, <2>4, ThenFields
  <2> HIDE DEF ru, yu
  <2>6. Len(ru \o yu) = Len(ru) + Len(yu) /\ Len(ru) \in Nat /\ Len(yu) \in Nat
    BY <2>3, <2>4, CatItems
  <2>7. readLine(ru) \in 1..Len(ru)
    BY <2>3, LineEnds DEF EndsAt
  <2>8. Len(ru \o yu) = 0
    BY <2>5
  <2> QED
    BY <2>6, <2>7, <2>8
<1>7. me.cmds = ran \o <<>>
  BY <1>5, <1>6, NothingType DEF Means
<1> QED
  BY <1>7, ConcatEmptySeq

(* A whole command is handled. *)
LEMMA Handled ==
  ASSUME NEW todo \in Seq(Units), NEW cm, cm.args \in Seq(Args), cm.left = 0,
         NEW me, NEW ran \in Seq(CommandLists), Framed(todo, cm, me, ran)
  PROVE  /\ Extends(me, Append(ran, cm.args))
         /\ cm.args[1] # <<QUIT>> => Framed(todo, None, me, Append(ran, cm.args))
<1>1. PICK st \in Input :
        \/ Between(todo, cm, me, ran, st)
        \/ \E b \in Bodies : Within(todo, cm, me, ran, b, st)
        \/ \E b \in Bodies : \E l \in Lines : Doomed(todo, cm, me, ran, b, l, st)
  BY DEF Framed
<1>2. ~Between(todo, cm, me, ran, st)
  BY NoCommand DEF Between
<1>3. ASSUME NEW b \in Bodies PROVE Len(b.cmds) \in Nat
  BY StreamTypes, LenProperties DEF Bodies
<1>4. ASSUME NEW b \in Bodies, NEW l \in Lines PROVE ~Doomed(todo, cm, me, ran, b, l, st)
  <2>1. ~(cm.left > Len(b.cmds))
    BY <1>3
  <2> QED
    BY <2>1 DEF Doomed
<1>5. PICK b \in Bodies : Within(todo, cm, me, ran, b, st)
  BY <1>1, <1>2, <1>4
<1>6. b = Nothing
  <2> SUFFICES ASSUME b # Nothing PROVE FALSE
    OBVIOUS
  <2>1. PICK e \in Elements : \E d \in Bodies : Len(b.cmds) = Len(d.cmds) + 1
    BY FirstElement
  <2>2. PICK d \in Bodies : Len(b.cmds) = Len(d.cmds) + 1
    BY <2>1
  <2>3. Len(b.cmds) = 0 /\ Len(d.cmds) \in Nat
    BY <1>3, <1>5 DEF Within
  <2> QED
    BY <2>2, <2>3
<1> DEFINE c == cm.args
           p == Piece(<<>>, <<c>>, IsQuit(c))
           su == st.units
           sc == st.cmds
           new == Append(ran, c)
<1>7. st \in Pieces(CommandLists) /\ su \in Seq(Units) /\ sc \in Seq(CommandLists)
  BY StreamTypes DEF Input
<1>8. c \in CommandLists /\ c \o <<>> = c
  BY ConcatEmptySeq DEF CommandLists
<1>9. Nothing.units = <<>> /\ Nothing.cmds = <<>>
  BY NothingType
<1>10. todo = su /\ Means(me, ran, Then(p, st))
  <2>1. <<>> \o su = su
    <3> HIDE DEF su
    <3> QED
      BY <1>7, ConcatEmptySeq
  <2>2. cm.args \o b.cmds = c /\ todo = b.units \o su /\ b.units = <<>>
    BY <1>5, <1>6, <1>8, <1>9 DEF Within
  <2> QED
    BY <1>5, <2>1, <2>2 DEF Within
<1>11. p \in Pieces(CommandLists) /\ p.cmds = <<c>> /\ p.over = IsQuit(c)
  <2> HIDE DEF c
  <2> QED
    BY <1>8, WholeType
<1>12. new \in Seq(CommandLists) /\ new = ran \o <<c>> /\ <<c>> \in Seq(CommandLists)
  <2> HIDE DEF c
  <2> QED
    BY <1>8, AppendIsConcat, AppendProperties
<1>13. CASE IsQuit(c) = TRUE
  <2>1. cm.args[1] = <<QUIT>>
    BY <1>13 DEF IsQuit
  <2>2. me.cmds = ran \o <<c>>
    <3>1. Then(p, st).cmds = p.cmds
      <4>1. p.over = TRUE
        BY <1>11, <1>13
      <4> HIDE DEF p
      <4> QED
        BY <1>7, <1>11, <4>1, ThenStops
    <3> QED
      BY <1>10, <1>11, <3>1 DEF Means
  <2>3. me.cmds = new \o <<>>
    <3> HIDE DEF new
    <3>1. new \o <<>> = new
      BY <1>12, ConcatEmptySeq
    <3> QED
      BY <1>12, <2>2, <3>1
  <2> HIDE DEF new
  <2>4. Extends(me, new)
    BY <2>3, EmptySeq DEF Extends
  <2> QED
    BY <2>1, <2>4 DEF new
<1>14. CASE IsQuit(c) # TRUE
  <2>1. Then(p, st).cmds = <<c>> \o sc /\ Then(p, st).over = st.over
    <3>1. p.over # TRUE
      BY <1>11, <1>14
    <3> HIDE DEF p
    <3>2. Then(p, st).cmds = p.cmds \o st.cmds /\ Then(p, st).over = st.over
      BY <1>7, <1>11, <3>1, ThenGoesOn
    <3> QED
      BY <1>11, <3>2
  <2>2. me.cmds = new \o sc
    <3>1. me.cmds = ran \o (<<c>> \o sc)
      BY <1>10, <2>1 DEF Means
    <3> DEFINE z == <<c>>
    <3>2. z \in Seq(CommandLists)
      BY <1>12
    <3> HIDE DEF z, sc
    <3>3. (ran \o z) \o sc = ran \o (z \o sc)
      BY <1>7, <3>2, ListsAssociative, SMTT(30)
    <3> QED
      BY <1>12, <3>1, <3>3 DEF z
  <2>3. Means(me, new, st)
    <3>1. me.over = st.over
      BY <1>10, <2>1 DEF Means
    <3> HIDE DEF new
    <3> QED
      BY <2>2, <3>1 DEF Means
  <2>4. Extends(me, new)
    <3> HIDE DEF new, sc
    <3> QED
      BY <1>7, <2>2 DEF Extends
  <2> HIDE DEF new
  <2>5. Framed(todo, None, me, new)
    <3>1. Between(todo, None, me, new, st)
      BY <1>10, <2>3 DEF Between
    <3> QED
      BY <3>1 DEF Framed
  <2> QED
    BY <2>4, <2>5 DEF new
<1> QED
  BY <1>13, <1>14

-----------------------------------------------------------------------------
(* The invariant of one connection: its network and read buffer, the       *)
(* command it is at, its replies, what its client meant and its loop.      *)

Commands == [left : Int, args : Seq(Args)]
Reading == {"none", "start", "loop"}

KeptAt(n, b, cm, o, g, me, lp) ==
  /\ n \in Args /\ b \in Args /\ cm \in Commands
  /\ o \in Seq(CommandLists) /\ g \in Seq(CommandLists) /\ me \in Meanings
  /\ Extends(me, g \o o)
  /\ lp \in Reading => Framed(b \o n, cm, me, g \o o)

LEMMA FromType ==
  ASSUME NEW s \in Seq(Units), NEW i \in Nat, i > 0
  PROVE  From(s, i) \in Seq(Units)
<1>1. Len(s) \in Nat
  BY LenProperties
<1>2. ASSUME NEW j \in i..Len(s) PROVE s[j] \in Units
  <2>1. j \in 1..Len(s)
    BY <1>1
  <2> QED
    BY <2>1, ElementOfSeq
<1>3. i \in Int /\ Len(s) \in Int
  BY <1>1
<1> QED
  BY <1>2, <1>3, SubSeqProperties DEF From

LEMMA KeptAtFirst ==
  KeptAt(<<>>, <<>>, None, <<>>, <<>>, [cmds |-> <<>>, over |-> FALSE], "none")
<1> DEFINE me == [cmds |-> <<>>, over |-> FALSE]
           e == <<>>
<1>1. e \in Seq(CommandLists) /\ e \in Args /\ e \in Seq(Args)
  BY EmptySeq DEF Args
<1>2. e \o e = e
  BY <1>1, ConcatEmptySeq
<1>3. me.cmds = e /\ me.over = FALSE /\ me \in Meanings
  BY <1>1 DEF Meanings
<1>4. Nothing \in Input /\ Nothing.units = e /\ Nothing.cmds = e /\ Nothing.over = FALSE
  BY StreamNothing, NothingType DEF Input
<1>5. None \in Commands
  BY <1>1 DEF None, Command, Commands
<1> SUFFICES KeptAt(e, e, None, e, e, me, "none")
  OBVIOUS
<1> HIDE DEF me, e
<1>6. Between(e \o e, None, me, e \o e, Nothing)
  BY <1>2, <1>3, <1>4 DEF Between, Means
<1>7. Framed(e \o e, None, me, e \o e)
  BY <1>4, <1>6 DEF Framed
<1>8. Extends(me, e \o e)
  BY <1>1, <1>2, <1>3 DEF Extends
<1> QED
  BY <1>1, <1>3, <1>5, <1>7, <1>8 DEF KeptAt

(* The loop ends, or is entered. *)
LEMMA KeptAtLoop ==
  ASSUME NEW n, NEW b, NEW cm, NEW o, NEW g, NEW me, NEW lp, KeptAt(n, b, cm, o, g, me, lp),
         NEW lq, lq \in Reading => lp \in Reading
  PROVE  KeptAt(n, b, cm, o, g, me, lq)
BY DEF KeptAt

(* The reader has input or a command that it had not; replies are as they  *)
(* were.                                                                   *)
LEMMA KeptAtRead ==
  ASSUME NEW n, NEW b, NEW cm, NEW o, NEW g, NEW me, KeptAt(n, b, cm, o, g, me, "loop"),
         NEW n1 \in Args, NEW b1 \in Args, NEW cm1 \in Commands,
         Framed(b1 \o n1, cm1, me, g \o o)
  PROVE  KeptAt(n1, b1, cm1, o, g, me, "loop")
BY DEF KeptAt

LEMMA KeptAtTypes ==
  ASSUME NEW n, NEW b, NEW cm, NEW o, NEW g, NEW me, NEW lp, KeptAt(n, b, cm, o, g, me, lp)
  PROVE  /\ n \in Seq(Units) /\ b \in Seq(Units) /\ cm.left \in Int /\ cm.args \in Seq(Args)
         /\ o \in Seq(CommandLists) /\ g \in Seq(CommandLists) /\ me \in Meanings
         /\ g \o o \in Seq(CommandLists) /\ b \o n \in Seq(Units)
<1>1. /\ n \in Seq(Units) /\ b \in Seq(Units)
      /\ o \in Seq(CommandLists) /\ g \in Seq(CommandLists) /\ me \in Meanings
  BY DEF KeptAt, Args
<1>2. cm.left \in Int /\ cm.args \in Seq(Args)
  BY DEF KeptAt, Commands
<1>3. g \o o \in Seq(CommandLists)
  BY <1>1, CatItems
<1>4. b \o n \in Seq(Units)
  BY <1>1, CatItems
<1> QED
  BY <1>1, <1>2, <1>3, <1>4

LEMMA KeptAtSends ==
  ASSUME NEW n, NEW b, NEW cm, NEW o, NEW g, NEW me, NEW lp \in Reading,
         KeptAt(n, b, cm, o, g, me, lp), NEW q \in Input
  PROVE  KeptAt(n \o q.units, b, cm, o, g, With(me, q), lp)
<1> DEFINE qu == q.units
           qc == q.cmds
           ran == g \o o
           w == With(me, q)
<1>1. q \in Pieces(CommandLists) /\ qu \in Seq(Units) /\ qc \in Seq(CommandLists) /\ q.over \in BOOLEAN
  BY StreamTypes DEF Input
<1>2. /\ n \in Seq(Units) /\ b \in Seq(Units) /\ cm.args \in Seq(Args)
      /\ me \in Meanings /\ ran \in Seq(CommandLists) /\ b \o n \in Seq(Units)
  BY KeptAtTypes
<1>3. Framed(b \o n, cm, me, ran)
  BY DEF KeptAt
<1>4. Framed((b \o n) \o qu, cm, w, ran)
  <2> DEFINE todo == b \o n
  <2>1. todo \in Seq(Units) /\ Framed(todo, cm, me, ran)
    BY <1>2, <1>3
  <2> HIDE DEF todo, ran
  <2>2. Framed(todo \o q.units, cm, With(me, q), ran)
    BY <1>2, <2>1, FramedMore
  <2> QED
    BY <2>2 DEF todo
<1>5. w \in Meanings
  <2>1. CASE me.over = TRUE
    BY <1>2, <2>1 DEF With
  <2>2. CASE me.over # TRUE
    <3> DEFINE mc == me.cmds
               x == mc \o qc
               qo == q.over
    <3>1. mc \in Seq(CommandLists)
      BY <1>2 DEF Meanings
    <3>2. x \in Seq(CommandLists)
      <4> HIDE DEF mc, qc
      <4> QED
        BY <1>1, <3>1, CatItems
    <3>3. w = [cmds |-> x, over |-> qo] /\ qo \in BOOLEAN
      BY <1>1, <2>2 DEF With
    <3> HIDE DEF x, w, qo
    <3> QED
      BY <3>2, <3>3 DEF Meanings
  <2> QED
    BY <2>1, <2>2
<1> SUFFICES KeptAt(n \o qu, b, cm, o, g, w, lp)
  OBVIOUS
<1> HIDE DEF qu, w
<1>6. (b \o n) \o qu = b \o (n \o qu) /\ n \o qu \in Args
  <2>1. n \o qu \in Seq(Units)
    BY <1>1, <1>2, CatItems
  <2>2. n \in Seq(Units) /\ b \in Seq(Units) /\ qu \in Seq(Units)
    BY <1>1, <1>2
  <2>3. (b \o n) \o qu = b \o (n \o qu)
    BY <2>2, UnitsAssociative
  <2> QED
    BY <2>1, <2>3 DEF Args
<1>7. Framed(b \o (n \o qu), cm, w, ran)
  BY <1>4, <1>6
<1>8. Extends(w, ran)
  <2> HIDE DEF ran
  <2> QED
    BY <1>2, <1>7, FramedExtends
<1> QED
  BY <1>5, <1>6, <1>7, <1>8 DEF KeptAt

LEMMA KeptAtFill ==
  ASSUME NEW n, NEW b, NEW cm, NEW o, NEW g, NEW me, KeptAt(n, b, cm, o, g, me, "loop"),
         NEW p \in 1..Len(n)
  PROVE  KeptAt(From(n, p + 1), b \o SubSeq(n, 1, p), cm, o, g, me, "loop")
<1>1. n \in Seq(Units) /\ b \in Seq(Units)
  BY KeptAtTypes
<1>2. Len(n) \in Nat /\ p \in Nat
  BY <1>1, LenProperties
<1> DEFINE x == SubSeq(n, 1, p)
           y == From(n, p + 1)
<1>3. x \o y = n
  <2>1. 1 \in 1..(Len(n) + 1) /\ p \in (1 - 1)..Len(n) /\ Len(n) \in p..Len(n)
    BY <1>2
  <2>2. x \o y = SubSeq(n, 1, Len(n))
    BY <1>1, <2>1, ConcatAdjacentSubSeq DEF From
  <2> QED
    BY <1>1, <2>2, SubSeqFull
<1>4. x \in Seq(Units)
  <2>1. ASSUME NEW j \in 1..p PROVE n[j] \in Units
    <3>1. j \in 1..Len(n)
      BY <1>2
    <3> QED
      BY <1>1, <3>1, ElementOfSeq
  <2>2. 1 \in Int /\ p \in Int
    BY <1>2
  <2> QED
    BY <2>1, <2>2, SubSeqProperties
<1>5. y \in Seq(Units)
  <2>1. p + 1 \in Nat /\ p + 1 > 0
    BY <1>2
  <2> QED
    BY <1>1, <2>1, FromType
<1> SUFFICES KeptAt(y, b \o x, cm, o, g, me, "loop")
  OBVIOUS
<1> HIDE DEF x, y
<1>6. b \o x \in Args /\ y \in Args
  BY <1>1, <1>4, <1>5, CatItems DEF Args
<1>7. (b \o x) \o y = b \o (x \o y)
  BY <1>1, <1>4, <1>5, UnitsAssociative
<1>8. Framed((b \o x) \o y, cm, me, g \o o)
  BY <1>3, <1>7 DEF KeptAt, Reading
<1>9. cm \in Commands
  BY DEF KeptAt
<1> QED
  BY <1>6, <1>8, <1>9, KeptAtRead

LEMMA KeptAtArray ==
  ASSUME NEW n, NEW b, NEW o, NEW g, NEW me, KeptAt(n, b, None, o, g, me, "loop"),
         IsHeader(b, "*"), b[1].n > 0
  PROVE  KeptAt(n, From(b, 3), Command(b[1].n, <<>>), o, g, me, "loop")
<1>1. n \in Seq(Units) /\ b \in Seq(Units)
  BY KeptAtTypes
<1>2. b[1].n \in Int
  <2>1. readLine(b) # 0
    BY DEF IsHeader
  <2>2. readLine(b) \in 1..Len(b) /\ Len(b) \in Nat
    BY <1>1, <2>1, LineEnds, LenProperties DEF EndsAt
  <2>3. 1 \in 1..Len(b)
    BY <2>2
  <2>4. b[1] \in Units
    BY <1>1, <2>3, ElementOfSeq
  <2> QED
    BY <2>4 DEF Units
<1> DEFINE cm == Command(b[1].n, <<>>)
           f == From(b, 3)
           ran == g \o o
<1>3. cm \in Commands
  BY <1>2, EmptySeq DEF Command, Commands
<1>4. f \in Seq(Units)
  BY <1>1, FromType
<1>5. Framed(b \o n, None, me, ran)
  BY DEF KeptAt, Reading
<1>6. Framed(f \o n, cm, me, ran)
  <2> HIDE DEF ran
  <2> QED
    BY <1>1, <1>5, ArrayRead
<1> HIDE DEF f, cm
<1>7. n \in Args /\ f \in Args
  BY <1>1, <1>4 DEF Args
<1>8. KeptAt(n, f, cm, o, g, me, "loop")
  BY <1>3, <1>6, <1>7, KeptAtRead
<1> QED
  BY <1>8 DEF f, cm

(* What BulkRead shows. *)
BulkTaken(s, t, cm, me, ran, end) ==
  /\ SubSeq(s, 3, end - 1) \in Args /\ From(s, end + 1) \in Seq(Units)
  /\ Framed(From(s, end + 1) \o t, Command(cm.left - 1, Append(cm.args, SubSeq(s, 3, end - 1))),
            me, ran)

LEMMA KeptAtBulk ==
  ASSUME NEW n, NEW b, NEW cm, NEW o, NEW g, NEW me, KeptAt(n, b, cm, o, g, me, "loop"),
         cm.left > 0, IsHeader(b, "$"), ~(Len(b) < b[1].n + 3),
         NEW end, end = IF b[1].n < 0 THEN 2 ELSE b[1].n + 3
  PROVE  KeptAt(n, From(b, end + 1), Command(cm.left - 1, Append(cm.args, SubSeq(b, 3, end - 1))),
                o, g, me, "loop")
<1>1. n \in Seq(Units) /\ b \in Seq(Units) /\ cm.left \in Int /\ cm.args \in Seq(Args)
  BY KeptAtTypes
<1> DEFINE ran == g \o o
           a == SubSeq(b, 3, end - 1)
           f == From(b, end + 1)
           args == cm.args
           x == Append(args, a)
           new == Command(cm.left - 1, x)
<1>2. Framed(b \o n, cm, me, ran)
  BY DEF KeptAt, Reading
<1>3. BulkTaken(b, n, cm, me, ran, end)
  <2> HIDE DEF ran
  <2> QED
    BY <1>1, <1>2, BulkRead, SMTT(30) DEF BulkTaken
<1>4. a \in Args /\ f \in Seq(Units) /\ Framed(f \o n, new, me, ran)
  BY <1>3 DEF BulkTaken
<1>5. x \in Seq(Args)
  <2>1. args \in Seq(Args)
    BY <1>1
  <2> HIDE DEF a, args
  <2> QED
    BY <1>4, <2>1, AppendProperties
<1>6. new \in Commands
  <2>1. cm.left - 1 \in Int
    BY <1>1
  <2> HIDE DEF x
  <2> QED
    BY <1>5, <2>1 DEF Command, Commands
<1> SUFFICES KeptAt(n, f, new, o, g, me, "loop")
  OBVIOUS
<1> HIDE DEF f, new, a, x
<1>7. n \in Args /\ f \in Args
  BY <1>1, <1>4 DEF Args
<1> QED
  BY <1>4, <1>6, <1>7, KeptAtRead

LEMMA KeptAtInline ==
  ASSUME NEW n, NEW b, NEW o, NEW g, NEW me, KeptAt(n, b, None, o, g, me, "loop"),
         readLine(b) > 1, b[1].is # "*",
         NEW c, c = [i \in 1..(readLine(b) - 1) |-> <<b[i]>>]
  PROVE  KeptAt(n, From(b, readLine(b) + 1), Command(0, c), o, g, me, "loop")
<1>1. n \in Seq(Units) /\ b \in Seq(Units)
  BY KeptAtTypes
<1> DEFINE ran == g \o o
           f == From(b, readLine(b) + 1)
           new == Command(0, c)
<1>2. Framed(b \o n, None, me, ran)
  BY DEF KeptAt, Reading
<1>3. c \in CommandLists /\ f \in Seq(Units) /\ Framed(f \o n, new, me, ran)
  <2> HIDE DEF ran
  <2> QED
    BY <1>1, <1>2, InlineRead
<1>4. new \in Commands
  BY <1>3 DEF Command, Commands, CommandLists
<1> SUFFICES KeptAt(n, f, new, o, g, me, "loop")
  OBVIOUS
<1> HIDE DEF f, new
<1>5. n \in Args /\ f \in Args
  BY <1>1, <1>3 DEF Args
<1> QED
  BY <1>3, <1>4, <1>5, KeptAtRead

LEMMA KeptAtSkip ==
  ASSUME NEW n, NEW b, NEW o, NEW g, NEW me, KeptAt(n, b, None, o, g, me, "loop"),
         readLine(b) = 1 \/ (IsHeader(b, "*") /\ b[1].n <= 0)
  PROVE  KeptAt(n, From(b, readLine(b) + 1), None, o, g, me, "loop")
<1>1. n \in Seq(Units) /\ b \in Seq(Units)
  BY KeptAtTypes
<1> DEFINE ran == g \o o
           f == From(b, readLine(b) + 1)
<1>2. Framed(b \o n, None, me, ran) /\ None \in Commands
  BY DEF KeptAt, Reading
<1>3. f \in Seq(Units) /\ Framed(f \o n, None, me, ran)
  <2> HIDE DEF ran
  <2> QED
    BY <1>1, <1>2, SkipRead
<1> SUFFICES KeptAt(n, f, None, o, g, me, "loop")
  OBVIOUS
<1> HIDE DEF f
<1>4. n \in Args /\ f \in Args
  BY <1>1, <1>3 DEF Args
<1> QED
  BY <1>2, <1>3, <1>4, KeptAtRead

LEMMA KeptAtHandled ==
  ASSUME NEW n, NEW b, NEW cm, NEW o, NEW g, NEW me, KeptAt(n, b, cm, o, g, me, "loop"),
         cm.left = 0, NEW lp, lp = "loop" => cm.args[1] # <<QUIT>>,
         lp \in {"loop", "closing"}, NEW o1, NEW g1,
         \/ g1 = g \o Append(o, cm.args) /\ o1 = <<>>
         \/ g1 = g /\ o1 = Append(o, cm.args)
  PROVE  KeptAt(n, b, None, o1, g1, me, lp)
<1> DEFINE c == cm.args
           ran == g \o o
           x == Append(o, c)
           z == <<c>>
           todo == b \o n
<1>1. /\ n \in Seq(Units) /\ b \in Seq(Units) /\ c \in Seq(Args) /\ me \in Meanings
      /\ o \in Seq(CommandLists) /\ g \in Seq(CommandLists) /\ ran \in Seq(CommandLists)
      /\ todo \in Seq(Units)
  BY KeptAtTypes
<1>2. Framed(todo, cm, me, ran)
  BY DEF KeptAt, Reading
<1>3. Extends(me, Append(ran, c)) /\ (c[1] # <<QUIT>> => Framed(todo, None, me, Append(ran, c)))
  <2> HIDE DEF ran, todo
  <2> QED
    BY <1>1, <1>2, Handled
<1>4. c \in CommandLists
  BY <1>1 DEF CommandLists
<1>5. z \in Seq(CommandLists)
  <2> HIDE DEF c
  <2> QED
    BY <1>4
<1>6. x \in Seq(CommandLists) /\ x = o \o z /\ Append(ran, c) = ran \o z
  <2> HIDE DEF c, ran
  <2>1. x \in Seq(CommandLists) /\ x = o \o <<c>>
    BY <1>1, <1>4, AppendProperties, AppendIsConcat
  <2>2. Append(ran, c) = ran \o <<c>>
    BY <1>1, <1>4, AppendIsConcat
  <2> QED
    BY <2>1, <2>2
<1>7. g \o x = Append(ran, c) /\ g \o x \in Seq(CommandLists)
  <2> HIDE DEF z, x, c
  <2>0. g \in Seq(CommandLists) /\ o \in Seq(CommandLists) /\ z \in Seq(CommandLists)
    BY <1>1, <1>5
  <2>1. (g \o o) \o z = g \o (o \o z)
    BY <2>0, ListsAssociative
  <2>2. g \o x \in Seq(CommandLists)
    BY <1>1, <1>6, CatItems
  <2> QED
    BY <1>6, <2>1, <2>2
<1>8. /\ o1 \in Seq(CommandLists) /\ g1 \in Seq(CommandLists)
      /\ g1 \o o1 = g \o x
  <2>1. CASE g1 = g \o x /\ o1 = <<>>
    <3> DEFINE y == g \o x
    <3>1. y \in Seq(CommandLists)
      BY <1>7
    <3>2. y \o <<>> = y
      <4> HIDE DEF y
      <4> QED
        BY <3>1, ConcatEmptySeq
    <3> QED
      BY <1>7, <2>1, <3>2, EmptySeq
  <2>2. CASE g1 = g /\ o1 = x
    BY <1>1, <1>6, <2>2
  <2> QED
    BY <2>1, <2>2
<1>9. lp \in Reading => Framed(todo, None, me, g1 \o o1)
  BY <1>3, <1>7, <1>8 DEF Reading
<1>10. Extends(me, g1 \o o1)
  BY <1>3, <1>7, <1>8
<1>11. None \in Commands
  BY EmptySeq DEF None, Command, Commands
<1> QED
  BY <1>1, <1>8, <1>9, <1>10, <1>11 DEF KeptAt, Args

(* What the invariant says of a client. *)
AsSent(n, b, cm, ran, cmds, lp) ==
  /\ IsPrefix(ran, cmds)
  /\ lp = "loop" /\ cm = None /\ n = <<>> /\ b = <<>> => ran = cmds

LEMMA KeptAtSent ==
  ASSUME NEW n, NEW b, NEW cm, NEW o, NEW g, NEW me, NEW lp, KeptAt(n, b, cm, o, g, me, lp)
  PROVE  AsSent(n, b, cm, g \o o, me.cmds, lp)
<1> DEFINE ran == g \o o
           mc == me.cmds
<1>1. ran \in Seq(CommandLists) /\ n \in Seq(Units)
  BY KeptAtTypes
<1>2. IsPrefix(ran, mc)
  <2>1. PICK rest \in Seq(CommandLists) : mc = ran \o rest
    BY DEF KeptAt, Extends
  <2> HIDE DEF ran, mc
  <2>2. Len(mc) = Len(ran) + Len(rest) /\ Len(ran) \in Nat /\ Len(rest) \in Nat
    BY <1>1, <2>1, CatItems
  <2>3. SubSeq(ran, 1, Len(ran)) = SubSeq(mc, 1, Len(ran))
    <3>1. CASE Len(ran) = 0
      <4>1. Len(ran) \in Int /\ Len(ran) < 1 /\ 1 \in Int
        BY <3>1
      <4>2. SubSeq(ran, 1, Len(ran)) = <<>> /\ SubSeq(mc, 1, Len(ran)) = <<>>
        BY <4>1, SubSeqEmpty
      <4> QED
        BY <4>2
    <3>2. CASE Len(ran) # 0
      <4>1. 1 \in 1..Len(ran) /\ Len(ran) \in 1..Len(ran)
        BY <2>2, <3>2
      <4> QED
        BY <1>1, <2>1, <4>1, SubSeqOfConcat1
    <3> QED
      BY <3>1, <3>2
  <2> QED
    BY <2>2, <2>3 DEF IsPrefix
<1>3. ASSUME lp = "loop", cm = None, n = <<>>, b = <<>> PROVE ran = mc
  <2>1. <<>> \o <<>> = <<>>
    <3>1. <<>> \in Seq(Units)
      BY EmptySeq
    <3> QED
      BY <3>1, ConcatEmptySeq
  <2>2. Framed(<<>>, None, me, ran)
    <3>1. Framed(b \o n, cm, me, ran)
      BY <1>3 DEF KeptAt, Reading
    <3> QED
      BY <1>3, <2>1, <3>1
  <2> HIDE DEF ran
  <2> QED
    BY <1>1, <2>2, AllRead
<1> QED
  BY <1>2, <1>3 DEF AsSent

-----------------------------------------------------------------------------
(* Every connection keeps its invariant. *)

Kept(k) == KeptAt(net[k], buf[k], cmd[k], out[k], got[k], meant[k], loop[k])

FrameInv ==
  /\ DOMAIN net = Conns /\ DOMAIN buf = Conns /\ DOMAIN cmd = Conns
  /\ DOMAIN out = Conns /\ DOMAIN got = Conns /\ DOMAIN meant = Conns
  /\ DOMAIN loop = Conns
  /\ \A k \in Conns : Kept(k)

LEMMA FrameInit == Init => FrameInv
<1> SUFFICES ASSUME Init PROVE FrameInv
  OBVIOUS
<1>1. ASSUME NEW k \in Conns PROVE Kept(k)
  BY KeptAtFirst DEF Kept, Init, ConnInit
<1> QED
  BY <1>1 DEF FrameInv, Init, ConnInit

Elsewhere(new, old, k) == DOMAIN new = Conns /\ \A j \in Conns \ {k} : new[j] = old[j]

LEMMA Replaced ==
  ASSUME NEW old, DOMAIN old = Conns, NEW k \in Conns, NEW x
  PROVE  /\ Elsewhere([old EXCEPT ![k] = x], old, k) /\ [old EXCEPT ![k] = x][k] = x
         /\ Elsewhere(old, old, k)
BY DEF Elsewhere

(* A step of one connection leaves the others alone. *)
LEMMA OneConn ==
  ASSUME FrameInv, NEW k \in Conns,
         Elsewhere(net', net, k), Elsewhere(buf', buf, k), Elsewhere(cmd', cmd, k),
         Elsewhere(out', out, k), Elsewhere(got', got, k), Elsewhere(meant', meant, k),
         Elsewhere(loop', loop, k), Kept(k)'
  PROVE  FrameInv'
<1>1. /\ DOMAIN net' = Conns /\ DOMAIN buf' = Conns /\ DOMAIN cmd' = Conns
      /\ DOMAIN out' = Conns /\ DOMAIN got' = Conns /\ DOMAIN meant' = Conns
      /\ DOMAIN loop' = Conns
  BY DEF Elsewhere
<1>2. ASSUME NEW j \in Conns PROVE Kept(j)'
  <2>1. CASE j = k
    BY <2>1
  <2>2. CASE j # k
    <3>1. /\ net'[j] = net[j] /\ buf'[j] = buf[j] /\ cmd'[j] = cmd[j] /\ out'[j] = out[j]
          /\ got'[j] = got[j] /\ meant'[j] = meant[j] /\ loop'[j] = loop[j]
      BY <2>2 DEF Elsewhere
    <3>2. Kept(j)
      BY DEF FrameInv
    <3> QED
      BY <3>1, <3>2 DEF Kept
  <2> QED
    BY <2>1, <2>2
<1> QED
  BY <1>1, <1>2 DEF FrameInv

LEMMA ClientFrames ==
  ASSUME Conforming, Inv, FrameInv, NEW k \in Conns, ClientSends(k)
  PROVE  FrameInv'
<1>1. loop[k] \in Reading
  BY DEF ClientSends, Inv, TypeInv, LoopStates, Reading
<1>2. PICK f \in Frames :
        /\ net' = [net EXCEPT ![k] = net[k] \o f.units]
        /\ meant' = [meant EXCEPT ![k] = IF meant[k].over THEN meant[k] ELSE
                                          [cmds |-> meant[k].cmds \o f.means, over |-> f.ends]]
  BY DEF ClientSends
<1> DEFINE q == Piece(f.units, f.means, f.ends)
<1>3. q \in Input /\ q.units = f.units /\ q.cmds = f.means /\ q.over = f.ends
  BY DEF Conforming, Piece
<1>4. Kept(k) /\ meant[k] \in Meanings
  BY DEF FrameInv, Kept, KeptAt
<1> DEFINE x == net[k] \o q.units
           w == With(meant[k], q)
<1>5. net' = [net EXCEPT ![k] = x]
  BY <1>2, <1>3
<1>6. meant' = [meant EXCEPT ![k] = w]
  <2>1. meant[k].over \in BOOLEAN
    BY <1>4 DEF Meanings
  <2>2. CASE meant[k].over = TRUE
    BY <1>2, <2>2 DEF With
  <2>3. CASE meant[k].over = FALSE
    BY <1>2, <1>3, <2>3 DEF With
  <2> QED
    BY <2>1, <2>2, <2>3
<1>7. /\ buf' = buf /\ cmd' = cmd /\ out' = out /\ got' = got /\ loop' = loop
  BY DEF ClientSends
<1>8. KeptAt(x, buf[k], cmd[k], out[k], got[k], w, loop[k])
  <2> HIDE DEF q
  <2> QED
    BY <1>1, <1>3, <1>4, KeptAtSends DEF Kept
<1> HIDE DEF q, x, w
<1>9. net'[k] = x /\ meant'[k] = w
  BY <1>5, <1>6 DEF FrameInv
<1>10. Kept(k)'
  BY <1>7, <1>8, <1>9 DEF Kept
<1>11. /\ Elsewhere(net', net, k) /\ Elsewhere(buf', buf, k) /\ Elsewhere(cmd', cmd, k)
       /\ Elsewhere(out', out, k) /\ Elsewhere(got', got, k) /\ Elsewhere(meant', meant, k)
       /\ Elsewhere(loop', loop, k)
  BY <1>5, <1>6, <1>7, Replaced DEF FrameInv
<1> QED
  BY <1>10, <1>11, OneConn

(* Where the reader is, the loop is too. *)
LEMMA ReaderState ==
  ASSUME FrameInv, NEW k \in Conns, loop[k] = "loop"
  PROVE  KeptAt(net[k], buf[k], cmd[k], out[k], got[k], meant[k], "loop")
BY DEF FrameInv, Kept

(* The reader takes input, or a line or a payload of it. *)
LEMMA ReaderFrames ==
  ASSUME FrameInv, NEW k \in Conns, loop[k] = "loop", NEW n, NEW b, NEW cm,
         net'[k] = n, buf'[k] = b, cmd'[k] = cm,
         Elsewhere(net', net, k), Elsewhere(buf', buf, k), Elsewhere(cmd', cmd, k),
         out' = out, got' = got, meant' = meant, loop' = loop,
         KeptAt(n, b, cm, out[k], got[k], meant[k], "loop")
  PROVE  FrameInv'
<1>1. Kept(k)'
  BY DEF Kept
<1>2. /\ Elsewhere(out', out, k) /\ Elsewhere(got', got, k) /\ Elsewhere(meant', meant, k)
      /\ Elsewhere(loop', loop, k)
  BY Replaced DEF FrameInv
<1> QED
  BY <1>1, <1>2, OneConn

LEMMA ReadFrames ==
  ASSUME FrameInv, NEW k \in Conns,
         Fill(k) \/ ReadArrayHeader(k) \/ ReadBulk(k) \/ readInlineCommand(k) \/ Skip(k)
  PROVE  FrameInv'
<1>0. /\ DOMAIN net = Conns /\ DOMAIN buf = Conns /\ DOMAIN cmd = Conns
  BY DEF FrameInv
<1>1. loop[k] = "loop"
  BY DEF Fill, ReadArrayHeader, ReadBulk, readInlineCommand, Skip, NeedsMore, Starting, InArray
<1>2. KeptAt(net[k], buf[k], cmd[k], out[k], got[k], meant[k], "loop")
  BY <1>1, ReaderState
<1>3. out' = out /\ got' = got /\ meant' = meant /\ loop' = loop
  BY DEF Fill, ReadArrayHeader, ReadBulk, readInlineCommand, Skip
<1> DEFINE n == net[k]
           b == buf[k]
           cm == cmd[k]
<1>4. CASE Fill(k)
  <2>1. PICK p \in 1..Len(n) :
          /\ buf' = [buf EXCEPT ![k] = b \o SubSeq(n, 1, p)]
          /\ net' = [net EXCEPT ![k] = From(n, p + 1)]
          /\ cmd' = cmd
    BY <1>4 DEF Fill
  <2>2. KeptAt(From(n, p + 1), b \o SubSeq(n, 1, p), cm, out[k], got[k], meant[k], "loop")
    BY <1>2, KeptAtFill
  <2>3. net'[k] = From(n, p + 1) /\ buf'[k] = b \o SubSeq(n, 1, p) /\ cmd'[k] = cm
    BY <1>0, <2>1, Replaced
  <2>4. Elsewhere(net', net, k) /\ Elsewhere(buf', buf, k) /\ Elsewhere(cmd', cmd, k)
    BY <1>0, <2>1, Replaced, ZenonT(40)
  <2> QED
    BY <1>1, <1>3, <2>2, <2>3, <2>4, ReaderFrames
<1>5. CASE ReadArrayHeader(k)
  <2>1. /\ cm = None /\ IsHeader(b, "*") /\ b[1].n > 0
        /\ cmd' = [cmd EXCEPT ![k] = Command(b[1].n, <<>>)]
        /\ buf' = [buf EXCEPT ![k] = From(b, 3)]
        /\ net' = net
    BY <1>5 DEF ReadArrayHeader, Starting
  <2>2. KeptAt(n, From(b, 3), Command(b[1].n, <<>>), out[k], got[k], meant[k], "loop")
    BY <1>2, <2>1, KeptAtArray
  <2>3. net'[k] = n /\ buf'[k] = From(b, 3) /\ cmd'[k] = Command(b[1].n, <<>>)
    BY <1>0, <2>1, Replaced
  <2>4. Elsewhere(net', net, k) /\ Elsewhere(buf', buf, k) /\ Elsewhere(cmd', cmd, k)
    BY <1>0, <2>1, Replaced, ZenonT(40)
  <2> QED
    BY <1>1, <1>3, <2>2, <2>3, <2>4, ReaderFrames
<1>6. CASE ReadBulk(k)
  <2> DEFINE end == IF b[1].n < 0 THEN 2 ELSE b[1].n + 3
             new == Command(cm.left - 1, Append(cm.args, SubSeq(b, 3, end - 1)))
  <2>1. /\ cm.left > 0 /\ IsHeader(b, "$") /\ ~(Len(b) < b[1].n + 3)
        /\ cmd' = [cmd EXCEPT ![k] = new]
        /\ buf' = [buf EXCEPT ![k] = From(b, end + 1)]
        /\ net' = net
    BY <1>6 DEF ReadBulk, InArray, NeedsMore
  <2>2. KeptAt(n, From(b, end + 1), new, out[k], got[k], meant[k], "loop")
    <3> DEFINE e == end
    <3>1. e = IF b[1].n < 0 THEN 2 ELSE b[1].n + 3
      OBVIOUS
    <3> HIDE DEF end
    <3> QED
      BY <1>2, <2>1, <3>1, KeptAtBulk
  <2> HIDE DEF new
  <2>3. net'[k] = n /\ buf'[k] = From(b, end + 1) /\ cmd'[k] = new
    BY <1>0, <2>1, Replaced
  <2>4. Elsewhere(net', net, k) /\ Elsewhere(buf', buf, k) /\ Elsewhere(cmd', cmd, k)
    BY <1>0, <2>1, Replaced, ZenonT(40)
  <2> QED
    BY <1>1, <1>3, <2>2, <2>3, <2>4, ReaderFrames
<1>7. CASE readInlineCommand(k)
  <2> DEFINE e == readLine(b)
             c == [i \in 1..(e - 1) |-> <<b[i]>>]
             new == Command(0, c)
  <2>1. /\ cm = None /\ e > 1 /\ b[1].is # "*"
        /\ cmd' = [cmd EXCEPT ![k] = new]
        /\ buf' = [buf EXCEPT ![k] = From(b, e + 1)]
        /\ net' = net
    BY <1>7 DEF readInlineCommand, Starting
  <2>2. KeptAt(n, From(b, e + 1), new, out[k], got[k], meant[k], "loop")
    BY <1>2, <2>1, KeptAtInline
  <2> HIDE DEF new
  <2>3. net'[k] = n /\ buf'[k] = From(b, e + 1) /\ cmd'[k] = new
    BY <1>0, <2>1, Replaced
  <2>4. Elsewhere(net', net, k) /\ Elsewhere(buf', buf, k) /\ Elsewhere(cmd', cmd, k)
    BY <1>0, <2>1, Replaced, ZenonT(40)
  <2> QED
    BY <1>1, <1>3, <2>2, <2>3, <2>4, ReaderFrames
<1>8. CASE Skip(k)
  <2>1. /\ cm = None /\ (readLine(b) = 1 \/ (IsHeader(b, "*") /\ b[1].n <= 0))
        /\ buf' = [buf EXCEPT ![k] = From(b, readLine(b) + 1)]
        /\ net' = net /\ cmd' = cmd
    BY <1>8 DEF Skip, Starting
  <2>2. KeptAt(n, From(b, readLine(b) + 1), None, out[k], got[k], meant[k], "loop")
    BY <1>2, <2>1, KeptAtSkip
  <2>3. net'[k] = n /\ buf'[k] = From(b, readLine(b) + 1) /\ cmd'[k] = None
    BY <1>0, <2>1, Replaced
  <2>4. Elsewhere(net', net, k) /\ Elsewhere(buf', buf, k) /\ Elsewhere(cmd', cmd, k)
    BY <1>0, <2>1, Replaced, ZenonT(40)
  <2> QED
    BY <1>1, <1>3, <2>2, <2>3, <2>4, ReaderFrames
<1> QED
  BY <1>4, <1>5, <1>6, <1>7, <1>8

(* A command is handled; QUIT, and a flush that fails, end the loop. *)
LEMMA HandleFrames ==
  ASSUME FrameInv, NEW k \in Conns, HandleCommand(k)
  PROVE  FrameInv'
<1>0. /\ DOMAIN out = Conns /\ DOMAIN got = Conns /\ DOMAIN cmd = Conns /\ DOMAIN loop = Conns
      /\ DOMAIN net = Conns /\ DOMAIN buf = Conns /\ DOMAIN meant = Conns
  BY DEF FrameInv
<1> DEFINE c == cmd[k].args
           x == Append(out[k], c)
<1>1. /\ loop[k] = "loop" /\ cmd[k].left = 0 /\ cmd' = [cmd EXCEPT ![k] = None]
      /\ net' = net /\ buf' = buf /\ meant' = meant
  BY DEF HandleCommand
<1>2. \/ /\ got' = [got EXCEPT ![k] = got[k] \o x] /\ out' = [out EXCEPT ![k] = <<>>]
         /\ loop' = [loop EXCEPT ![k] = IF c[1] = <<QUIT>> THEN "closing" ELSE loop[k]]
      \/ /\ got' = got /\ out' = [out EXCEPT ![k] = x]
         /\ \/ loop' = [loop EXCEPT ![k] = "closing"]
            \/ loop' = loop /\ c[1] # <<QUIT>>
  BY DEF HandleCommand, Flushes, Quits
<1>3. KeptAt(net[k], buf[k], cmd[k], out[k], got[k], meant[k], "loop")
  BY <1>1, ReaderState
<1> DEFINE g1 == got'[k]
           o1 == out'[k]
           lp == loop'[k]
<1>4. /\ Elsewhere(got', got, k) /\ Elsewhere(out', out, k) /\ Elsewhere(loop', loop, k)
      /\ lp \in {"loop", "closing"} /\ (lp = "loop" => c[1] # <<QUIT>>)
      /\ \/ g1 = got[k] \o x /\ o1 = <<>>
         \/ g1 = got[k] /\ o1 = x
  <2>1. CASE /\ got' = [got EXCEPT ![k] = got[k] \o x] /\ out' = [out EXCEPT ![k] = <<>>]
             /\ loop' = [loop EXCEPT ![k] = IF c[1] = <<QUIT>> THEN "closing" ELSE loop[k]]
    <3> DEFINE y == got[k] \o x
               z == IF c[1] = <<QUIT>> THEN "closing" ELSE loop[k]
    <3>0. /\ got' = [got EXCEPT ![k] = y] /\ out' = [out EXCEPT ![k] = <<>>]
          /\ loop' = [loop EXCEPT ![k] = z]
      BY <2>1
    <3>1. Elsewhere(got', got, k) /\ g1 = y
      <4> HIDE DEF y
      <4> QED
        BY <1>0, <3>0 DEF Elsewhere
    <3>2. Elsewhere(out', out, k) /\ o1 = <<>>
      BY <1>0, <3>0 DEF Elsewhere
    <3>4. Elsewhere(loop', loop, k) /\ lp = z
      <4> HIDE DEF z
      <4> QED
        BY <1>0, <3>0 DEF Elsewhere
    <3>3. lp \in {"loop", "closing"} /\ (lp = "loop" => c[1] # <<QUIT>>)
      BY <1>1, <3>4
    <3> QED
      BY <3>1, <3>2, <3>3, <3>4
  <2>2. CASE /\ got' = got /\ out' = [out EXCEPT ![k] = x]
             /\ loop' = [loop EXCEPT ![k] = "closing"]
    <3>1. Elsewhere(out', out, k) /\ o1 = x
      <4> HIDE DEF x
      <4> QED
        BY <1>0, <2>2 DEF Elsewhere
    <3>2. Elsewhere(loop', loop, k) /\ lp = "closing"
      BY <1>0, <2>2 DEF Elsewhere
    <3>3. Elsewhere(got', got, k) /\ g1 = got[k]
      BY <1>0, <2>2 DEF Elsewhere
    <3> QED
      BY <3>1, <3>2, <3>3
  <2>3. CASE /\ got' = got /\ out' = [out EXCEPT ![k] = x]
             /\ loop' = loop /\ c[1] # <<QUIT>>
    <3>1. Elsewhere(out', out, k) /\ o1 = x
      <4> HIDE DEF x
      <4> QED
        BY <1>0, <2>3 DEF Elsewhere
    <3>2. Elsewhere(loop', loop, k) /\ lp = "loop"
      BY <1>0, <1>1, <2>3 DEF Elsewhere
    <3>3. Elsewhere(got', got, k) /\ g1 = got[k]
      BY <1>0, <2>3 DEF Elsewhere
    <3> QED
      BY <2>3, <3>1, <3>2, <3>3
  <2> QED
    BY <1>2, <2>1, <2>2, <2>3
<1>5. KeptAt(net[k], buf[k], None, o1, g1, meant[k], lp)
  <2> HIDE DEF o1, g1, lp
  <2> QED
    BY <1>1, <1>3, <1>4, KeptAtHandled
<1>6. cmd'[k] = None /\ Elsewhere(cmd', cmd, k)
  BY <1>0, <1>1, Replaced
<1>7. Elsewhere(net', net, k) /\ Elsewhere(buf', buf, k) /\ Elsewhere(meant', meant, k)
  BY <1>0, <1>1, Replaced
<1>8. Kept(k)'
  BY <1>1, <1>5, <1>6 DEF Kept
<1> QED
  BY <1>4, <1>6, <1>7, <1>8, OneConn

(* The loop of a connection is entered or ends. *)
LEMMA LoopFrames ==
  ASSUME FrameInv, NEW k \in Conns, NEW lp, loop' = [loop EXCEPT ![k] = lp],
         lp \in Reading => loop[k] \in Reading,
         net' = net, buf' = buf, cmd' = cmd, out' = out, got' = got, meant' = meant
  PROVE  FrameInv'
<1>1. /\ DOMAIN net = Conns /\ DOMAIN buf = Conns /\ DOMAIN cmd = Conns
      /\ DOMAIN out = Conns /\ DOMAIN got = Conns /\ DOMAIN meant = Conns /\ DOMAIN loop = Conns
  BY DEF FrameInv
<1>2. Elsewhere(loop', loop, k) /\ loop'[k] = lp
  BY <1>1 DEF Elsewhere
<1>3. /\ Elsewhere(net', net, k) /\ Elsewhere(buf', buf, k) /\ Elsewhere(cmd', cmd, k)
      /\ Elsewhere(out', out, k) /\ Elsewhere(got', got, k) /\ Elsewhere(meant', meant, k)
  BY <1>1 DEF Elsewhere
<1>4. KeptAt(net[k], buf[k], cmd[k], out[k], got[k], meant[k], loop[k])
  BY DEF FrameInv, Kept
<1>5. KeptAt(net[k], buf[k], cmd[k], out[k], got[k], meant[k], lp)
  BY <1>4, KeptAtLoop
<1>6. Kept(k)'
  BY <1>2, <1>5 DEF Kept
<1> QED
  BY <1>2, <1>3, <1>6, OneConn

LEMMA SessionFrames ==
  ASSUME FrameInv, NEW k \in Conns, Session(k)
  PROVE  FrameInv'
<1>1. CASE Fill(k) \/ ReadArrayHeader(k) \/ ReadBulk(k) \/ readInlineCommand(k) \/ Skip(k)
  BY <1>1, ReadFrames
<1>2. CASE HandleCommand(k)
  BY <1>2, HandleFrames
<1>3. CASE Open(k)
  <2>1. /\ loop[k] \in Reading /\ loop' = [loop EXCEPT ![k] = "loop"]
        /\ net' = net /\ buf' = buf /\ cmd' = cmd /\ out' = out /\ got' = got /\ meant' = meant
    BY <1>3 DEF Open, Reading
  <2> QED
    BY <2>1, LoopFrames
<1>4. CASE ReadFails(k) \/ Return(k)
  <2>1. PICK lp \in {"closing", "returned"} : loop' = [loop EXCEPT ![k] = lp]
    BY <1>4 DEF ReadFails, Return
  <2>2. lp \notin Reading
    BY DEF Reading
  <2>3. net' = net /\ buf' = buf /\ cmd' = cmd /\ out' = out /\ got' = got /\ meant' = meant
    BY <1>4 DEF ReadFails, Return
  <2> QED
    BY <2>1, <2>2, <2>3, LoopFrames
<1> QED
  BY <1>1, <1>2, <1>3, <1>4 DEF Session, HandleConn

(* The accept loop starts HandleConn. *)
LEMMA ServeFrames ==
  ASSUME Inv, FrameInv, Serve
  PROVE  FrameInv'
<1>1. hand \in Conns /\ loop[hand] = "none"
  <2>1. hand # Nobody /\ conn[hand] = "accepted"
    BY DEF Serve, Inv, LifeInv
  <2>2. hand \in Conns
    BY <2>1 DEF Inv, TypeInv
  <2> QED
    BY <2>1, <2>2 DEF Inv, LoopInv
<1>2. /\ loop' = [loop EXCEPT ![hand] = "start"]
      /\ net' = net /\ buf' = buf /\ cmd' = cmd /\ out' = out /\ got' = got /\ meant' = meant
  BY DEF Serve
<1> DEFINE k == hand
<1>3. k \in Conns /\ loop[k] \in Reading /\ loop' = [loop EXCEPT ![k] = "start"]
  BY <1>1, <1>2 DEF Reading
<1> HIDE DEF k
<1> QED
  BY <1>2, <1>3, LoopFrames

LEMMA SameFrames ==
  ASSUME FrameInv, UNCHANGED connVars
  PROVE  FrameInv'
<1>1. /\ net' = net /\ buf' = buf /\ cmd' = cmd /\ out' = out /\ got' = got
      /\ meant' = meant /\ loop' = loop
  BY DEF connVars
<1>2. ASSUME NEW k \in Conns PROVE Kept(k)'
  BY <1>1 DEF FrameInv, Kept
<1> QED
  BY <1>1, <1>2 DEF FrameInv

LEMMA NextFrames ==
  ASSUME Conforming, Inv, FrameInv, [Next]_vars
  PROVE  FrameInv'
<1>1. CASE UNCHANGED vars
  BY <1>1, SameFrames DEF vars
<1>2. CASE StartUp \/ AcceptFails \/ Reject
  <2>1. UNCHANGED connVars
    BY <1>2 DEF StartUp, StartFails, Starts, AcceptFails, Reject
  <2> QED
    BY <2>1, SameFrames
<1>3. CASE Serve
  BY <1>3, ServeFrames
<1>4. CASE Signal \/ MarkClosing \/ CloseListener \/ ShutdownMCP
  <2>1. UNCHANGED connVars
    BY <1>4 DEF Signal, MarkClosing, CloseListener, ShutdownMCP
  <2> QED
    BY <2>1, SameFrames
<1>5. CASE WaiterDone \/ Drained \/ MCPFails \/ Stop
  <2>1. UNCHANGED connVars
    BY <1>5 DEF WaiterDone, Drained, MCPFails, Stop
  <2> QED
    BY <2>1, SameFrames
<1>6. ASSUME NEW k \in Conns, Connect(k) \/ Accept(k) \/ FreeSlot(k) \/ Done(k) PROVE FrameInv'
  <2>1. UNCHANGED connVars
    BY <1>6 DEF Connect, Accept, FreeSlot, Done
  <2> QED
    BY <2>1, SameFrames
<1>7. ASSUME NEW k \in Conns, Client(k) PROVE FrameInv'
  <2>1. CASE ClientSends(k)
    BY <2>1, ClientFrames
  <2>2. CASE ClientShuts(k)
    <3>1. /\ net' = net /\ buf' = buf /\ cmd' = cmd /\ out' = out /\ got' = got
          /\ meant' = meant /\ loop' = loop
      BY <2>2 DEF ClientShuts
    <3>2. ASSUME NEW j \in Conns PROVE Kept(j)'
      BY <3>1 DEF FrameInv, Kept
    <3> QED
      BY <3>1, <3>2 DEF FrameInv
  <2> QED
    BY <1>7, <2>1, <2>2 DEF Client
<1>8. ASSUME NEW k \in Conns, Session(k) PROVE FrameInv'
  BY <1>8, SessionFrames
<1> QED
  BY <1>1, <1>2, <1>3, <1>4, <1>5, <1>6, <1>7, <1>8 DEF Next, Waits

(* HandleConn and ReadCommand: whatever clients send that is made of       *)
(* requests, in bursts of any length and cut into reads anywhere, on any   *)
(* number of connections, the commands run are those that were meant, in   *)
(* their order, and all of them once the input is read.                    *)
THEOREM FramingCorrect ==
  ASSUME Conforming
  PROVE  Spec => []CommandsAsSent
<1>1. Inv /\ FrameInv /\ [Next]_vars => FrameInv'
  BY NextFrames
<1>2. FrameInv => CommandsAsSent
  <2> SUFFICES ASSUME FrameInv, NEW k \in Conns
               PROVE  /\ IsPrefix(got[k] \o out[k], meant[k].cmds)
                      /\ Starting(k) /\ net[k] = <<>> /\ buf[k] = <<>>
                           => got[k] \o out[k] = meant[k].cmds
    BY DEF CommandsAsSent
  <2>1. KeptAt(net[k], buf[k], cmd[k], out[k], got[k], meant[k], loop[k])
    BY DEF FrameInv, Kept
  <2>2. AsSent(net[k], buf[k], cmd[k], got[k] \o out[k], meant[k].cmds, loop[k])
    BY <2>1, KeptAtSent
  <2> QED
    BY <2>2 DEF AsSent, Starting
<1> QED
  BY <1>1, <1>2, FrameInit, Invariance, PTL DEF Spec

-----------------------------------------------------------------------------
(* The assumption can be met: requests alone and one after the other are   *)
(* input, among them a command on a line, and an array whose element is    *)
(* any payload whatever, headers and line ends included.                   *)

LEMMA StreamOne ==
  ASSUME NEW R, NEW C, R \subseteq Pieces(C), NEW r \in R
  PROVE  r \in Streams(R, C)
<1> DEFINE g == [i \in 0..1 |-> IF i = 0 THEN r ELSE Nothing]
<1>1. r \in Pieces(C) /\ Nothing \in Pieces(C)
  BY NothingType
<1>2. g \in [0..1 -> Pieces(C)] /\ g[0] = r /\ g[1] = Nothing
  BY <1>1
<1> HIDE DEF g
<1>3. Then(r, Nothing) = r
  BY <1>1, ThenNothing
<1>4. \A i \in 1..1 : i = 1 /\ i - 1 = 0
  OBVIOUS
<1>5. Chain(g, 1, R)
  BY <1>2, <1>3, <1>4 DEF Chain
<1>6. \E h \in [0..1 -> Pieces(C)] : h[0] = r /\ Chain(h, 1, R)
  BY <1>2, <1>5, Zenon
<1>7. 1 \in Nat
  OBVIOUS
<1> QED
  BY <1>1, <1>6, <1>7, Zenon DEF Streams

(* Bursts: input after input is input. *)
LEMMA InputPipelines ==
  /\ Requests \subseteq Input
  /\ \A x \in Input : \A y \in Input : Then(x, y) \in Input
BY RequestsArePieces, StreamOne, StreamThen DEF Input

(* A word on a line is a command, QUIT included. *)
LEMMA InputLines ==
  ASSUME NEW n \in Int
  PROVE  Piece(<<Word(n), NL>>, <<<<<<Word(n)>>>>>>, IsQuit(<<<<Word(n)>>>>)) \in Input
<1> DEFINE u == Word(n)
           l == <<u, NL>>
           c == <<<<u>>>>
           r == Piece(l, <<c>>, IsQuit(c))
<1>1. u \in Units /\ u.is = "word"
  BY DEF Word, Units
<1>2. u # NL /\ u.is # "*"
  BY <1>1, UnitTypes
<1> HIDE DEF u
<1>3. l \in Seq(Units) /\ Len(l) = 2 /\ l[1] = u
  BY <1>1, UnitTypes
<1>4. readLine(l) = 2
  <2>1. <<>> \in Seq(Units)
    BY EmptySeq
  <2> QED
    BY <1>1, <1>2, <2>1, HeaderLine
<1>5. c \in CommandLists
  BY <1>1 DEF CommandLists, Args
<1>6. c = [i \in 1..(Len(l) - 1) |-> <<l[i]>>]
  <2>1. 1..(Len(l) - 1) = 1..1
    BY <1>3
  <2>2. Len(c) = 1 /\ c[1] = <<l[1]>>
    BY <1>3
  <2>3. c = [i \in 1..1 |-> c[i]]
    OBVIOUS
  <2> QED
    BY <2>1, <2>2, <2>3
<1> HIDE DEF c, l
<1>7. IsQuit(c) \in BOOLEAN /\ <<c>> \in Seq(CommandLists)
  BY <1>5 DEF IsQuit
<1>8. r \in Pieces(CommandLists) /\ r.units = l /\ r.cmds = <<c>> /\ r.over = IsQuit(c)
  <2> DEFINE d == <<c>>
             o == IsQuit(c)
  <2>1. r = Piece(l, d, o) /\ d \in Seq(CommandLists) /\ o \in BOOLEAN
    BY <1>7
  <2> SUFFICES r \in Pieces(CommandLists) /\ r.units = l /\ r.cmds = d /\ r.over = o
    OBVIOUS
  <2> HIDE DEF d, o, r
  <2> QED
    BY <1>3, <2>1 DEF Piece, Pieces
<1> HIDE DEF r
<1>9. IsInline(r)
  <2>1. l \in Lines /\ Len(l) > 1 /\ l[1].is # "*"
    BY <1>2, <1>3, <1>4 DEF Lines, Args
  <2> QED
    BY <1>6, <1>8, <2>1 DEF IsInline
<1>10. r \in Requests
  BY <1>8, <1>9 DEF Requests
<1>11. r \in Input
  BY <1>10, InputPipelines
<1> QED
  BY <1>11 DEF r, c, l, u

(* An array of one payload, which may look like anything. *)
LEMMA InputPayloads ==
  ASSUME NEW p \in Args
  PROVE  Piece(<<Star(1), NL>> \o (<<Dollar(Len(p)), NL>> \o (p \o <<NL>>)), <<<<p>>>>, IsQuit(<<p>>))
           \in Input
<1> DEFINE eu == <<Dollar(Len(p)), NL>> \o (p \o <<NL>>)
           ec == <<p>>
           e == Piece(eu, ec, FALSE)
           ru == <<Star(1), NL>> \o eu
           r == Piece(ru, <<ec>>, IsQuit(ec))
<1>1. p \in Seq(Units) /\ Len(p) \in Int /\ NL \in Units
  BY LenProperties, UnitTypes DEF Args
<1>2. p \o <<NL>> \in Seq(Units)
  <2>1. <<NL>> \in Seq(Units)
    <3> DEFINE u == NL
    <3>1. u \in Units
      BY <1>1
    <3> HIDE DEF u
    <3>2. <<u>> \in Seq(Units)
      BY <3>1
    <3> QED
      BY <3>2 DEF u
  <2> QED
    BY <1>1, <2>1, CatItems
<1>3. eu \in Seq(Units)
  <2>1. Dollar(Len(p)) \in Units /\ Dollar(Len(p)) # NL
    BY <1>1, UnitTypes
  <2> QED
    BY <1>2, <2>1, HeaderLine
<1>4. ec \in Seq(Args) /\ ec \in CommandLists /\ Len(ec) = 1
  BY DEF CommandLists
<1>5. e \in Pieces(Args) /\ e.units = eu /\ e.cmds = ec /\ e.over = FALSE
  <2> HIDE DEF eu, ec
  <2> QED
    BY <1>3, <1>4 DEF Piece, Pieces
<1>6. e \in Elements
  <2> HIDE DEF e
  <2> QED
    BY <1>1, <1>5 DEF Elements
<1>7. e \in Bodies
  <2>1. Elements \subseteq Pieces(Args)
    BY DEF Elements
  <2> QED
    BY <1>6, <2>1, StreamOne DEF Bodies
<1>8. ru \in Seq(Units)
  <2>1. Star(1) \in Units /\ Star(1) # NL
    BY UnitTypes
  <2> HIDE DEF eu
  <2> QED
    BY <1>3, <2>1, HeaderLine
<1> HIDE DEF ec, eu
<1>9. IsQuit(ec) \in BOOLEAN /\ <<ec>> \in Seq(CommandLists)
  BY <1>4 DEF IsQuit
<1>10. r \in Pieces(CommandLists) /\ r.units = ru /\ r.cmds = <<ec>> /\ r.over = IsQuit(ec)
  <2> DEFINE d == <<ec>>
             o == IsQuit(ec)
  <2>1. r = Piece(ru, d, o) /\ d \in Seq(CommandLists) /\ o \in BOOLEAN
    BY <1>9
  <2> SUFFICES r \in Pieces(CommandLists) /\ r.units = ru /\ r.cmds = d /\ r.over = o
    OBVIOUS
  <2> HIDE DEF d, o, r, ru
  <2> QED
    BY <1>8, <2>1 DEF Piece, Pieces
<1> HIDE DEF r, e
<1>11. IsArray(r)
  <2>1. Len(e.cmds) = 1 /\ 1 > 0
    BY <1>4, <1>5
  <2>2. r.units = <<Star(Len(e.cmds)), NL>> \o e.units
    BY <1>5, <1>10, <2>1
  <2>3. r.cmds = <<e.cmds>> /\ r.over = IsQuit(e.cmds)
    BY <1>5, <1>10
  <2> QED
    BY <1>7, <2>1, <2>2, <2>3, Zenon DEF IsArray
<1>12. r \in Requests
  BY <1>10, <1>11 DEF Requests
<1>13. r \in Input
  BY <1>12, InputPipelines
<1> QED
  BY <1>13 DEF r, ec, eu
=============================================================================
