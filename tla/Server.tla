-------------------------------- MODULE Server --------------------------------
(***************************************************************************)
(* The server's life (internal/server/server.go, Server.run): start-up     *)
(* from a configuration, the accept loop with its connection slots, one    *)
(* goroutine per connection, which runs HandleConn of module Conn, and the *)
(* shutdown that a signal starts in a goroutine of its own, with the MCP   *)
(* server beside it.                                                       *)
(***************************************************************************)
EXTENDS Conn, FiniteSets

CONSTANTS
  Configs,                 \* configurations the server may be started with
  DefaultMaxConnections,
  Nobody

ASSUME ServerAssumption ==
  /\ DefaultMaxConnections \in Nat \ {0} /\ Nobody \notin Conns
  /\ \A cfg \in Configs : cfg.maxConnections \in Int

VARIABLES
  conn,      \* conn[k]: new, backlog, accepted, serving, leaving, ended, rejected, refused
  limit,     \* capacity of connSlots
  slots,     \* tokens in connSlots
  wg,        \* the WaitGroup's counter
  main,      \* run: start, accept, slot, drain, mcp, stopped, failed
  engine,    \* the storage engine: none, open, closed
  hand,      \* the connection Accept has returned
  signal,    \* SIGINT/SIGTERM, or the context, has ended
  stopper,   \* the shutdown goroutine: wait, close, shutdown, done
  closing, listening,
  waiter,    \* the goroutine that waits for wg: none, wait, done
  mcp,       \* Serve of the MCP server: serving, done (or never started)
  grace,     \* the grace period for connections has elapsed
  errors     \* was an error logged because the listener is closed?

acceptVars == <<conn, slots, wg, hand, errors>>
startVars == <<limit, engine>>
stopVars == <<signal, stopper, closing, listening>>
drainVars == <<mcp, waiter, grace>>
vars == <<main, acceptVars, startVars, stopVars, drainVars, connVars>>

Init ==
  /\ main = "start" /\ limit = 0 /\ engine = "none"
  /\ conn = [k \in Conns |-> "new"] /\ slots = 0 /\ wg = 0 /\ hand = Nobody /\ errors = 0
  /\ signal = FALSE /\ stopper = "wait" /\ closing = FALSE /\ listening = TRUE
  /\ mcp = "done" /\ waiter = "none" /\ grace = FALSE
  /\ ConnInit

-----------------------------------------------------------------------------
(* Start-up.  The caller has bound the RESP port already. *)

(* external: strings.ToLower on the names that occur. *)
ToLower(s) ==
  LET lower == [LRU |-> "lru", Weighted |-> "weighted", OpenAI |-> "openai", Mock |-> "mock"]
  IN  IF s \in DOMAIN lower THEN lower[s] ELSE s

buildEvictionPolicy(cfg) == ToLower(cfg.eviction) \in {"", "lru", "weighted"}

buildEmbedProvider(cfg) ==
  \/ ToLower(cfg.embed) \in {"", "mock"}
  \/ ToLower(cfg.embed) = "openai" /\ cfg.apiKey # ""

buildCompletionProvider(cfg) ==
  \/ ToLower(cfg.completion) \in {"", "mock"}
  \/ ToLower(cfg.completion) = "openai" /\ cfg.apiKey # ""

buildAuthenticator(cfg) == cfg.credentials = {} \/ cfg.password = ""

(* An error ends run: before the engine exists, or with the deferred       *)
(* engine.Close().                                                         *)
StartFails(cfg) ==
  /\ \/ ~buildEvictionPolicy(cfg) /\ engine' = engine
     \/ /\ buildEvictionPolicy(cfg)
        /\ \/ ~buildEmbedProvider(cfg)
           \/ ~buildCompletionProvider(cfg)
           \/ ~buildAuthenticator(cfg)
           \/ cfg.mcpPort # 0      \* the port may be taken
        /\ engine' = "closed"
  /\ main' = "failed"
  /\ UNCHANGED <<limit, acceptVars, stopVars, drainVars, connVars>>

(* Everything is built, the MCP server started, the signals are watched,   *)
(* and the accept loop begins.                                             *)
Starts(cfg) ==
  /\ buildEvictionPolicy(cfg) /\ buildEmbedProvider(cfg)
  /\ buildCompletionProvider(cfg) /\ buildAuthenticator(cfg)
  /\ engine' = "open"
  /\ mcp' = IF cfg.mcpPort # 0 THEN "serving" ELSE mcp
  /\ limit' = IF cfg.maxConnections <= 0 THEN DefaultMaxConnections ELSE cfg.maxConnections
  /\ main' = "accept"
  /\ UNCHANGED <<waiter, grace, acceptVars, stopVars, connVars>>

StartUp == main = "start" /\ \E cfg \in Configs : StartFails(cfg) \/ Starts(cfg)

-----------------------------------------------------------------------------
(* external: clients and the listen backlog. *)
Connect(k) ==
  /\ conn[k] = "new"
  /\ conn' = [conn EXCEPT ![k] = IF listening THEN "backlog" ELSE "refused"]
  /\ UNCHANGED <<slots, wg, main, hand, errors, startVars, stopVars, drainVars, connVars>>

(* The accept loop. *)
Accept(k) ==
  /\ main = "accept" /\ listening
  /\ conn[k] = "backlog"
  /\ conn' = [conn EXCEPT ![k] = "accepted"]
  /\ hand' = k
  /\ main' = "slot"
  /\ UNCHANGED <<slots, wg, errors, startVars, stopVars, drainVars, connVars>>

(* Accept fails, always once the listener is closed, and now and then      *)
(* before (out of descriptors, say): the end of the loop if the server is  *)
(* closing, and a goroutine starts to wait for the connections; otherwise  *)
(* logged and tried again.                                                 *)
AcceptFails ==
  /\ main = "accept"
  /\ IF closing THEN main' = "drain" /\ waiter' = "wait" /\ errors' = errors
                ELSE /\ errors' = IF listening THEN errors ELSE 1
                     /\ UNCHANGED <<main, waiter>>
  /\ UNCHANGED <<conn, slots, wg, hand, mcp, grace, startVars, stopVars, connVars>>

Reject ==
  /\ main = "slot" /\ slots >= limit
  /\ conn' = [conn EXCEPT ![hand] = "rejected"]
  /\ main' = "accept" /\ hand' = Nobody
  /\ UNCHANGED <<slots, wg, errors, startVars, stopVars, drainVars, connVars>>

(* Fault: the goroutine is not added to the WaitGroup before it starts. *)
ServeUncounted ==
  /\ main = "slot" /\ slots < limit
  /\ slots' = slots + 1
  /\ conn' = [conn EXCEPT ![hand] = "serving"]
  /\ loop' = [loop EXCEPT ![hand] = "start"]
  /\ main' = "accept" /\ hand' = Nobody
  /\ UNCHANGED <<wg, errors, startVars, stopVars, drainVars, sends, net, buf, shut, cmd, out, got, active, meant, skipped>>

Serve ==
  /\ main = "slot" /\ slots < limit
  /\ slots' = slots + 1
  /\ wg' = wg + 1
  /\ conn' = [conn EXCEPT ![hand] = "serving"]
  /\ loop' = [loop EXCEPT ![hand] = "start"]
  /\ main' = "accept" /\ hand' = Nobody
  /\ UNCHANGED <<errors, startVars, stopVars, drainVars, sends, net, buf, shut, cmd, out, got, active, meant, skipped>>

(* What a client sends or closes before it is served is only seen then. *)
Client(k) ==
  /\ conn[k] = "serving"
  /\ ClientSends(k) \/ ClientShuts(k)
  /\ UNCHANGED <<main, acceptVars, startVars, stopVars, drainVars>>

Session(k) ==
  /\ main # "stopped" /\ HandleConn(k)
  /\ UNCHANGED <<main, acceptVars, startVars, stopVars, drainVars>>

(* Fault: the slot of a connection that ended is lost. *)
LeaksSlot(k) ==
  /\ conn[k] = "serving" /\ loop[k] = "returned"
  /\ conn' = [conn EXCEPT ![k] = "leaving"]
  /\ UNCHANGED <<slots, wg, main, hand, errors, startVars, stopVars, drainVars, connVars>>

(* HandleConn has returned, and the goroutine's deferred calls run in      *)
(* turn: the slot is freed ...                                             *)
FreeSlot(k) ==
  /\ conn[k] = "serving" /\ loop[k] = "returned"
  /\ conn' = [conn EXCEPT ![k] = "leaving"]
  /\ slots' = slots - 1
  /\ UNCHANGED <<wg, main, hand, errors, startVars, stopVars, drainVars, connVars>>

(* ... and the WaitGroup told. *)
Done(k) ==
  /\ conn[k] = "leaving"
  /\ conn' = [conn EXCEPT ![k] = "ended"]
  /\ wg' = wg - 1
  /\ UNCHANGED <<slots, main, hand, errors, startVars, stopVars, drainVars, connVars>>

-----------------------------------------------------------------------------
(* Shutdown. *)

(* external: the operator, or the caller's context. *)
Signal ==
  /\ ~signal
  /\ signal' = TRUE
  /\ UNCHANGED <<main, stopper, closing, listening, acceptVars, startVars, drainVars, connVars>>

(* The shutdown goroutine starts with the accept loop. *)
Running == main \notin {"start", "failed"}

MarkClosing ==
  /\ stopper = "wait" /\ signal /\ Running
  /\ closing' = TRUE
  /\ stopper' = "close"
  /\ UNCHANGED <<main, signal, listening, acceptVars, startVars, drainVars, connVars>>

(* ln.Close(): what is still in the backlog is refused. *)
CloseListener ==
  /\ stopper = "close"
  /\ listening' = FALSE
  /\ conn' = [k \in Conns |-> IF conn[k] = "backlog" THEN "refused" ELSE conn[k]]
  /\ stopper' = "shutdown"
  /\ UNCHANGED <<slots, wg, main, hand, signal, closing, errors, startVars, drainVars, connVars>>

(* mcpSrv.Shutdown makes Serve return at once, while it waits itself for   *)
(* the requests in flight, or for a grace period of its own.               *)
ShutdownMCP ==
  /\ stopper = "shutdown"
  /\ mcp' = "done"
  /\ stopper' = "done"
  /\ UNCHANGED <<main, signal, closing, listening, waiter, grace, acceptVars, startVars, connVars>>

WaiterDone ==
  /\ waiter = "wait" /\ wg = 0
  /\ waiter' = "done"
  /\ UNCHANGED <<main, mcp, grace, acceptVars, startVars, stopVars, connVars>>

(* Fault: the grace period is not looked at. *)
WaitsForAll ==
  /\ main = "drain" /\ waiter = "done"
  /\ main' = "mcp"
  /\ UNCHANGED <<acceptVars, startVars, stopVars, drainVars, connVars>>

(* The select: the waiter is done, or time.After(shutdownGrace) fires. *)
Drained ==
  /\ main = "drain"
  /\ (waiter = "done" /\ grace' = grace) \/ grace' = TRUE
  /\ main' = "mcp"
  /\ UNCHANGED <<waiter, mcp, acceptVars, startVars, stopVars, connVars>>

(* Serve of the MCP server returns by itself, with an error. *)
MCPFails ==
  /\ mcp = "serving"
  /\ mcp' = "done"
  /\ UNCHANGED <<main, waiter, grace, acceptVars, startVars, stopVars, connVars>>

(* With Serve of the MCP server over, or after a second grace period, which *)
(* may elapse at any time, run returns and closes the engine.              *)
Stop ==
  /\ main = "mcp"
  /\ main' = "stopped"
  /\ engine' = "closed"
  /\ UNCHANGED <<limit, acceptVars, stopVars, drainVars, connVars>>

-----------------------------------------------------------------------------
(* Without signals and clients, the server waits.  The process ends with   *)
(* run, and connections that are still there with it.                      *)
Waits == (main \in {"stopped", "failed"} \/ ~signal) /\ UNCHANGED vars

Next ==
  \/ StartUp
  \/ /\ main \notin {"stopped", "failed"}
     /\ \E k \in Conns : Connect(k) \/ Accept(k) \/ Client(k) \/ Session(k) \/ FreeSlot(k) \/ Done(k)
  \/ AcceptFails \/ Reject \/ Serve
  \/ Signal \/ MarkClosing \/ CloseListener \/ ShutdownMCP
  \/ WaiterDone \/ Drained
  \/ MCPFails \/ Stop \/ Waits

Spec == Init /\ [][Next]_vars

(* The goroutines and the timer keep going.  Clients need neither connect  *)
(* nor send nor ever leave, and Accept on an open listener need not fail.  *)
FairSpec ==
  /\ Spec
  /\ WF_vars(StartUp)
  /\ WF_vars((\E k \in Conns : Accept(k)) \/ (~listening /\ AcceptFails) \/ Reject \/ Serve)
  /\ WF_vars(MarkClosing \/ CloseListener \/ ShutdownMCP)
  /\ WF_vars(WaiterDone)
  /\ WF_vars(Drained \/ Stop)
  /\ \A k \in Conns : WF_vars(Session(k))

-----------------------------------------------------------------------------
(* Properties. *)

Served == {k \in Conns : conn[k] \in {"serving", "leaving"}}

(* Run's comment: a shutdown is graceful.  If run returns before the grace *)
(* period has elapsed, no connection it accepted is still being served,    *)
(* one that was accepted while the listener was being closed included, and *)
(* the closing of the listener was not mistaken for its failure.  However  *)
(* run ends, a start-up that fails included, it leaves no open engine.     *)
GracefulStop ==
  /\ main = "stopped" /\ ~grace => Served = {} /\ hand = Nobody
  /\ main \in {"stopped", "failed"} => engine # "open" /\ errors = 0

(* Connections are bounded and slots are not lost: as many tokens as there *)
(* are connections in service, never more than the maximum; and the gauge  *)
(* of active connections counts those inside HandleConn.                   *)
SlotsExact ==
  /\ slots = Cardinality({k \in Conns : conn[k] = "serving"})
  /\ active = Cardinality({k \in Conns : loop[k] \in {"loop", "closing"}})
  /\ active <= slots /\ slots <= limit

(* A signal ends the server, although clients stay connected for ever.     *)
RunReturns == signal ~> main \in {"stopped", "failed"}

(* Nobody waits for ever for a reply: what a client has sent is read, and  *)
(* every command in it run and its reply flushed, although the client then *)
(* only waits.  A protocol error ends the connection; after a blank line   *)
(* or an empty array, the code leaves replies buffered until the next      *)
(* command.                                                                *)
Answered ==
  \A k \in Conns :
    conn[k] = "serving" /\ got[k] # meant[k].cmds
      ~> \/ got[k] = meant[k].cmds \/ k \in skipped
         \/ k \in shut \/ loop[k] = "returned" \/ main = "stopped"
=============================================================================
