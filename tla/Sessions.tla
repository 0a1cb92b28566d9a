------------------------------- MODULE Sessions -------------------------------
(***************************************************************************)
(* Client connections: command dispatch, authentication, WATCH and         *)
(* MULTI/EXEC transactions (internal/server/resp: dispatch.go, client.go,  *)
(* conn.go, handlers_tx.go, handlers_conn.go, handlers_string.go, and      *)
(* internal/auth).                                                         *)
(*                                                                         *)
(* Every connection is served by a goroutine of its own, one command at a  *)
(* time.  The engine is used through its calls: each of them is atomic     *)
(* (module MemStore), so a handler is one step per engine call and other   *)
(* connections run in between.  EXEC compares the watched versions one by  *)
(* one, then takes the global transaction mutex, then runs the queued      *)
(* commands, which go through dispatch again.                              *)
(*                                                                         *)
(* A string value is the sequence of the pieces it was written in; <<n>>   *)
(* is the decimal text of n, anything longer does not parse as a number.   *)
(***************************************************************************)
EXTENDS Containers

CONSTANTS
  Conns,        \* client connections
  Keys,         \* key names
  Modes,        \* ways the server is started: "open" (no password), "single"
                \* (one password) or "multi" (a password per workspace)
  Credentials,  \* password |-> workspace; in "single" mode, one password
  DefaultWS,    \* the workspace of a new connection
  Requests,     \* Requests[m]: the commands clients send in mode m
  MaxCommands,  \* bound: commands received in one behaviour
  Unlocked      \* marks the free transaction mutex

Workspaces == {DefaultWS} \cup {Credentials[p] : p \in DOMAIN Credentials}
Slots      == Workspaces \X Keys

(* A command as a client sends it.  arity: the number of words is right,   *)
(* so that a command that works on keys has one at least.                  *)
Cmd(name, keys, arg, arity) == [name |-> name, keys |-> keys, arg |-> arg, arity |-> arity]
Commands == [name : STRING, keys : Seq(Keys), arg : Int, arity : BOOLEAN]
Keyed    == {"SET", "MSET", "INCRBY", "APPEND", "WATCH"}

ASSUME SessionAssumption ==
  /\ Modes \subseteq {"open", "single", "multi"}
  /\ Unlocked \notin Conns
  /\ MaxCommands \in Nat
  /\ \A m \in Modes : \A cmd \in Requests[m] :
       /\ cmd \in Commands
       /\ cmd.arity /\ cmd.name \in Keyed => cmd.keys # <<>>

(* NoQueue commands run at once inside MULTI; AllowedNoAuth ones before    *)
(* AUTH.  "Read" stands for the commands that leave no trace here; COMMAND *)
(* and INFO, which also run before AUTH, leave none either.                *)
NoQueue       == {"MULTI", "EXEC", "DISCARD", "WATCH", "UNWATCH", "QUIT"}
AllowedNoAuth == {"AUTH", "HELLO", "QUIT"}
Registered    == NoQueue \cup AllowedNoAuth
                 \cup {"Read", "SET", "MSET", "INCRBY", "APPEND"}

-----------------------------------------------------------------------------
VARIABLES
  kv, version,  \* the engine: value and mutation counter of every slot
  globalMu,     \* the connection that holds the transaction mutex
  conn,         \* conn[c]: the ClientState of c
  run,          \* run[c]: what the goroutine of c is doing
  received,     \* commands received so far
  mode,         \* how the Authenticator was configured at startup
  hist          \* history: what the properties compare with

vars == <<kv, version, globalMu, conn, run, received, hist, mode>>

NewClientState ==
  [authenticated |-> FALSE, workspace |-> DefaultWS, inMulti |-> FALSE,
   multiError |-> FALSE, queued |-> <<>>, watched |-> Empty, quit |-> FALSE]

(* pc: "idle", "call" (a command runs), "check", "lock" and "body" (EXEC). *)
(* todo: commands still to run; i, read: progress in the first; left:      *)
(* watched keys still to compare.                                          *)
Reading == [pc |-> "idle", todo |-> <<>>, i |-> 1, read |-> <<>>, left |-> {}, watched |-> Empty]

(* sent: every command since MULTI that does not control the transaction.  *)
(* watchedIn: the slot and version each watched key stood for at WATCH;    *)
(* atExec: the same for the transaction EXEC took over; doomed: one of     *)
(* them had already changed by then.                                       *)
(* incs: net effect of the increments done by transactions; outside: some  *)
(* write came from elsewhere.                                              *)
Init ==
  /\ kv = [s \in Slots |-> Empty]
  /\ version = [s \in Slots |-> 0]
  /\ globalMu = Unlocked
  /\ conn = [c \in Conns |-> NewClientState]
  /\ run = [c \in Conns |-> Reading]
  /\ received = 0
  /\ mode \in Modes
  /\ hist = [sent |-> [c \in Conns |-> <<>>], watchedIn |-> [c \in Conns |-> Empty],
             atExec |-> [c \in Conns |-> Empty],
             doomed |-> [c \in Conns |-> FALSE], incs |-> [s \in Slots |-> 0],
             outside |-> FALSE]

-----------------------------------------------------------------------------
(* Authenticator. *)
Required == mode # "open"
Check(p) == mode = "open" \/ p \in DOMAIN Credentials

(* Registry.Handle, for a command read from the connection.                *)
Arrives(c, cmd) ==
  /\ run[c].pc = "idle" /\ ~conn[c].quit
  /\ received < MaxCommands
  /\ received' = received + 1
  /\ hist' = [hist EXCEPT !.sent[c] =
                IF conn[c].inMulti /\ cmd.name \notin NoQueue THEN Append(@, cmd) ELSE @]
  /\ UNCHANGED <<kv, version, globalMu, mode>>

(* Fault: authentication is asked for only when --password is set. *)
BarredBySinglePassword(c, cmd) ==
  mode = "single" /\ ~conn[c].authenticated /\ cmd.name \notin AllowedNoAuth

Barred(c, cmd) == Required /\ ~conn[c].authenticated /\ cmd.name \notin AllowedNoAuth
Queues(c, cmd) == conn[c].inMulti /\ cmd.name \notin NoQueue

RejectUnknown(c, cmd) ==
  /\ Arrives(c, cmd)
  /\ cmd.name \notin Registered
  /\ conn' = [conn EXCEPT ![c].multiError = @ \/ conn[c].inMulti]
  /\ UNCHANGED run

RejectNoAuth(c, cmd) ==
  /\ Arrives(c, cmd)
  /\ cmd.name \in Registered
  /\ Barred(c, cmd)
  /\ UNCHANGED <<conn, run>>

Accepted(c, cmd) == cmd.name \in Registered /\ ~Barred(c, cmd)

Queue(c, cmd) ==
  /\ Arrives(c, cmd)
  /\ Accepted(c, cmd) /\ Queues(c, cmd) /\ cmd.arity
  /\ conn' = [conn EXCEPT ![c].queued = Append(@, cmd)]
  /\ UNCHANGED run

(* Fault: a malformed command inside MULTI is refused but not remembered. *)
QueueRejectForgets(c, cmd) ==
  /\ Arrives(c, cmd)
  /\ Accepted(c, cmd) /\ Queues(c, cmd) /\ ~cmd.arity
  /\ UNCHANGED <<conn, run>>

QueueReject(c, cmd) ==
  /\ Arrives(c, cmd)
  /\ Accepted(c, cmd) /\ Queues(c, cmd) /\ ~cmd.arity
  /\ conn' = [conn EXCEPT ![c].multiError = TRUE]
  /\ UNCHANGED run

RejectArity(c, cmd) ==
  /\ Arrives(c, cmd)
  /\ Accepted(c, cmd) /\ ~Queues(c, cmd) /\ ~cmd.arity
  /\ UNCHANGED <<conn, run>>

Start(c, cmd) ==
  /\ Arrives(c, cmd)
  /\ Accepted(c, cmd) /\ ~Queues(c, cmd) /\ cmd.arity
  /\ run' = [run EXCEPT ![c] = [Reading EXCEPT !.pc = "call", !.todo = <<cmd>>]]
  /\ UNCHANGED conn

-----------------------------------------------------------------------------
(* Handlers.  The first command of todo is running, either on its own or   *)
(* as part of a transaction body.  In a body it has gone through Handle    *)
(* again, which lets it pass: it was looked up, counted and authorised     *)
(* when it was queued, and nothing revokes an authentication.              *)

Runs(c, names) ==
  /\ run[c].pc \in {"call", "body"}
  /\ run[c].todo # <<>>
  /\ Head(run[c].todo).name \in names

This(c) == Head(run[c].todo)
Slot(c, k) == <<conn[c].workspace, k>>

(* The handler returns its reply. *)
Return(c) ==
  run' = [run EXCEPT ![c] = IF @.pc = "call" THEN Reading
                            ELSE [run[c] EXCEPT !.todo = Tail(@), !.i = 1, !.read = <<>>]]

EngineSet(s, val) ==
  /\ kv' = [kv EXCEPT ![s] = val]
  /\ version' = [version EXCEPT ![s] = @ + 1]

Outside(c) == hist.outside \/ run[c].pc = "call" \/ This(c).name # "INCRBY"

Read(c) ==
  /\ Runs(c, {"Read"})
  /\ Return(c)
  /\ UNCHANGED <<kv, version, globalMu, conn, received, hist, mode>>

(* handleSet, handleMSet: one engine call per pair. *)
SetNext(c) ==
  /\ Runs(c, {"SET", "MSET"})
  /\ EngineSet(Slot(c, This(c).keys[run[c].i]), <<This(c).arg>>)
  /\ IF run[c].i < Len(This(c).keys)
     THEN run' = [run EXCEPT ![c].i = @ + 1]
     ELSE Return(c)
  /\ hist' = [hist EXCEPT !.outside = TRUE]
  /\ UNCHANGED <<globalMu, conn, received, mode>>

Parses(val) == val = Empty \/ (Len(val) = 1 /\ val[1] # Unparsable)
IntOf(val)  == IF val = Empty THEN 0 ELSE val[1]

(* incrBy and handleAppend: a Get, then a Set of what was computed from it.*)
ReadOld(c) ==
  LET val == kv[Slot(c, This(c).keys[1])]
  IN  /\ Runs(c, {"INCRBY", "APPEND"})
      /\ run[c].i = 1
      /\ IF This(c).name = "INCRBY" /\ ~Parses(val)
         THEN Return(c)
         ELSE run' = [run EXCEPT ![c].i = 2, ![c].read = val]
      /\ UNCHANGED <<kv, version, globalMu, conn, received, hist, mode>>

WriteNew(c) ==
  LET s   == Slot(c, This(c).keys[1])
      val == IF This(c).name = "INCRBY"
             THEN <<AddInt64(IntOf(run[c].read), This(c).arg)>>
             ELSE Append(run[c].read, This(c).arg)
  IN  /\ Runs(c, {"INCRBY", "APPEND"})
      /\ run[c].i = 2
      /\ EngineSet(s, val)
      /\ Return(c)
      /\ hist' = [hist EXCEPT !.outside = Outside(c),
                              !.incs[s] = IF Outside(c) THEN @ ELSE AddInt64(@, This(c).arg)]
      /\ UNCHANGED <<globalMu, conn, received, mode>>

(* AUTH, and HELLO's AUTH option. *)
Authenticate(c) ==
  /\ Runs(c, {"AUTH", "HELLO"})
  /\ LET p == This(c).arg
         refused == ~Check(p) \/ (This(c).name = "AUTH" /\ ~Required)
     IN  conn' = IF refused THEN conn
                 ELSE [conn EXCEPT ![c].authenticated = TRUE,
                                   ![c].workspace = IF mode = "multi" THEN Credentials[p] ELSE @]
  /\ Return(c)
  /\ UNCHANGED <<kv, version, globalMu, received, hist, mode>>

Quit(c) ==
  /\ Runs(c, {"QUIT"})
  /\ conn' = [conn EXCEPT ![c].quit = TRUE]
  /\ Return(c)
  /\ UNCHANGED <<kv, version, globalMu, received, hist, mode>>

-----------------------------------------------------------------------------
(* Transactions. *)

Multi(c) ==
  /\ Runs(c, {"MULTI"})
  /\ conn' = IF conn[c].inMulti THEN conn
             ELSE [conn EXCEPT ![c].inMulti = TRUE, ![c].multiError = FALSE, ![c].queued = <<>>]
  /\ hist' = IF conn[c].inMulti THEN hist ELSE [hist EXCEPT !.sent[c] = <<>>]
  /\ Return(c)
  /\ UNCHANGED <<kv, version, globalMu, received, mode>>

(* The history of a transaction that has ended is not kept. *)
Forget(c) == [hist EXCEPT !.sent[c] = <<>>, !.watchedIn[c] = Empty,
                          !.atExec[c] = Empty, !.doomed[c] = FALSE]

(* DISCARD and EXEC leave the block, with nothing queued or watched. *)
OutOfMulti(c) == [conn EXCEPT ![c].inMulti = FALSE, ![c].multiError = FALSE,
                              ![c].queued = <<>>, ![c].watched = Empty]

Discard(c) ==
  /\ Runs(c, {"DISCARD"})
  /\ conn' = IF ~conn[c].inMulti THEN conn
             ELSE OutOfMulti(c)
  /\ hist' = IF conn[c].inMulti THEN Forget(c) ELSE hist
  /\ Return(c)
  /\ UNCHANGED <<kv, version, globalMu, received, mode>>

(* handleWatch, one key per step; inside MULTI it is an error. *)
WatchNext(c) ==
  LET k == This(c).keys[run[c].i]
      s == Slot(c, k)
  IN  /\ Runs(c, {"WATCH"})
      /\ IF conn[c].inMulti
         THEN Return(c) /\ UNCHANGED <<conn, hist>>
         ELSE /\ conn' = [conn EXCEPT ![c].watched = MapPut(@, k, version[s])]
              /\ hist' = [hist EXCEPT !.watchedIn[c] = MapPut(@, k, <<s, version[s]>>)]
              /\ IF run[c].i < Len(This(c).keys)
                 THEN run' = [run EXCEPT ![c].i = @ + 1]
                 ELSE Return(c)
      /\ UNCHANGED <<kv, version, globalMu, received, mode>>

Unwatch(c) ==
  /\ Runs(c, {"UNWATCH"})
  /\ conn' = [conn EXCEPT ![c].watched = Empty]
  /\ hist' = [hist EXCEPT !.watchedIn[c] = Empty]
  /\ Return(c)
  /\ UNCHANGED <<kv, version, globalMu, received, mode>>

(* Some slot of a watch list has moved on since WATCH. *)
Changed(watches) == \E k \in DOMAIN watches : version[watches[k][1]] # watches[k][2]

(* handleExec takes the transaction out of the ClientState, then checks.   *)
ExecBegin(c) ==
  /\ Runs(c, {"EXEC"})
  /\ conn' = IF ~conn[c].inMulti THEN conn
             ELSE OutOfMulti(c)
  /\ IF conn[c].inMulti /\ ~conn[c].multiError
     THEN run' = [run EXCEPT ![c] =
                    [Reading EXCEPT !.pc = "check", !.todo = conn[c].queued,
                                    !.left = DOMAIN conn[c].watched,
                                    !.watched = conn[c].watched]]
     ELSE Return(c)
  /\ hist' = IF ~conn[c].inMulti THEN hist
             ELSE IF conn[c].multiError THEN Forget(c)
             ELSE [hist EXCEPT !.doomed[c] = Changed(hist.watchedIn[c]),
                               !.atExec[c] = hist.watchedIn[c], !.watchedIn[c] = Empty]
  /\ UNCHANGED <<kv, version, globalMu, received, mode>>

(* Fault: the comparison stops at the first watched key. *)
ExecCheckFirstOnly(c) ==
  /\ run[c].pc = "check"
  /\ \E k \in run[c].left :
       IF version[Slot(c, k)] # run[c].watched[k]
       THEN run' = [run EXCEPT ![c] = Reading] /\ hist' = Forget(c)
       ELSE run' = [run EXCEPT ![c].left = {}] /\ UNCHANGED hist
  /\ UNCHANGED <<kv, version, globalMu, conn, received, mode>>

(* One watched key is compared; the map's order is arbitrary. *)
ExecCheck(c) ==
  /\ run[c].pc = "check"
  /\ \E k \in run[c].left :
       IF version[Slot(c, k)] # run[c].watched[k]
       THEN run' = [run EXCEPT ![c] = Reading] /\ hist' = Forget(c)
       ELSE run' = [run EXCEPT ![c].left = @ \ {k}] /\ UNCHANGED hist
  /\ UNCHANGED <<kv, version, globalMu, conn, received, mode>>

ExecChecked(c) ==
  /\ run[c].pc = "check" /\ run[c].left = {}
  /\ run' = [run EXCEPT ![c].pc = "lock"]
  /\ UNCHANGED <<kv, version, globalMu, conn, received, hist, mode>>

(* Fault: the body runs without the mutex. *)
ExecWithoutLock(c) ==
  /\ run[c].pc = "lock"
  /\ globalMu' = c
  /\ run' = [run EXCEPT ![c].pc = "body"]
  /\ UNCHANGED <<kv, version, conn, received, hist, mode>>

(* Engine.Exec *)
ExecLock(c) ==
  /\ run[c].pc = "lock"
  /\ globalMu = Unlocked
  /\ globalMu' = c
  /\ run' = [run EXCEPT ![c].pc = "body"]
  /\ UNCHANGED <<kv, version, conn, received, hist, mode>>

ExecUnlock(c) ==
  /\ run[c].pc = "body" /\ run[c].todo = <<>>
  /\ globalMu' = Unlocked
  /\ run' = [run EXCEPT ![c] = Reading]
  /\ hist' = Forget(c)
  /\ UNCHANGED <<kv, version, conn, received, mode>>

-----------------------------------------------------------------------------
Receive(c, cmd) ==
  \/ RejectUnknown(c, cmd) \/ RejectNoAuth(c, cmd) \/ Queue(c, cmd)
  \/ QueueReject(c, cmd) \/ RejectArity(c, cmd) \/ Start(c, cmd)

Serve(c) ==
  \/ Read(c) \/ SetNext(c) \/ ReadOld(c) \/ WriteNew(c) \/ Authenticate(c) \/ Quit(c)
  \/ Multi(c) \/ Discard(c) \/ WatchNext(c) \/ Unwatch(c)
  \/ ExecBegin(c) \/ ExecCheck(c) \/ ExecChecked(c) \/ ExecLock(c) \/ ExecUnlock(c)

(* A client may leave its connection idle for ever. *)
Silent(c) == run[c].pc = "idle" /\ UNCHANGED vars

Next == \E c \in Conns : Serve(c) \/ Silent(c) \/ \E cmd \in Requests[mode] : Receive(c, cmd)

Spec == Init /\ [][Next]_vars

-----------------------------------------------------------------------------
(* Properties. *)

(* EXEC is all or nothing in what it takes on: a transaction that gets as  *)
(* far as comparing versions consists of exactly the commands the client   *)
(* sent since MULTI, in that order - none of them unknown, malformed or    *)
(* left over from an earlier block, whatever happened in between.          *)
ExecRunsWholeBlock ==
  \A c \in Conns : run[c].pc \in {"check", "lock"} => run[c].todo = hist.sent[c]

(* A transaction does not run when a watched key had already been changed, *)
(* by anyone, at the time EXEC took the transaction over.                  *)
ExecSeesEarlierChanges ==
  \A c \in Conns : run[c].pc \in {"lock", "body"} => ~hist.doomed[c]

(* Transaction bodies are serialised: the mutex is held exactly while a    *)
(* body runs, and as long as only transactions write, and only by INCRBY,  *)
(* no increment is lost although each is a Get and a later Set.            *)
TxCountersExact ==
  /\ \A c \in Conns : run[c].pc = "body" <=> globalMu = c
  /\ ~hist.outside => \A s \in Slots : IntOf(kv[s]) = hist.incs[s]

(* Where a password is required, every write is the work of a connection  *)
(* that has authenticated, on its own or queued in a transaction, and goes *)
(* to the workspace of that connection; with per-workspace credentials,    *)
(* never to the one connections start in.                                  *)
WritesAuthorised ==
  [][Required => \A s \in Slots : version'[s] # version[s] =>
       \E c \in Conns :
         /\ run'[c] # run[c]
         /\ conn[c].authenticated
         /\ s[1] = conn[c].workspace
         /\ mode = "multi" => \E p \in DOMAIN Credentials : s[1] = Credentials[p]]_version

(* docs/commands/pubsub-and-transactions.md: if a watched key was modified *)
(* between WATCH and EXEC, none of the queued commands run.  When the body *)
(* starts, no watched key has changed.                                     *)
ExecAbortsOnChange ==
  [][\A c \in Conns :
       run[c].pc = "lock" /\ run'[c].pc = "body" => ~Changed(hist.atExec[c])]_vars
=============================================================================
