-------------------------------- MODULE PubSub --------------------------------
(***************************************************************************)
(* The publish/subscribe broker and the connections that use it            *)
(* (internal/server/resp: pubsub.go, handlers_pubsub.go, and the parts of  *)
(* conn.go and client.go that write replies and tear a connection down).   *)
(*                                                                         *)
(* Each connection has its command loop and, once it has subscribed, a     *)
(* forwarder goroutine; both write to the connection under writeMu.        *)
(* SUBSCRIBE registers and acknowledges topic by topic inside its reply,   *)
(* with writeMu held.  PUBLISH copies its targets under the broker's       *)
(* mutex, releases it and then sends, without blocking, to each target's   *)
(* buffered channel, in arbitrary order.                                   *)
(*                                                                         *)
(* A topic is a channel or a pattern; Matches says what a pattern matches, *)
(* each channel matching itself.                                           *)
(***************************************************************************)
EXTENDS Naturals, Sequences, FiniteSets

CONSTANTS
  Conns,
  Channels, Patterns,
  Matches,      \* set of <<topic, channel>>: a message to channel goes to topic
  BufferSize,   \* capacity of a subscriber's channel (64)
  MaxCommands,  \* bound: what clients do in one behaviour
  MaxMessages   \* bound: messages published

Topics == Channels \cup Patterns

ASSUME PubSubAssumption ==
  /\ Matches \subseteq Topics \X Channels
  /\ \A ch \in Channels, t \in Channels : <<t, ch>> \in Matches <=> t = ch
  /\ BufferSize \in Nat \ {0}
  /\ MaxCommands \in Nat /\ MaxMessages \in Nat

VARIABLES
  broker,     \* broker[t]: the connections registered for topic t
  conn,       \* conn[c]: the command loop of c
  subCh,      \* subCh[c]: its message channel - made, closed, buffered messages
  forwarder,  \* forwarder[c]: the goroutine that drains subCh[c]
  wire,       \* wire[c]: what was written to the client so far
  gone,       \* clients that have hung up: reads and writes on them fail
  stalled,    \* clients that are there but will never read again
  panicked,   \* the process has died of a send on a closed channel
  commands,   \* commands sent, hang-ups and stalls so far
  published   \* messages published so far

vars == <<broker, conn, subCh, forwarder, wire, gone, stalled, panicked, commands, published>>

(* pc: "read", "register" and "ack" (a reply, holding writeMu), "deliver"  *)
(* (PUBLISH), "quit" (its reply), "leave" and "close" (teardown), "done".  *)
Waiting == [pc |-> "read", todo |-> {}, adding |-> FALSE, topic |-> "none", msg |-> 0]

Init ==
  /\ broker = [t \in Topics |-> {}]
  /\ conn = [c \in Conns |-> [loop |-> Waiting, subs |-> {}]]
  /\ subCh = [c \in Conns |-> [made |-> FALSE, closed |-> FALSE, buf |-> <<>>]]
  /\ forwarder = [c \in Conns |-> [pc |-> "none", msg |-> <<>>]]
  /\ wire = [c \in Conns |-> <<>>]
  /\ gone = {}
  /\ stalled = {}
  /\ panicked = FALSE
  /\ commands = 0
  /\ published = 0

At(c, pc) == ~panicked /\ conn[c].loop.pc = pc

(* The command loop reads another command. *)
Receives(c) ==
  /\ At(c, "read")
  /\ c \notin gone
  /\ commands < MaxCommands
  /\ commands' = commands + 1

-----------------------------------------------------------------------------
(* SUBSCRIBE, PSUBSCRIBE, UNSUBSCRIBE and PUNSUBSCRIBE. *)

(* ensureSubscriberState runs in the handler, before the reply. *)
handleSubscribe(c) ==
  /\ Receives(c)
  /\ \E T \in ((SUBSET Channels) \cup (SUBSET Patterns)) \ {{}} :
       conn' = [conn EXCEPT ![c].loop = [Waiting EXCEPT !.pc = "register", !.todo = T, !.adding = TRUE]]
  /\ subCh' = [subCh EXCEPT ![c].made = TRUE]
  /\ forwarder' = IF subCh[c].made THEN forwarder ELSE [forwarder EXCEPT ![c].pc = "wait"]
  /\ UNCHANGED <<broker, wire, gone, stalled, panicked, published>>

(* Without arguments: all of the connection's channels (or patterns).      *)
handleUnsubscribe(c) ==
  /\ Receives(c)
  /\ \E kind \in {Channels, Patterns} :
       \E T \in SUBSET kind :
         LET todo == IF T = {} THEN conn[c].subs \cap kind ELSE T
         IN  conn' = [conn EXCEPT ![c].loop = [Waiting EXCEPT !.pc = "register", !.todo = todo]]
  /\ UNCHANGED <<broker, subCh, forwarder, wire, gone, stalled, panicked, published>>

(* The reply, for the next topic: bookkeeping and the broker ...           *)
Register(c) ==
  /\ At(c, "register")
  /\ \E t \in conn[c].loop.todo :
       LET loop == conn[c].loop
           subs == conn[c].subs
       IN  /\ conn' = [conn EXCEPT ![c] =
                         [loop |-> [loop EXCEPT !.pc = "ack", !.topic = t, !.todo = @ \ {t}],
                          subs |-> IF loop.adding THEN subs \cup {t} ELSE subs \ {t}]]
           /\ broker' = [broker EXCEPT ![t] = IF loop.adding THEN @ \cup {c}
                                              ELSE IF subCh[c].made THEN @ \ {c} ELSE @]
  /\ UNCHANGED <<subCh, forwarder, wire, gone, stalled, panicked, commands, published>>

Ack(c, t, adding, count) == [kind |-> IF adding THEN "sub" ELSE "unsub", topic |-> t, n |-> count]

(* ... then the acknowledgement.  A failed write ends the connection.      *)
Acknowledge(c) ==
  /\ At(c, "ack")
  /\ IF c \in gone
     THEN /\ conn' = [conn EXCEPT ![c].loop = [Waiting EXCEPT !.pc = "leave"]]
          /\ UNCHANGED wire
     ELSE /\ wire' = [wire EXCEPT ![c] = Append(@, Ack(c, conn[c].loop.topic, conn[c].loop.adding,
                                                      Cardinality(conn[c].subs)))]
          /\ conn' = [conn EXCEPT ![c].loop = IF @.todo = {} THEN Waiting ELSE [@ EXCEPT !.pc = "register"]]
  /\ UNCHANGED <<broker, subCh, forwarder, gone, stalled, panicked, commands, published>>

(* UNSUBSCRIBE without any subscription acknowledges nothing in particular.*)
AcknowledgeNone(c) ==
  /\ At(c, "register") /\ conn[c].loop.todo = {}
  /\ conn' = [conn EXCEPT ![c].loop = [@ EXCEPT !.pc = "ack", !.topic = "none"]]
  /\ UNCHANGED <<broker, subCh, forwarder, wire, gone, stalled, panicked, commands, published>>

-----------------------------------------------------------------------------
(* PUBLISH. *)

(* The targets are copied under the broker's mutex ... *)
handlePublish(c) ==
  /\ Receives(c)
  /\ published < MaxMessages
  /\ published' = published + 1
  /\ \E ch \in Channels :
       conn' = [conn EXCEPT ![c].loop =
                  [Waiting EXCEPT !.pc = "deliver", !.msg = published + 1,
                     !.todo = {p \in Conns \X Topics : <<p[2], ch>> \in Matches /\ p[1] \in broker[p[2]]}]]
  /\ UNCHANGED <<broker, subCh, forwarder, wire, gone, stalled, panicked>>

Message(t, n) == [kind |-> "message", topic |-> t, n |-> n]

(* ... and each is sent to, if its channel has room. *)
Deliver(c) ==
  /\ At(c, "deliver")
  /\ \E target \in conn[c].loop.todo :
       LET d == target[1]
           m == Message(target[2], conn[c].loop.msg)
       IN  /\ conn' = [conn EXCEPT ![c].loop.todo = @ \ {target}]
           /\ panicked' = subCh[d].closed
           /\ subCh' = IF subCh[d].closed \/ Len(subCh[d].buf) >= BufferSize THEN subCh
                       ELSE [subCh EXCEPT ![d].buf = Append(@, m)]
  /\ UNCHANGED <<broker, forwarder, wire, gone, stalled, commands, published>>

PublishReturns(c) ==
  /\ At(c, "deliver") /\ conn[c].loop.todo = {}
  /\ conn' = [conn EXCEPT ![c].loop = IF c \in gone THEN [Waiting EXCEPT !.pc = "leave"] ELSE Waiting]
  /\ UNCHANGED <<broker, subCh, forwarder, wire, gone, stalled, panicked, commands, published>>

-----------------------------------------------------------------------------
(* The forwarder. *)

(* range cs.subCh *)
ForwarderTakes(c) ==
  /\ ~panicked
  /\ forwarder[c].pc = "wait"
  /\ subCh[c].buf # <<>>
  /\ forwarder' = [forwarder EXCEPT ![c] = [pc |-> "write", msg |-> Head(subCh[c].buf)]]
  /\ subCh' = [subCh EXCEPT ![c].buf = Tail(@)]
  /\ UNCHANGED <<broker, conn, wire, gone, stalled, panicked, commands, published>>

ForwarderEnds(c) ==
  /\ ~panicked
  /\ forwarder[c].pc = "wait"
  /\ subCh[c].closed /\ subCh[c].buf = <<>>
  /\ forwarder' = [forwarder EXCEPT ![c].pc = "stopped"]
  /\ UNCHANGED <<broker, conn, subCh, wire, gone, stalled, panicked, commands, published>>

(* Fault: the forwarder does not take writeMu. *)
WritesUnlocked(c) ==
  /\ ~panicked
  /\ forwarder[c].pc = "write"
  /\ wire' = IF c \in gone THEN wire ELSE [wire EXCEPT ![c] = Append(@, forwarder[c].msg)]
  /\ forwarder' = [forwarder EXCEPT ![c].pc = IF c \in gone THEN "stopped" ELSE "wait"]
  /\ UNCHANGED <<broker, conn, subCh, gone, stalled, panicked, commands, published>>

(* Fault: with the loop at work the message is given up. *)
WritesOrDrops(c) ==
  /\ ~panicked
  /\ forwarder[c].pc = "write"
  /\ wire' = IF c \in gone \/ conn[c].loop.pc \in {"register", "ack"} THEN wire
             ELSE [wire EXCEPT ![c] = Append(@, forwarder[c].msg)]
  /\ forwarder' = [forwarder EXCEPT ![c].pc = IF c \in gone THEN "stopped" ELSE "wait"]
  /\ UNCHANGED <<broker, conn, subCh, gone, stalled, panicked, commands, published>>

(* The write waits for writeMu; a failed one ends the forwarder. *)
ForwarderWrites(c) ==
  /\ ~panicked
  /\ forwarder[c].pc = "write"
  /\ conn[c].loop.pc \notin {"register", "ack"}
  /\ wire' = IF c \in gone THEN wire ELSE [wire EXCEPT ![c] = Append(@, forwarder[c].msg)]
  /\ forwarder' = [forwarder EXCEPT ![c].pc = IF c \in gone THEN "stopped" ELSE "wait"]
  /\ UNCHANGED <<broker, conn, subCh, gone, stalled, panicked, commands, published>>

-----------------------------------------------------------------------------
(* Teardown. *)

(* The client hangs up, at any time.  external: the peer and its socket.   *)
HangUp(c) ==
  /\ ~panicked
  /\ c \notin gone /\ commands < MaxCommands
  /\ commands' = commands + 1
  /\ gone' = gone \cup {c}
  /\ UNCHANGED <<broker, conn, subCh, forwarder, wire, stalled, panicked, published>>

(* The client stays connected and never reads again, so that writes to it  *)
(* sooner or later wait for ever.  One that pauses and reads on is only    *)
(* slow.  external: the peer.                                              *)
StopsReading(c) ==
  /\ ~panicked
  /\ c \notin gone \cup stalled /\ commands < MaxCommands
  /\ commands' = commands + 1
  /\ stalled' = stalled \cup {c}
  /\ UNCHANGED <<broker, conn, subCh, forwarder, wire, gone, panicked, published>>

(* QUIT: the loop ends although the client is still there, once its reply  *)
(* is flushed; whether that failed is ignored.                             *)
Quit(c) ==
  /\ Receives(c)
  /\ conn' = [conn EXCEPT ![c].loop = [Waiting EXCEPT !.pc = "quit"]]
  /\ UNCHANGED <<broker, subCh, forwarder, wire, gone, stalled, panicked, published>>

QuitReturns(c) ==
  /\ At(c, "quit")
  /\ conn' = [conn EXCEPT ![c].loop = [Waiting EXCEPT !.pc = "leave"]]
  /\ UNCHANGED <<broker, subCh, forwarder, wire, gone, stalled, panicked, commands, published>>

ReadFails(c) ==
  /\ At(c, "read")
  /\ c \in gone
  /\ conn' = [conn EXCEPT ![c].loop = [Waiting EXCEPT !.pc = "leave"]]
  /\ UNCHANGED <<broker, subCh, forwarder, wire, gone, stalled, panicked, commands, published>>

(* Fault: pattern subscriptions survive the connection. *)
LeavesChannelsOnly(c) ==
  /\ At(c, "leave")
  /\ broker' = [t \in Topics |-> IF t \in Channels THEN broker[t] \ {c} ELSE broker[t]]
  /\ conn' = [conn EXCEPT ![c].loop = [Waiting EXCEPT !.pc = IF subCh[c].made THEN "close" ELSE "done"]]
  /\ UNCHANGED <<subCh, forwarder, wire, gone, stalled, panicked, commands, published>>

(* cleanupSubscriptions: first the broker ... *)
UnsubscribeAll(c) ==
  /\ At(c, "leave")
  /\ broker' = [t \in Topics |-> broker[t] \ {c}]
  /\ conn' = [conn EXCEPT ![c].loop = [Waiting EXCEPT !.pc = IF subCh[c].made THEN "close" ELSE "done"]]
  /\ UNCHANGED <<subCh, forwarder, wire, gone, stalled, panicked, commands, published>>

(* Fault: the channel is left open. *)
LeavesChannelOpen(c) ==
  /\ At(c, "close")
  /\ conn' = [conn EXCEPT ![c].loop.pc = "done"]
  /\ gone' = gone \cup {c}
  /\ UNCHANGED <<broker, subCh, forwarder, wire, stalled, panicked, commands, published>>

(* ... then the channel; then HandleConn closes the socket. *)
CloseChannel(c) ==
  /\ At(c, "close")
  /\ subCh' = [subCh EXCEPT ![c].closed = TRUE]
  /\ conn' = [conn EXCEPT ![c].loop.pc = "done"]
  /\ gone' = gone \cup {c}
  /\ UNCHANGED <<broker, forwarder, wire, stalled, panicked, commands, published>>

-----------------------------------------------------------------------------
(* Steps that write to the client's socket.  A write has no deadline: it   *)
(* may find room in the buffers on its way to a client that does not read, *)
(* or wait.                                                                *)
LoopWrites(c) == Acknowledge(c) \/ PublishReturns(c) \/ QuitReturns(c)

LoopRuns(c) ==
  \/ Register(c) \/ AcknowledgeNone(c) \/ Deliver(c)
  \/ ReadFails(c) \/ UnsubscribeAll(c) \/ CloseChannel(c)

Loop(c) == LoopRuns(c) \/ LoopWrites(c)

ForwarderRuns(c) == ForwarderTakes(c) \/ ForwarderEnds(c)

Forward(c) == ForwarderRuns(c) \/ ForwarderWrites(c)

Client(c) ==
  \/ handleSubscribe(c) \/ handleUnsubscribe(c) \/ handlePublish(c) \/ Quit(c)
  \/ HangUp(c) \/ StopsReading(c)

(* A write to c ends: c reads on, or its socket is closed.                 *)
WriteEnds(c) == c \notin stalled \/ c \in gone

(* Nothing more need happen once every connection is idle, over or stuck   *)
(* in a write, or the process has died.                                    *)
Quiet ==
  /\ panicked \/ \A c \in Conns : conn[c].loop.pc \in {"read", "done"} \/ ~WriteEnds(c)
  /\ UNCHANGED vars

Next == (\E c \in Conns : Client(c) \/ Loop(c) \/ Forward(c)) \/ Quiet

Spec == Init /\ [][Next]_vars

(* Goroutines keep running, but a write is sure to end only if its client  *)
(* reads on or its socket is closed.  Clients need not do anything.        *)
FairSpec ==
  /\ Spec
  /\ \A c \in Conns :
       /\ WF_vars(LoopRuns(c)) /\ WF_vars(LoopWrites(c) /\ WriteEnds(c))
       /\ WF_vars(ForwarderRuns(c)) /\ WF_vars(ForwarderWrites(c) /\ WriteEnds(c))

-----------------------------------------------------------------------------
(* Properties. *)

(* A client never gets a message for a topic before the acknowledgement of *)
(* its subscription, although the broker knows of the subscription first   *)
(* and another goroutine writes the message.                               *)
AckBeforeMessages ==
  \A c \in Conns : \A i \in 1..Len(wire[c]) :
    wire[c][i].kind = "message" =>
      \E j \in 1..(i - 1) : wire[c][j].kind = "sub" /\ wire[c][j].topic = wire[c][i].topic

(* The broker's registrations and the connections' own records agree, and  *)
(* nothing of a connection stays behind in the broker.                     *)
BrokerAgrees ==
  \A c \in Conns, t \in Topics :
    c \in broker[t] <=> t \in conn[c].subs /\ conn[c].loop.pc \notin {"close", "done"}

(* m is in c's channel or in the hands of its forwarder; m is on the wire. *)
Pending(c, m) ==
  \/ \E i \in 1..Len(subCh[c].buf) : subCh[c].buf[i] = m
  \/ forwarder[c].pc = "write" /\ forwarder[c].msg = m

Written(c, m) == \E i \in 1..Len(wire[c]) : wire[c][i] = m

(* Every message that a publisher got into a client's channel is written   *)
(* to that client, as long as the client stays and reads on; and a         *)
(* publisher gets through its targets, whoever of them does not read.      *)
MessagesForwarded ==
  /\ \A c \in Conns, t \in Topics, n \in 1..MaxMessages :
       Pending(c, Message(t, n)) ~> \/ Written(c, Message(t, n))
                                    \/ c \in gone \cup stalled \/ panicked
  /\ \A c \in Conns : conn[c].loop.pc = "deliver" ~> conn[c].loop.todo = {} \/ panicked

(* No forwarder outlives its connection, not even one that waits in a      *)
(* write to a client that does not read: closing the socket ends the write.*)
ForwarderStops ==
  \A c \in Conns : conn[c].loop.pc = "done" ~> forwarder[c].pc \in {"none", "stopped"} \/ panicked

(* Publish's comment: a delivery is made or, to a slow subscriber, dropped.*)
(* Publishing never brings the server down.                                *)
PublishSurvives == ~panicked
=============================================================================
