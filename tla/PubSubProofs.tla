----------------------------- MODULE PubSubProofs -----------------------------
(***************************************************************************)
(* Proofs about publish/subscribe, for any connections, channels, patterns *)
(* and buffer size.                                                        *)
(***************************************************************************)
EXTENDS PubSub, TLAPS

LoopPCs == {"read", "register", "ack", "deliver", "quit", "leave", "close", "done"}

Loops == [pc : LoopPCs, todo : SUBSET (Topics \cup (Conns \X Topics)), adding : BOOLEAN,
          topic : Topics \cup {"none"}, msg : Nat]

Frames == [kind : {"sub", "unsub", "message"}, topic : Topics \cup {"none"},
           n : Nat \cup {Cardinality(S) : S \in SUBSET Topics}]

Messages == [kind : {"message"}, topic : Topics, n : Nat]

TypeInv ==
  /\ broker \in [Topics -> SUBSET Conns]
  /\ conn \in [Conns -> [loop : Loops, subs : SUBSET Topics]]
  /\ subCh \in [Conns -> [made : BOOLEAN, closed : BOOLEAN, buf : Seq(Messages)]]
  /\ forwarder \in [Conns -> [pc : {"none", "wait", "write", "stopped"}, msg : Messages \cup {<<>>}]]
  /\ wire \in [Conns -> Seq(Frames)]
  /\ gone \subseteq Conns
  /\ published \in Nat

(* What the loop is busy with fits where it is. *)
TodoInv ==
  \A c \in Conns :
    /\ conn[c].loop.pc \in {"register", "ack"} => conn[c].loop.todo \subseteq Topics
    /\ conn[c].loop.pc = "deliver" => conn[c].loop.todo \subseteq Conns \X Topics
    /\ forwarder[c].pc = "write" => forwarder[c].msg \in Messages

(* Only a connection with a channel has subscriptions. *)
MadeInv ==
  \A c \in Conns :
    ~subCh[c].made => /\ conn[c].subs = {}
                      /\ conn[c].loop.pc \in {"register", "ack"} => ~conn[c].loop.adding

(* A message for topic t may still be written to c: c is registered, or    *)
(* somebody is about to send to it, or the message is buffered or in the   *)
(* forwarder's hands.                                                      *)
Reaches(c, t) ==
  \/ c \in broker[t]
  \/ \E d \in Conns : conn[d].loop.pc = "deliver" /\ <<c, t>> \in conn[d].loop.todo
  \/ \E i \in 1..Len(subCh[c].buf) : subCh[c].buf[i].topic = t
  \/ forwarder[c].pc = "write" /\ forwarder[c].msg.topic = t

Acked(c, t) == \E i \in 1..Len(wire[c]) : wire[c][i].kind = "sub" /\ wire[c][i].topic = t

Acking(c, t) == conn[c].loop.pc = "ack" /\ conn[c].loop.adding /\ conn[c].loop.topic = t

(* Then its subscription was acknowledged, or is just being acknowledged   *)
(* with writeMu held, or nothing is written to c any more.                 *)
ReachInv ==
  \A c \in Conns, t \in Topics : Reaches(c, t) => Acked(c, t) \/ Acking(c, t) \/ c \in gone

Inv == TypeInv /\ TodoInv /\ MadeInv /\ BrokerAgrees /\ ReachInv /\ AckBeforeMessages

-----------------------------------------------------------------------------
LEMMA WaitingType == Waiting \in Loops
  BY DEF Waiting, Loops, LoopPCs

LEMMA InitInv == Init => Inv
<1> SUFFICES ASSUME Init PROVE Inv
  OBVIOUS
<1>1. TypeInv
  BY WaitingType DEF Init, TypeInv
<1>2. TodoInv /\ MadeInv /\ BrokerAgrees
  BY DEF Init, TodoInv, MadeInv, BrokerAgrees, Waiting
<1>3. ReachInv
  BY DEF Init, ReachInv, Reaches, Waiting
<1>4. AckBeforeMessages
  BY DEF Init, AckBeforeMessages
<1> QED
  BY <1>1, <1>2, <1>3, <1>4 DEF Inv

(* Nothing moves but the loop of c, and that not to where it would owe     *)
(* somebody something.                                                     *)
LEMMA LoopMoves ==
  ASSUME Inv, NEW c \in Conns, NEW l \in Loops,
         conn' = [conn EXCEPT ![c].loop = l],
         UNCHANGED <<broker, subCh, forwarder, wire>>, gone' \in {gone, gone \cup {c}},
         published' \in Nat,
         l.pc \in {"register", "ack"} =>
           l.todo \subseteq Topics /\ (l.adding => subCh[c].made),
         l.pc = "deliver" =>
           /\ l.todo \subseteq Conns \X Topics
           /\ \A d \in Conns, t \in Topics : <<d, t>> \in l.todo => Reaches(d, t),
         l.pc \in {"close", "done"} <=> conn[c].loop.pc \in {"close", "done"},
         \A t \in Topics : ~Acking(c, t) \/ c \in gone'
  PROVE  Inv'
<1>1. /\ conn'[c].loop = l /\ conn'[c].subs = conn[c].subs
      /\ \A d \in Conns \ {c} : conn'[d] = conn[d]
  BY DEF Inv, TypeInv
<1>2. TypeInv'
  BY ZenonT(40) DEF Inv, TypeInv
<1>3. TodoInv' /\ MadeInv'
  BY <1>1 DEF Inv, TodoInv, MadeInv, TypeInv
<1>4. BrokerAgrees'
  BY <1>1 DEF Inv, BrokerAgrees
<1>5. ReachInv'
  <2> SUFFICES ASSUME NEW d \in Conns, NEW t \in Topics, Reaches(d, t)'
               PROVE  Acked(d, t)' \/ Acking(d, t)' \/ d \in gone'
    BY DEF ReachInv
  <2>1. Reaches(d, t)
    BY <1>1 DEF Reaches
  <2>2. Acked(d, t) \/ Acking(d, t) \/ d \in gone
    BY <2>1 DEF Inv, ReachInv
  <2>3. Acked(d, t) => Acked(d, t)'
    BY DEF Acked
  <2>4. Acking(d, t) => Acking(d, t)' \/ d \in gone'
    BY <1>1 DEF Acking
  <2> QED
    BY <2>2, <2>3, <2>4
<1>6. AckBeforeMessages'
  BY DEF Inv, AckBeforeMessages
<1> QED
  BY <1>2, <1>3, <1>4, <1>5, <1>6 DEF Inv

-----------------------------------------------------------------------------
(* The steps that move only the loop. *)
LEMMA LoopOnlyInv ==
  ASSUME Inv, NEW c \in Conns,
         handleUnsubscribe(c) \/ handlePublish(c) \/ PublishReturns(c) \/ AcknowledgeNone(c)
           \/ Quit(c) \/ QuitReturns(c) \/ ReadFails(c) \/ (Acknowledge(c) /\ c \in gone)
  PROVE  Inv'
<1>1. conn[c].loop \in Loops /\ published \in Nat /\ conn[c].subs \subseteq Topics
  BY DEF Inv, TypeInv
<1>2. CASE handleUnsubscribe(c)
  <2>0. PICK kind \in {Channels, Patterns} : \E T \in SUBSET kind :
          conn' = [conn EXCEPT ![c].loop =
                     [Waiting EXCEPT !.pc = "register",
                        !.todo = IF T = {} THEN conn[c].subs \cap kind ELSE T]]
    BY <1>2, Zenon DEF handleUnsubscribe
  <2>1. PICK T \in SUBSET kind :
          conn' = [conn EXCEPT ![c].loop =
                     [Waiting EXCEPT !.pc = "register",
                        !.todo = IF T = {} THEN conn[c].subs \cap kind ELSE T]]
    BY <2>0
  <2> DEFINE l == [Waiting EXCEPT !.pc = "register",
                     !.todo = IF T = {} THEN conn[c].subs \cap kind ELSE T]
  <2>2. l \in Loops /\ l.pc = "register" /\ l.todo \subseteq Topics /\ ~l.adding
    BY <1>1, WaitingType DEF Waiting, Loops, LoopPCs, Topics
  <2>3. conn[c].loop.pc = "read"
    BY <1>2 DEF handleUnsubscribe, Receives, At
  <2>4. conn' = [conn EXCEPT ![c].loop = l]
    BY <2>1
  <2>5. UNCHANGED <<broker, subCh, forwarder, wire, gone, published>>
    BY <1>2 DEF handleUnsubscribe
  <2> HIDE DEF l
  <2> QED
    BY <1>1, <2>2, <2>3, <2>4, <2>5, LoopMoves DEF Acking
<1>3. CASE handlePublish(c)
  <2>1. PICK ch \in Channels :
          conn' = [conn EXCEPT ![c].loop =
                     [Waiting EXCEPT !.pc = "deliver", !.msg = published + 1,
                        !.todo = {p \in Conns \X Topics : <<p[2], ch>> \in Matches /\ p[1] \in broker[p[2]]}]]
    BY <1>3 DEF handlePublish
  <2> DEFINE targets == {p \in Conns \X Topics : <<p[2], ch>> \in Matches /\ p[1] \in broker[p[2]]}
             l == [Waiting EXCEPT !.pc = "deliver", !.msg = published + 1, !.todo = targets]
  <2>a. targets \subseteq Conns \X Topics /\ targets \in SUBSET (Topics \cup (Conns \X Topics))
    OBVIOUS
  <2>b. \A d \in Conns, t \in Topics : <<d, t>> \in targets => Reaches(d, t)
    BY DEF Reaches
  <2>5. conn' = [conn EXCEPT ![c].loop = l]
    BY <2>1
  <2> HIDE DEF targets
  <2>c. published + 1 \in Nat
    BY <1>1
  <2>d. /\ DOMAIN l = {"pc", "todo", "adding", "topic", "msg"}
        /\ l.pc = "deliver" /\ l.todo = targets /\ ~l.adding /\ l.topic = "none" /\ l.msg = published + 1
    BY DEF Waiting
  <2>e. l \in Loops
    BY <1>1, <2>a, <2>c DEF Waiting, Loops, LoopPCs
  <2>2. l \in Loops /\ l.pc = "deliver" /\ l.todo \subseteq Conns \X Topics
    BY <2>a, <2>d, <2>e
  <2>3. \A d \in Conns, t \in Topics : <<d, t>> \in l.todo => Reaches(d, t)
    BY <2>b DEF Waiting
  <2>4. conn[c].loop.pc = "read"
    BY <1>3 DEF handlePublish, Receives, At
  <2>6. UNCHANGED <<broker, subCh, forwarder, wire, gone>> /\ published' = published + 1
    BY <1>3, Zenon DEF handlePublish
  <2>7. published' \in Nat
    BY <1>1, <2>6
  <2> HIDE DEF l
  <2> QED
    BY <1>1, <2>2, <2>3, <2>4, <2>5, <2>6, <2>7, LoopMoves DEF Acking
<1>4. CASE AcknowledgeNone(c)
  <2> DEFINE l == [conn[c].loop EXCEPT !.pc = "ack", !.topic = "none"]
  <2>1. l \in Loops /\ l.pc = "ack" /\ l.todo = conn[c].loop.todo /\ l.adding = conn[c].loop.adding
    BY <1>1 DEF Loops, LoopPCs
  <2>2. conn[c].loop.pc = "register"
    BY <1>4 DEF AcknowledgeNone, At
  <2>3. conn' = [conn EXCEPT ![c].loop = l]
    BY <1>4 DEF AcknowledgeNone
  <2>4. UNCHANGED <<broker, subCh, forwarder, wire, gone, published>>
    BY <1>4 DEF AcknowledgeNone
  <2>5. l.todo \subseteq Topics /\ (l.adding => subCh[c].made)
    BY <2>1, <2>2 DEF Inv, TodoInv, MadeInv
  <2> HIDE DEF l
  <2> QED
    BY <1>1, <2>1, <2>2, <2>3, <2>4, <2>5, LoopMoves DEF Acking
<1>5. CASE PublishReturns(c) \/ Quit(c) \/ QuitReturns(c) \/ ReadFails(c)
            \/ (Acknowledge(c) /\ c \in gone)
  <2>1. PICK l \in {Waiting, [Waiting EXCEPT !.pc = "quit"], [Waiting EXCEPT !.pc = "leave"]} :
          conn' = [conn EXCEPT ![c].loop = l]
    BY <1>5 DEF PublishReturns, Quit, QuitReturns, ReadFails, Acknowledge
  <2>2. l \in Loops /\ l.pc \in {"read", "quit", "leave"}
    BY WaitingType DEF Waiting, Loops, LoopPCs
  <2>3. /\ conn[c].loop.pc \in {"read", "deliver", "quit", "ack"}
        /\ conn[c].loop.pc = "ack" => c \in gone
    BY <1>5 DEF PublishReturns, Quit, QuitReturns, ReadFails, Acknowledge, Receives, At
  <2>4. UNCHANGED <<broker, subCh, forwarder, wire, gone, published>>
    BY <1>5 DEF PublishReturns, Quit, QuitReturns, ReadFails, Acknowledge
  <2> QED
    BY <1>1, <2>1, <2>2, <2>3, <2>4, LoopMoves DEF Acking
<1> QED
  BY <1>2, <1>3, <1>4, <1>5

(* The client hangs up, or reads no more. *)
LEMMA HangUpInv ==
  ASSUME Inv, NEW c \in Conns, HangUp(c) \/ StopsReading(c)
  PROVE  Inv'
<1>1. UNCHANGED <<broker, conn, subCh, forwarder, wire, published>> /\ gone' \in {gone, gone \cup {c}}
  BY DEF HangUp, StopsReading
<1>2. TypeInv'
  BY <1>1 DEF Inv, TypeInv
<1>3. TodoInv' /\ MadeInv' /\ BrokerAgrees' /\ AckBeforeMessages'
  BY <1>1 DEF Inv, TodoInv, MadeInv, BrokerAgrees, AckBeforeMessages
<1>4. ReachInv'
  BY <1>1 DEF Inv, ReachInv, Reaches, Acked, Acking
<1> QED
  BY <1>2, <1>3, <1>4 DEF Inv

-----------------------------------------------------------------------------
(* SUBSCRIBE makes the channel and starts the forwarder, if need be. *)
LEMMA handleSubscribeInv ==
  ASSUME Inv, NEW c \in Conns, handleSubscribe(c)
  PROVE  Inv'
<1>1. PICK T \in (SUBSET Channels) \cup (SUBSET Patterns) :
        conn' = [conn EXCEPT ![c].loop = [Waiting EXCEPT !.pc = "register", !.todo = T, !.adding = TRUE]]
  BY DEF handleSubscribe
<1> DEFINE l == [Waiting EXCEPT !.pc = "register", !.todo = T, !.adding = TRUE]
<1>2. l \in Loops /\ l.pc = "register" /\ l.todo \subseteq Topics /\ T \subseteq Topics
  BY WaitingType DEF Waiting, Loops, LoopPCs, Topics
<1>3. conn[c].loop.pc = "read"
  BY DEF handleSubscribe, Receives, At
<1>4. conn' = [conn EXCEPT ![c].loop = l]
  BY <1>1
<1> HIDE DEF l
<1>5. /\ conn'[c].loop = l /\ conn'[c].subs = conn[c].subs
      /\ \A d \in Conns \ {c} : conn'[d] = conn[d]
  BY <1>4 DEF Inv, TypeInv
<1>a. /\ subCh' = [subCh EXCEPT ![c].made = TRUE]
      /\ forwarder' = IF subCh[c].made THEN forwarder ELSE [forwarder EXCEPT ![c].pc = "wait"]
      /\ UNCHANGED <<broker, wire, gone, published>>
  BY Zenon DEF handleSubscribe
<1>6. /\ subCh' \in [Conns -> [made : BOOLEAN, closed : BOOLEAN, buf : Seq(Messages)]]
      /\ \A d \in Conns : subCh'[d].buf = subCh[d].buf
      /\ subCh'[c].made
      /\ \A d \in Conns \ {c} : subCh'[d] = subCh[d]
  BY <1>a DEF Inv, TypeInv
<1>7. /\ forwarder' \in [Conns -> [pc : {"none", "wait", "write", "stopped"}, msg : Messages \cup {<<>>}]]
      /\ \A d \in Conns : forwarder'[d].pc = "write" => forwarder'[d] = forwarder[d]
  BY <1>a DEF Inv, TypeInv
<1>8. UNCHANGED <<broker, wire, gone, published>>
  BY <1>a
<1>b. conn' \in [Conns -> [loop : Loops, subs : SUBSET Topics]]
  BY <1>2, <1>4 DEF Inv, TypeInv
<1>9. TypeInv'
  BY <1>b, <1>6, <1>7, <1>8 DEF Inv, TypeInv
<1>10. TodoInv' /\ MadeInv'
  BY <1>2, <1>5, <1>6, <1>7 DEF Inv, TodoInv, MadeInv
<1>11. BrokerAgrees' /\ AckBeforeMessages'
  BY <1>2, <1>3, <1>5, <1>8 DEF Inv, BrokerAgrees, AckBeforeMessages
<1>12. ReachInv'
  <2> SUFFICES ASSUME NEW d \in Conns, NEW t \in Topics, Reaches(d, t)'
               PROVE  Acked(d, t)' \/ Acking(d, t)' \/ d \in gone'
    BY DEF ReachInv
  <2>1. Reaches(d, t)
    BY <1>2, <1>5, <1>6, <1>7, <1>8 DEF Reaches
  <2>2. Acked(d, t) \/ Acking(d, t) \/ d \in gone
    BY <2>1 DEF Inv, ReachInv
  <2>3. Acking(d, t) => Acking(d, t)'
    BY <1>3, <1>5 DEF Acking
  <2> QED
    BY <1>8, <2>2, <2>3 DEF Acked
<1> QED
  BY <1>9, <1>10, <1>11, <1>12 DEF Inv

(* The reply registers or removes a topic: c is then acknowledging it. *)
LEMMA RegisterInv ==
  ASSUME Inv, NEW c \in Conns, Register(c)
  PROVE  Inv'
<1>1. PICK t \in conn[c].loop.todo :
        /\ conn' = [conn EXCEPT ![c] =
                      [loop |-> [conn[c].loop EXCEPT !.pc = "ack", !.topic = t, !.todo = @ \ {t}],
                       subs |-> IF conn[c].loop.adding THEN conn[c].subs \cup {t}
                                ELSE conn[c].subs \ {t}]]
        /\ broker' = [broker EXCEPT ![t] = IF conn[c].loop.adding THEN @ \cup {c}
                                           ELSE IF subCh[c].made THEN @ \ {c} ELSE @]
  BY DEF Register
<1>2. conn[c].loop.pc = "register" /\ UNCHANGED <<subCh, forwarder, wire, gone, published>>
  BY DEF Register, At
<1>3. conn[c].loop \in Loops /\ conn[c].subs \subseteq Topics
  BY DEF Inv, TypeInv
<1>4. conn[c].loop.todo \subseteq Topics /\ t \in Topics
  BY <1>1, <1>2 DEF Inv, TodoInv
<1> DEFINE l == [conn[c].loop EXCEPT !.pc = "ack", !.topic = t, !.todo = @ \ {t}]
           s == IF conn[c].loop.adding THEN conn[c].subs \cup {t} ELSE conn[c].subs \ {t}
<1>5. /\ l \in Loops /\ l.pc = "ack" /\ l.topic = t /\ l.adding = conn[c].loop.adding
      /\ l.todo = conn[c].loop.todo \ {t}
  BY <1>3, <1>4 DEF Loops, LoopPCs
<1>6. conn' = [conn EXCEPT ![c] = [loop |-> l, subs |-> s]]
  BY <1>1
<1>7. s \subseteq Topics
  BY <1>3, <1>4
<1>8. \A u \in Topics : u \in s <=> IF u = t THEN conn[c].loop.adding ELSE u \in conn[c].subs
  OBVIOUS
<1>9. s = {} \/ conn[c].loop.adding \/ conn[c].subs # {}
  OBVIOUS
<1> HIDE DEF l, s
<1>10. /\ conn'[c].loop = l /\ conn'[c].subs = s
       /\ \A d \in Conns \ {c} : conn'[d] = conn[d]
  BY <1>6 DEF Inv, TypeInv
<1>11. \A u \in Topics \ {t} : broker'[u] = broker[u]
  BY <1>1, <1>4 DEF Inv, TypeInv
<1>12. broker'[t] = IF conn[c].loop.adding THEN broker[t] \cup {c}
                    ELSE IF subCh[c].made THEN broker[t] \ {c} ELSE broker[t]
  BY <1>1, <1>4 DEF Inv, TypeInv
<1>13. TypeInv'
  <2>1. broker' \in [Topics -> SUBSET Conns]
    BY <1>1, <1>4 DEF Inv, TypeInv
  <2>2. conn' \in [Conns -> [loop : Loops, subs : SUBSET Topics]]
    BY <1>5, <1>6, <1>7 DEF Inv, TypeInv
  <2> QED
    BY <1>2, <2>1, <2>2 DEF Inv, TypeInv
<1>14. TodoInv'
  BY <1>2, <1>4, <1>5, <1>10 DEF Inv, TodoInv
<1>15. MadeInv'
  BY <1>2, <1>5, <1>9, <1>10 DEF Inv, MadeInv
<1>16. BrokerAgrees'
  <2> SUFFICES ASSUME NEW d \in Conns, NEW u \in Topics
               PROVE  (d \in broker[u] <=> u \in conn[d].subs /\ conn[d].loop.pc \notin {"close", "done"})'
    BY DEF BrokerAgrees
  <2>1. CASE d # c \/ u # t
    BY <1>2, <1>5, <1>8, <1>10, <1>11, <1>12, <2>1 DEF Inv, BrokerAgrees
  <2>2. CASE d = c /\ u = t /\ (conn[c].loop.adding \/ subCh[c].made)
    BY <1>2, <1>5, <1>8, <1>10, <1>12, <2>2 DEF Inv, BrokerAgrees
  <2>3. CASE d = c /\ u = t /\ ~conn[c].loop.adding /\ ~subCh[c].made
    BY <1>2, <1>5, <1>8, <1>10, <1>12, <2>3 DEF Inv, BrokerAgrees, MadeInv
  <2> QED
    BY <2>1, <2>2, <2>3
<1>17. ReachInv'
  <2> SUFFICES ASSUME NEW d \in Conns, NEW u \in Topics, Reaches(d, u)'
               PROVE  Acked(d, u)' \/ Acking(d, u)' \/ d \in gone'
    BY DEF ReachInv
  <2>1. CASE d = c /\ u = t /\ conn[c].loop.adding
    BY <1>5, <1>10, <2>1 DEF Acking
  <2>2. CASE ~(d = c /\ u = t /\ conn[c].loop.adding)
    <3>1. Reaches(d, u)
      BY <1>2, <1>5, <1>10, <1>11, <1>12, <2>2 DEF Reaches
    <3>2. Acked(d, u) \/ Acking(d, u) \/ d \in gone
      BY <3>1 DEF Inv, ReachInv
    <3>3. Acking(d, u) => Acking(d, u)'
      BY <1>2, <1>10 DEF Acking
    <3> QED
      BY <1>2, <3>2, <3>3 DEF Acked
  <2> QED
    BY <2>1, <2>2
<1>18. AckBeforeMessages'
  BY <1>2 DEF Inv, AckBeforeMessages
<1> QED
  BY <1>13, <1>14, <1>15, <1>16, <1>17, <1>18 DEF Inv

-----------------------------------------------------------------------------
LEMMA MessagesAreFrames == Messages \subseteq Frames
  BY DEF Messages, Frames

(* What a write to the client c, of the frame f, does to what was written. *)
LEMMA WireGrows ==
  ASSUME Inv, NEW c \in Conns, NEW f \in Frames, wire' = [wire EXCEPT ![c] = Append(@, f)],
         f.kind = "message" => Acked(c, f.topic)
  PROVE  /\ wire' \in [Conns -> Seq(Frames)]
         /\ \A d \in Conns, t \in Topics : Acked(d, t) => Acked(d, t)'
         /\ \A t \in Topics : f.kind = "sub" /\ f.topic = t => Acked(c, t)'
         /\ AckBeforeMessages'
<1>1. /\ wire[c] \in Seq(Frames)
      /\ wire' \in [Conns -> Seq(Frames)]
      /\ wire'[c] = Append(wire[c], f)
      /\ \A d \in Conns \ {c} : wire'[d] = wire[d]
  BY DEF Inv, TypeInv
<1>2. /\ Len(wire'[c]) = Len(wire[c]) + 1 /\ Len(wire[c]) \in Nat
      /\ wire'[c][Len(wire[c]) + 1] = f
      /\ \A i \in 1..Len(wire[c]) : wire'[c][i] = wire[c][i]
  BY <1>1
<1>3. \A d \in Conns, t \in Topics : Acked(d, t) => Acked(d, t)'
  BY <1>1, <1>2 DEF Acked
<1>4. \A t \in Topics : f.kind = "sub" /\ f.topic = t => Acked(c, t)'
  BY <1>1, <1>2 DEF Acked
<1>5. AckBeforeMessages'
  <2> SUFFICES ASSUME NEW d \in Conns, NEW i \in 1..Len(wire'[d]), wire'[d][i].kind = "message"
               PROVE  \E j \in 1..(i - 1) : wire'[d][j].kind = "sub" /\ wire'[d][j].topic = wire'[d][i].topic
    BY DEF AckBeforeMessages
  <2>1. CASE d # c
    BY <1>1, <2>1 DEF Inv, AckBeforeMessages
  <2>2. CASE d = c /\ i \in 1..Len(wire[c])
    <3>1. wire'[c][i] = wire[c][i]
      BY <1>2, <2>2
    <3>2. PICK j \in 1..(i - 1) : wire[c][j].kind = "sub" /\ wire[c][j].topic = wire[c][i].topic
      BY <2>2, <3>1 DEF Inv, AckBeforeMessages
    <3>3. j \in 1..Len(wire[c])
      BY <1>2, <2>2
    <3> QED
      BY <1>2, <2>2, <3>1, <3>2, <3>3
  <2>3. CASE d = c /\ i = Len(wire[c]) + 1
    <3>1. PICK j \in 1..Len(wire[c]) : wire[c][j].kind = "sub" /\ wire[c][j].topic = f.topic
      BY <1>2, <2>3 DEF Acked
    <3>2. j \in 1..(i - 1)
      BY <1>2, <2>3
    <3> QED
      BY <1>2, <2>3, <3>1, <3>2
  <2> QED
    BY <1>2, <2>1, <2>2, <2>3
<1> QED
  BY <1>1, <1>3, <1>4, <1>5

(* The acknowledgement, written while the client is there: from here on    *)
(* messages for the topic may follow.                                      *)
LEMMA AcknowledgeInv ==
  ASSUME Inv, NEW c \in Conns, Acknowledge(c), c \notin gone
  PROVE  Inv'
<1> DEFINE f == Ack(c, conn[c].loop.topic, conn[c].loop.adding, Cardinality(conn[c].subs))
           l == IF conn[c].loop.todo = {} THEN Waiting ELSE [conn[c].loop EXCEPT !.pc = "register"]
<1>1. /\ conn[c].loop.pc = "ack"
      /\ wire' = [wire EXCEPT ![c] = Append(@, f)]
      /\ conn' = [conn EXCEPT ![c].loop = l]
      /\ UNCHANGED <<broker, subCh, forwarder, gone, published>>
  BY DEF Acknowledge, At
<1>2. conn[c].loop \in Loops /\ conn[c].subs \subseteq Topics
  BY DEF Inv, TypeInv
<1>3. f \in Frames /\ f.kind # "message" /\ f.topic = conn[c].loop.topic
  BY <1>2 DEF Ack, Frames, Loops
<1>4. conn[c].loop.adding => f.kind = "sub"
  BY DEF Ack
<1>5. l \in Loops /\ l.pc \in {"read", "register"}
  BY <1>2, WaitingType DEF Waiting, Loops, LoopPCs
<1>6. l.pc = "register" => l.todo = conn[c].loop.todo /\ l.adding = conn[c].loop.adding
  BY <1>2 DEF Waiting, Loops
<1> HIDE DEF f, l
<1>7. /\ conn'[c].loop = l /\ conn'[c].subs = conn[c].subs
      /\ \A d \in Conns \ {c} : conn'[d] = conn[d]
  BY <1>1 DEF Inv, TypeInv
<1>8. /\ wire' \in [Conns -> Seq(Frames)]
      /\ \A d \in Conns, t \in Topics : Acked(d, t) => Acked(d, t)'
      /\ \A t \in Topics : f.kind = "sub" /\ f.topic = t => Acked(c, t)'
      /\ AckBeforeMessages'
  BY <1>1, <1>3, WireGrows
<1>9. TypeInv'
  <2>1. conn' \in [Conns -> [loop : Loops, subs : SUBSET Topics]]
    BY <1>1, <1>5 DEF Inv, TypeInv
  <2> QED
    BY <1>1, <1>8, <2>1 DEF Inv, TypeInv
<1>10. TodoInv' /\ MadeInv'
  BY <1>1, <1>5, <1>6, <1>7 DEF Inv, TodoInv, MadeInv
<1>11. BrokerAgrees'
  BY <1>1, <1>5, <1>7 DEF Inv, BrokerAgrees
<1>12. ReachInv'
  <2> SUFFICES ASSUME NEW d \in Conns, NEW t \in Topics, Reaches(d, t)'
               PROVE  Acked(d, t)' \/ Acking(d, t)' \/ d \in gone'
    BY DEF ReachInv
  <2>1. Reaches(d, t)
    BY <1>1, <1>5, <1>7 DEF Reaches
  <2>2. Acked(d, t) \/ Acking(d, t) \/ d \in gone
    BY <2>1 DEF Inv, ReachInv
  <2>3. d = c /\ Acking(d, t) => Acked(d, t)'
    BY <1>3, <1>4, <1>8 DEF Acking
  <2>4. d # c /\ Acking(d, t) => Acking(d, t)'
    BY <1>7 DEF Acking
  <2> QED
    BY <1>1, <1>8, <2>2, <2>3, <2>4
<1> QED
  BY <1>8, <1>9, <1>10, <1>11, <1>12 DEF Inv

-----------------------------------------------------------------------------
(* PUBLISH sends to a target it copied earlier: the topic need no longer   *)
(* be one that the target is subscribed to, but it was acknowledged.       *)
LEMMA DeliverInv ==
  ASSUME Inv, NEW c \in Conns, Deliver(c)
  PROVE  Inv'
<1>1. PICK target \in conn[c].loop.todo :
        LET d == target[1]
            m == [kind |-> "message", topic |-> target[2], n |-> conn[c].loop.msg]
        IN  /\ conn' = [conn EXCEPT ![c].loop.todo = @ \ {target}]
            /\ subCh' = IF subCh[d].closed \/ Len(subCh[d].buf) >= BufferSize THEN subCh
                        ELSE [subCh EXCEPT ![d].buf = Append(@, m)]
  BY DEF Deliver, Message
<1>2. conn[c].loop.pc = "deliver" /\ UNCHANGED <<broker, forwarder, wire, gone, published>>
  BY DEF Deliver, At, Message
<1>3. target \in Conns \X Topics
  BY <1>1, <1>2 DEF Inv, TodoInv
<1> DEFINE d == target[1]
           u == target[2]
           m == [kind |-> "message", topic |-> u, n |-> conn[c].loop.msg]
<1>4. d \in Conns /\ u \in Topics /\ target = <<d, u>>
  BY <1>3
<1>5. conn[c].loop \in Loops
  BY DEF Inv, TypeInv
<1>6. m \in Messages /\ m.topic = u
  BY <1>4, <1>5 DEF Messages, Loops
<1>7. Reaches(d, u)
  BY <1>1, <1>2, <1>4 DEF Reaches
<1>8. conn' = [conn EXCEPT ![c].loop.todo = @ \ {target}]
  BY <1>1
<1>9. subCh' = subCh \/ subCh' = [subCh EXCEPT ![d].buf = Append(@, m)]
  BY <1>1
<1> HIDE DEF d, u, m
<1>10. /\ conn'[c].loop.pc = conn[c].loop.pc
       /\ conn'[c].loop.adding = conn[c].loop.adding
       /\ conn'[c].loop.topic = conn[c].loop.topic
       /\ conn'[c].loop.todo = conn[c].loop.todo \ {target}
       /\ conn'[c].subs = conn[c].subs
       /\ \A e \in Conns \ {c} : conn'[e] = conn[e]
  BY <1>5, <1>8 DEF Inv, TypeInv, Loops
<1>11. conn' \in [Conns -> [loop : Loops, subs : SUBSET Topics]]
  <2> DEFINE l == [conn[c].loop EXCEPT !.todo = @ \ {target}]
  <2>1. l \in Loops
    BY <1>5 DEF Loops
  <2>2. conn' = [conn EXCEPT ![c].loop = l]
    BY <1>8
  <2> HIDE DEF l
  <2> QED
    BY <2>1, <2>2 DEF Inv, TypeInv
<1>12. /\ subCh' \in [Conns -> [made : BOOLEAN, closed : BOOLEAN, buf : Seq(Messages)]]
       /\ \A e \in Conns : subCh'[e].made = subCh[e].made
       /\ \A e \in Conns : subCh'[e].buf = subCh[e].buf \/ (e = d /\ subCh'[e].buf = Append(subCh[e].buf, m))
  <2> DEFINE b == Append(subCh[d].buf, m)
  <2>1. b \in Seq(Messages)
    BY <1>4, <1>6 DEF Inv, TypeInv
  <2>2. subCh' = subCh \/ subCh' = [subCh EXCEPT ![d].buf = b]
    BY <1>9
  <2> HIDE DEF b
  <2>3. \A e \in Conns : subCh'[e].buf = subCh[e].buf \/ (e = d /\ subCh'[e].buf = b)
    BY <1>4, <2>2 DEF Inv, TypeInv
  <2>4. \A e \in Conns : subCh'[e].made = subCh[e].made
    <3>1. CASE subCh' = subCh
      BY <3>1
    <3>2. CASE subCh' = [subCh EXCEPT ![d].buf = b]
      BY <1>4, <3>2 DEF Inv, TypeInv
    <3> QED
      BY <2>2, <3>1, <3>2
  <2>5. subCh' \in [Conns -> [made : BOOLEAN, closed : BOOLEAN, buf : Seq(Messages)]]
    BY <1>4, <2>1, <2>2, ZenonT(40) DEF Inv, TypeInv
  <2> QED
    BY <2>3, <2>4, <2>5 DEF b
<1>13. TypeInv'
  BY <1>2, <1>11, <1>12 DEF Inv, TypeInv
<1>14. TodoInv' /\ MadeInv'
  BY <1>2, <1>10, <1>12, ZenonT(40) DEF Inv, TodoInv, MadeInv
<1>15. BrokerAgrees' /\ AckBeforeMessages'
  BY <1>2, <1>10 DEF Inv, BrokerAgrees, AckBeforeMessages
<1>16. ReachInv'
  <2> SUFFICES ASSUME NEW e \in Conns, NEW t \in Topics, Reaches(e, t)'
               PROVE  Acked(e, t)' \/ Acking(e, t)' \/ e \in gone'
    BY DEF ReachInv
  <2>1. Reaches(e, t)
    <3>1. CASE e \in broker'[t] \/ (forwarder'[e].pc = "write" /\ forwarder'[e].msg.topic = t)
      BY <1>2, <3>1 DEF Reaches
    <3>2. CASE \E k \in Conns : conn'[k].loop.pc = "deliver" /\ <<e, t>> \in conn'[k].loop.todo
      BY <1>10, <3>2 DEF Reaches
    <3>3. CASE \E i \in 1..Len(subCh'[e].buf) : subCh'[e].buf[i].topic = t
      <4>1. CASE subCh'[e].buf = subCh[e].buf
        BY <3>3, <4>1 DEF Reaches
      <4>2. CASE e = d /\ subCh'[e].buf = Append(subCh[e].buf, m)
        <5>1. PICK i \in 1..Len(subCh'[e].buf) : subCh'[e].buf[i].topic = t
          BY <3>3
        <5>2. subCh[e].buf \in Seq(Messages)
          BY DEF Inv, TypeInv
        <5>3. CASE i \in 1..Len(subCh[e].buf)
          BY <4>2, <5>1, <5>2, <5>3 DEF Reaches
        <5>4. CASE i = Len(subCh[e].buf) + 1
          <6>1. t = u
            BY <1>6, <4>2, <5>1, <5>2, <5>4
          <6> QED
            BY <1>7, <4>2, <6>1
        <5> QED
          BY <4>2, <5>1, <5>2, <5>3, <5>4, <1>6
      <4> QED
        BY <1>12, <4>1, <4>2
    <3> QED
      BY <3>1, <3>2, <3>3 DEF Reaches
  <2>2. Acked(e, t) \/ Acking(e, t) \/ e \in gone
    BY <2>1 DEF Inv, ReachInv
  <2>3. Acking(e, t) => Acking(e, t)'
    BY <1>10 DEF Acking
  <2> QED
    BY <1>2, <2>2, <2>3 DEF Acked
<1> QED
  BY <1>13, <1>14, <1>15, <1>16 DEF Inv

-----------------------------------------------------------------------------
(* The forwarder. *)
LEMMA ForwarderTakesInv ==
  ASSUME Inv, NEW c \in Conns, ForwarderTakes(c)
  PROVE  Inv'
<1> DEFINE b == subCh[c].buf
           h == Head(b)
           r == Tail(b)
<1>1. /\ forwarder[c].pc = "wait" /\ b # <<>>
      /\ forwarder' = [forwarder EXCEPT ![c] = [pc |-> "write", msg |-> h]]
      /\ subCh' = [subCh EXCEPT ![c].buf = r]
      /\ UNCHANGED <<broker, conn, wire, gone, published>>
  BY DEF ForwarderTakes
<1>2. b \in Seq(Messages)
  BY DEF Inv, TypeInv
<1>3. /\ h \in Messages /\ r \in Seq(Messages) /\ h = b[1] /\ 1 \in 1..Len(b)
      /\ \A i \in 1..Len(r) : r[i] = b[i + 1] /\ i + 1 \in 1..Len(b)
  BY <1>1, <1>2
<1>4. \A t \in Topics : (\E i \in 1..Len(r) : r[i].topic = t) => \E i \in 1..Len(b) : b[i].topic = t
  BY <1>3
<1>5. \A t \in Topics : h.topic = t => \E i \in 1..Len(b) : b[i].topic = t
  BY <1>3
<1> HIDE DEF h, r
<1>6. /\ forwarder' \in [Conns -> [pc : {"none", "wait", "write", "stopped"}, msg : Messages \cup {<<>>}]]
      /\ forwarder'[c].msg = h
      /\ \A d \in Conns \ {c} : forwarder'[d] = forwarder[d]
  BY <1>1, <1>3 DEF Inv, TypeInv
<1>7. /\ subCh' \in [Conns -> [made : BOOLEAN, closed : BOOLEAN, buf : Seq(Messages)]]
      /\ subCh'[c].buf = r
      /\ \A d \in Conns : subCh'[d].made = subCh[d].made
      /\ \A d \in Conns \ {c} : subCh'[d] = subCh[d]
  <2>1. subCh \in [Conns -> [made : BOOLEAN, closed : BOOLEAN, buf : Seq(Messages)]]
    BY DEF Inv, TypeInv
  <2>2. r \in Seq(Messages) /\ subCh' = [subCh EXCEPT ![c].buf = r]
    BY <1>1, <1>3
  <2> QED
    BY <2>1, <2>2
<1>8. TypeInv'
  BY <1>1, <1>6, <1>7 DEF Inv, TypeInv
<1>9. TodoInv' /\ MadeInv'
  BY <1>1, <1>3, <1>6, <1>7 DEF Inv, TodoInv, MadeInv
<1>10. BrokerAgrees' /\ AckBeforeMessages'
  BY <1>1 DEF Inv, BrokerAgrees, AckBeforeMessages
<1>11. ReachInv'
  <2> SUFFICES ASSUME NEW d \in Conns, NEW t \in Topics, Reaches(d, t)'
               PROVE  Acked(d, t)' \/ Acking(d, t)' \/ d \in gone'
    BY DEF ReachInv
  <2>1. d # c => Reaches(d, t)
    BY <1>1, <1>6, <1>7 DEF Reaches
  <2>2. ASSUME d = c PROVE Reaches(d, t)
    <3>1. CASE \E i \in 1..Len(subCh'[c].buf) : subCh'[c].buf[i].topic = t
      BY <1>4, <1>7, <2>2, <3>1 DEF Reaches
    <3>2. CASE forwarder'[c].pc = "write" /\ forwarder'[c].msg.topic = t
      BY <1>5, <1>6, <2>2, <3>2 DEF Reaches
    <3>3. CASE \/ c \in broker'[t]
               \/ \E e \in Conns : conn'[e].loop.pc = "deliver" /\ <<c, t>> \in conn'[e].loop.todo
      BY <1>1, <2>2, <3>3 DEF Reaches
    <3> QED
      BY <2>2, <3>1, <3>2, <3>3 DEF Reaches
  <2>3. Reaches(d, t)
    <3>1. CASE d # c
      BY <2>1, <3>1
    <3> QED
      BY <2>2, <3>1
  <2> QED
    BY <1>1, <2>3 DEF Inv, ReachInv, Acked, Acking
<1> QED
  BY <1>8, <1>9, <1>10, <1>11 DEF Inv

LEMMA ForwarderEndsInv ==
  ASSUME Inv, NEW c \in Conns, ForwarderEnds(c)
  PROVE  Inv'
<1>1. /\ forwarder' = [forwarder EXCEPT ![c].pc = "stopped"]
      /\ UNCHANGED <<broker, conn, subCh, wire, gone, published>>
  BY DEF ForwarderEnds
<1>2. \A d \in Conns : forwarder'[d].pc = "write" => forwarder'[d] = forwarder[d]
  BY <1>1 DEF Inv, TypeInv
<1>3. TypeInv'
  BY <1>1 DEF Inv, TypeInv
<1>4. TodoInv' /\ MadeInv' /\ BrokerAgrees' /\ AckBeforeMessages'
  BY <1>1, <1>2 DEF Inv, TodoInv, MadeInv, BrokerAgrees, AckBeforeMessages
<1>5. ReachInv'
  BY <1>1, <1>2 DEF Inv, ReachInv, Reaches, Acked, Acking
<1> QED
  BY <1>3, <1>4, <1>5 DEF Inv

(* The forwarder has writeMu, so no acknowledgement is half done: what it  *)
(* holds was acknowledged.                                                 *)
LEMMA ForwarderWritesInv ==
  ASSUME Inv, NEW c \in Conns, ForwarderWrites(c)
  PROVE  Inv'
<1> DEFINE m == forwarder[c].msg
<1>1. /\ forwarder[c].pc = "write" /\ conn[c].loop.pc \notin {"register", "ack"}
      /\ wire' = IF c \in gone THEN wire ELSE [wire EXCEPT ![c] = Append(@, m)]
      /\ forwarder' = [forwarder EXCEPT ![c].pc = IF c \in gone THEN "stopped" ELSE "wait"]
      /\ UNCHANGED <<broker, conn, subCh, gone, published>>
  BY DEF ForwarderWrites
<1>2. m \in Messages
  BY <1>1 DEF Inv, TodoInv
<1>3. m \in Frames /\ m.topic \in Topics
  BY <1>2, MessagesAreFrames DEF Messages
<1>4. c \notin gone => Acked(c, m.topic)
  <2>1. Reaches(c, m.topic)
    BY <1>1 DEF Reaches
  <2>2. ~Acking(c, m.topic)
    BY <1>1 DEF Acking
  <2> QED
    BY <1>3, <2>1, <2>2 DEF Inv, ReachInv
<1>5. /\ wire' \in [Conns -> Seq(Frames)]
      /\ \A d \in Conns, t \in Topics : Acked(d, t) => Acked(d, t)'
      /\ AckBeforeMessages'
  <2>1. CASE c \in gone
    BY <1>1, <2>1, SMTT(30) DEF Inv, TypeInv, Acked, AckBeforeMessages
  <2>2. CASE c \notin gone
    <3>1. wire' = [wire EXCEPT ![c] = Append(@, m)]
      BY <1>1, <2>2
    <3> HIDE DEF m
    <3> QED
      BY <1>3, <1>4, <2>2, <3>1, WireGrows
  <2> QED
    BY <2>1, <2>2
<1>6. /\ forwarder' \in [Conns -> [pc : {"none", "wait", "write", "stopped"}, msg : Messages \cup {<<>>}]]
      /\ \A d \in Conns : forwarder'[d].pc = "write" => forwarder'[d] = forwarder[d]
  BY <1>1 DEF Inv, TypeInv
<1>7. TypeInv'
  BY <1>1, <1>5, <1>6 DEF Inv, TypeInv
<1>8. TodoInv' /\ MadeInv' /\ BrokerAgrees'
  BY <1>1, <1>6 DEF Inv, TodoInv, MadeInv, BrokerAgrees
<1>9. ReachInv'
  <2> SUFFICES ASSUME NEW d \in Conns, NEW t \in Topics, Reaches(d, t)'
               PROVE  Acked(d, t)' \/ Acking(d, t)' \/ d \in gone'
    BY DEF ReachInv
  <2>1. Reaches(d, t)
    BY <1>1, <1>6 DEF Reaches
  <2> QED
    BY <1>1, <1>5, <2>1 DEF Inv, ReachInv, Acking
<1> QED
  BY <1>5, <1>7, <1>8, <1>9 DEF Inv

-----------------------------------------------------------------------------
(* Teardown: out of the broker first, so that nothing of c is left there   *)
(* when its channel is closed.                                             *)
LEMMA UnsubscribeAllInv ==
  ASSUME Inv, NEW c \in Conns, UnsubscribeAll(c)
  PROVE  Inv'
<1> DEFINE l == [Waiting EXCEPT !.pc = IF subCh[c].made THEN "close" ELSE "done"]
<1>1. /\ conn[c].loop.pc = "leave"
      /\ broker' = [t \in Topics |-> broker[t] \ {c}]
      /\ conn' = [conn EXCEPT ![c].loop = l]
      /\ UNCHANGED <<subCh, forwarder, wire, gone, published>>
  BY DEF UnsubscribeAll, At
<1>2. l \in Loops /\ l.pc \in {"close", "done"}
  BY DEF Waiting, Loops, LoopPCs
<1> HIDE DEF l
<1>3. /\ conn'[c].loop = l /\ conn'[c].subs = conn[c].subs
      /\ \A d \in Conns \ {c} : conn'[d] = conn[d]
  BY <1>1 DEF Inv, TypeInv
<1>4. TypeInv'
  <2>1. broker' \in [Topics -> SUBSET Conns]
    BY <1>1 DEF Inv, TypeInv
  <2>2. conn' \in [Conns -> [loop : Loops, subs : SUBSET Topics]]
    BY <1>1, <1>2 DEF Inv, TypeInv
  <2> QED
    BY <1>1, <2>1, <2>2 DEF Inv, TypeInv
<1>5. TodoInv' /\ MadeInv'
  BY <1>1, <1>2, <1>3 DEF Inv, TodoInv, MadeInv
<1>6. BrokerAgrees' /\ AckBeforeMessages'
  BY <1>1, <1>2, <1>3 DEF Inv, BrokerAgrees, AckBeforeMessages
<1>7. ReachInv'
  <2> SUFFICES ASSUME NEW d \in Conns, NEW t \in Topics, Reaches(d, t)'
               PROVE  Acked(d, t)' \/ Acking(d, t)' \/ d \in gone'
    BY DEF ReachInv
  <2>1. Reaches(d, t)
    BY <1>1, <1>2, <1>3 DEF Reaches
  <2>2. Acking(d, t) => Acking(d, t)'
    BY <1>1, <1>3 DEF Acking
  <2> QED
    BY <1>1, <2>1, <2>2 DEF Inv, ReachInv, Acked
<1> QED
  BY <1>4, <1>5, <1>6, <1>7 DEF Inv

LEMMA CloseChannelInv ==
  ASSUME Inv, NEW c \in Conns, CloseChannel(c)
  PROVE  Inv'
<1> DEFINE l == [conn[c].loop EXCEPT !.pc = "done"]
<1>1. /\ conn[c].loop.pc = "close"
      /\ subCh' = [subCh EXCEPT ![c].closed = TRUE]
      /\ conn' = [conn EXCEPT ![c].loop = l]
      /\ gone' = gone \cup {c}
      /\ UNCHANGED <<broker, forwarder, wire, published>>
  BY DEF CloseChannel, At
<1>a. conn[c].loop \in Loops
  BY DEF Inv, TypeInv
<1>2. l \in Loops /\ l.pc = "done"
  BY <1>a DEF Loops, LoopPCs
<1> HIDE DEF l
<1>3. /\ conn'[c].loop = l /\ conn'[c].subs = conn[c].subs
      /\ \A d \in Conns \ {c} : conn'[d] = conn[d]
      /\ \A d \in Conns : subCh'[d].buf = subCh[d].buf /\ subCh'[d].made = subCh[d].made
  BY <1>1 DEF Inv, TypeInv
<1>4. TypeInv'
  <2>1. subCh' \in [Conns -> [made : BOOLEAN, closed : BOOLEAN, buf : Seq(Messages)]]
    BY <1>1 DEF Inv, TypeInv
  <2>2. conn' \in [Conns -> [loop : Loops, subs : SUBSET Topics]]
    BY <1>1, <1>2 DEF Inv, TypeInv
  <2> QED
    BY <1>1, <2>1, <2>2 DEF Inv, TypeInv
<1>5. TodoInv' /\ MadeInv'
  BY <1>1, <1>2, <1>3 DEF Inv, TodoInv, MadeInv
<1>6. BrokerAgrees' /\ AckBeforeMessages'
  BY <1>1, <1>2, <1>3 DEF Inv, BrokerAgrees, AckBeforeMessages
<1>7. ReachInv'
  <2> SUFFICES ASSUME NEW d \in Conns, NEW t \in Topics, Reaches(d, t)'
               PROVE  Acked(d, t)' \/ Acking(d, t)' \/ d \in gone'
    BY DEF ReachInv
  <2>1. Reaches(d, t)
    BY <1>1, <1>2, <1>3 DEF Reaches
  <2>2. Acking(d, t) => Acking(d, t)'
    BY <1>1, <1>3 DEF Acking
  <2> QED
    BY <1>1, <2>1, <2>2 DEF Inv, ReachInv, Acked
<1> QED
  BY <1>4, <1>5, <1>6, <1>7 DEF Inv

-----------------------------------------------------------------------------
LEMMA NextInv == Inv /\ [Next]_vars => Inv'
<1> SUFFICES ASSUME Inv, [Next]_vars PROVE Inv'
  OBVIOUS
<1>1. ASSUME NEW c \in Conns, Client(c)  PROVE Inv'
  BY <1>1, handleSubscribeInv, LoopOnlyInv, HangUpInv DEF Client
<1>2. ASSUME NEW c \in Conns, Loop(c)  PROVE Inv'
  BY <1>2, RegisterInv, LoopOnlyInv, AcknowledgeInv, DeliverInv, UnsubscribeAllInv, CloseChannelInv
  DEF Loop, LoopRuns, LoopWrites
<1>3. ASSUME NEW c \in Conns, Forward(c)  PROVE Inv'
  BY <1>3, ForwarderTakesInv, ForwarderEndsInv, ForwarderWritesInv DEF Forward, ForwarderRuns
<1>4. CASE UNCHANGED vars
  <2>1. TypeInv' /\ TodoInv' /\ MadeInv' /\ BrokerAgrees' /\ AckBeforeMessages'
    BY <1>4 DEF vars, Inv, TypeInv, TodoInv, MadeInv, BrokerAgrees, AckBeforeMessages
  <2>2. ReachInv'
    BY <1>4 DEF vars, Inv, ReachInv, Reaches, Acked, Acking
  <2> QED
    BY <2>1, <2>2 DEF Inv
<1> QED
  BY <1>1, <1>2, <1>3, <1>4 DEF Next, Quiet

(* Every step of the connections, the forwarders and the clients keeps the *)
(* invariant.                                                              *)
THEOREM Invariance == Spec => []Inv
  BY InitInv, NextInv, PTL DEF Spec

(* No client gets a message for a topic before the acknowledgement of its  *)
(* subscription (handlers_pubsub.go registers before it acknowledges, the  *)
(* forwarder writes on its own goroutine, and PUBLISH sends after it has   *)
(* released the broker's mutex).                                           *)
THEOREM AckFirst == Spec => []AckBeforeMessages
  BY Invariance, PTL DEF Inv

(* The broker's registrations are the connections' own, for as long as the *)
(* connections last, and none is left of a connection torn down.           *)
THEOREM BrokerCorrect == Spec => []BrokerAgrees
  BY Invariance, PTL DEF Inv
=============================================================================
