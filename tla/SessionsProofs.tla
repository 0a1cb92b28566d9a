---------------------------- MODULE SessionsProofs ----------------------------
(***************************************************************************)
(* Proofs about dispatch, authentication and transactions, for any number  *)
(* of connections, keys, workspaces and passwords, and whatever commands   *)
(* clients send; and, at the end, about a client's walks with SCAN.        *)
(***************************************************************************)
EXTENDS Sessions, Scan, Induction, SequenceTheorems, TLAPS

(* Commands that got past dispatch; those MULTI may hold back. *)
Ready     == {cmd \in Commands : cmd.arity /\ (cmd.name \in Keyed => cmd.keys # <<>>)}
Queueable == {cmd \in Ready : cmd.name \notin NoQueue}

Values    == Seq(Int)
WatchMaps == UNION {[D -> Nat] : D \in SUBSET Keys}
WatchLogs == UNION {[D -> Slots \X Nat] : D \in SUBSET Keys}

ClientStates ==
  [authenticated : BOOLEAN, workspace : Workspaces, inMulti : BOOLEAN, multiError : BOOLEAN,
   queued : Seq(Queueable), watched : WatchMaps, quit : BOOLEAN]

RunStates ==
  [pc : {"idle", "call", "check", "lock", "body"}, todo : Seq(Ready), i : Nat \ {0},
   read : Values, left : SUBSET Keys, watched : WatchMaps]

Histories ==
  [sent : [Conns -> Seq(Commands)], watchedIn : [Conns -> WatchLogs], atExec : [Conns -> WatchLogs],
   doomed : [Conns -> BOOLEAN], incs : [Slots -> Int], outside : BOOLEAN]

TypeInv ==
  /\ kv \in [Slots -> Values]
  /\ version \in [Slots -> Nat]
  /\ globalMu \in Conns \cup {Unlocked}
  /\ conn \in [Conns -> ClientStates]
  /\ run \in [Conns -> RunStates]
  /\ hist \in Histories
  /\ mode \in Modes

(* Before it has authenticated, a connection runs nothing but the commands *)
(* that let it, holds no transaction and watches nothing.                  *)
AuthOK(c) ==
  /\ Required /\ ~conn[c].authenticated =>
       /\ ~conn[c].inMulti
       /\ DOMAIN conn[c].watched = {}
       /\ run[c].pc \in {"idle", "call"}
       /\ run[c].pc = "call" => This(c).name \in AllowedNoAuth
  /\ mode = "multi" /\ conn[c].authenticated =>
       \E p \in DOMAIN Credentials : conn[c].workspace = Credentials[p]

(* A block without an error holds what the client sent, EXEC takes over    *)
(* that block, and a body never controls a transaction itself.             *)
BlockOK(c) ==
  /\ conn[c].inMulti /\ ~conn[c].multiError => conn[c].queued = hist.sent[c]
  /\ run[c].pc \in {"check", "lock"} => run[c].todo = hist.sent[c] /\ run[c].i = 1
  /\ run[c].pc = "call" =>
       run[c].todo # <<>> /\ (This(c).name = "WATCH" => run[c].i \in 1..Len(This(c).keys))
  /\ run[c].pc \in {"check", "lock", "body"} =>
       run[c].todo \in Seq(Queueable) /\ DOMAIN conn[c].watched = {} /\ ~conn[c].inMulti

(* The mutex is held by the connection whose body runs, and what an INCRBY *)
(* of that body has read is still there when it writes.                    *)
TxInv ==
  /\ TxCountersExact
  /\ \A c \in Conns :
       /\ ~hist.outside /\ run[c].pc = "body" /\ run[c].todo # <<>>
       /\ This(c).name = "INCRBY" /\ run[c].i = 2
       => run[c].read = kv[Slot(c, This(c).keys[1])]

Inv == TypeInv /\ (\A c \in Conns : AuthOK(c) /\ BlockOK(c)) /\ TxInv

-----------------------------------------------------------------------------
LEMMA EmptyMap == ASSUME NEW S PROVE Empty \in [{} -> S] /\ DOMAIN Empty = {}
  BY DEF Empty

LEMMA EmptyTypes == Empty \in WatchMaps /\ Empty \in WatchLogs /\ Empty \in Values /\ DOMAIN Empty = {}
<1>1. Empty \in [{} -> Nat] /\ Empty \in [{} -> Slots \X Nat] /\ DOMAIN Empty = {}
  BY EmptyMap
<1>2. {} \in SUBSET Keys
  OBVIOUS
<1>3. Empty \in Values
  BY DEF Values, Empty
<1> QED
  BY <1>1, <1>2, <1>3 DEF WatchMaps, WatchLogs

LEMMA ReadingType == Reading \in RunStates /\ Reading.pc = "idle"
  BY EmptyTypes DEF Reading, RunStates, Values

LEMMA AddIntType == \A a, b \in Int : AddInt64(a, b) \in Int
  BY IntWidthAssumption DEF AddInt64

LEMMA IntOfType == \A v \in Values : IntOf(v) \in Int
  BY DEF IntOf, Values, Empty

LEMMA IntOfOne == \A x : IntOf(<<x>>) = x
<1>1. \A x : <<x>> # <<>> /\ <<x>>[1] = x
  OBVIOUS
<1> QED
  BY <1>1 DEF IntOf, Empty

LEMMA InitInv == Init => Inv
<1> SUFFICES ASSUME Init PROVE Inv
  OBVIOUS
<1>1. NewClientState \in ClientStates
  BY EmptyTypes DEF NewClientState, ClientStates, Workspaces
<1>2. hist \in Histories
  BY EmptyTypes DEF Init, Histories
<1>3. TypeInv
  BY <1>1, <1>2, EmptyTypes, ReadingType DEF Init, TypeInv
<1>4. \A c \in Conns : AuthOK(c) /\ BlockOK(c)
  BY EmptyTypes DEF Init, AuthOK, BlockOK, NewClientState, Reading
<1>5. TxInv
  BY SessionAssumption DEF Init, TxInv, TxCountersExact, Reading, IntOf
<1> QED
  BY <1>3, <1>4, <1>5 DEF Inv

(* What the invariant says of a connection concerns that connection only. *)
LEMMA OthersKept ==
  ASSUME NEW d \in Conns, AuthOK(d), BlockOK(d), conn'[d] = conn[d], run'[d] = run[d],
         hist'.sent[d] = hist.sent[d], mode' = mode
  PROVE  AuthOK(d)' /\ BlockOK(d)'
  BY DEF AuthOK, BlockOK, Required, This

(* What a step of connection c does to a history, as far as the invariant  *)
(* is concerned.                                                           *)
LEMMA ForgetType ==
  ASSUME TypeInv, NEW c \in Conns
  PROVE  /\ Forget(c) \in Histories
         /\ Forget(c).sent[c] = <<>> /\ Forget(c).watchedIn[c] = Empty
         /\ Forget(c).doomed[c] = FALSE
         /\ Forget(c).incs = hist.incs /\ Forget(c).outside = hist.outside
         /\ \A d \in Conns \ {c} : /\ Forget(c).sent[d] = hist.sent[d]
                                   /\ Forget(c).watchedIn[d] = hist.watchedIn[d]
                                   /\ Forget(c).doomed[d] = hist.doomed[d]
<1> DEFINE s == [hist.sent EXCEPT ![c] = <<>>]
           w == [hist.watchedIn EXCEPT ![c] = Empty]
           a == [hist.atExec EXCEPT ![c] = Empty]
           d == [hist.doomed EXCEPT ![c] = FALSE]
<1>1. hist \in Histories
  BY DEF TypeInv
<1>2. /\ s \in [Conns -> Seq(Commands)] /\ w \in [Conns -> WatchLogs]
      /\ a \in [Conns -> WatchLogs] /\ d \in [Conns -> BOOLEAN]
  BY <1>1, EmptyTypes DEF Histories
<1>3. Forget(c) = [hist EXCEPT !.sent = s, !.watchedIn = w, !.atExec = a, !.doomed = d]
  BY <1>1 DEF Forget, Histories
<1>4. Forget(c) \in Histories
  <2> HIDE DEF s, w, a, d
  <2> QED
    BY <1>1, <1>2, <1>3 DEF Histories
<1>5. /\ Forget(c).sent = s /\ Forget(c).watchedIn = w /\ Forget(c).atExec = a /\ Forget(c).doomed = d
      /\ Forget(c).incs = hist.incs /\ Forget(c).outside = hist.outside
  <2> HIDE DEF s, w, a, d
  <2> QED
    BY <1>1, <1>3 DEF Histories
<1> QED
  BY <1>1, <1>4, <1>5 DEF Histories

LEMMA RunUpdate ==
  ASSUME NEW r \in RunStates, NEW t \in Seq(Ready), NEW i \in Nat \ {0}, NEW v \in Values
  PROVE  [r EXCEPT !.todo = t, !.i = i, !.read = v] \in RunStates
  BY DEF RunStates

(* The handler of c returns. *)
LEMMA ReturnType ==
  ASSUME TypeInv, NEW c \in Conns, run[c].pc \in {"call", "body"}, run[c].todo # <<>>, Return(c)
  PROVE  /\ run' \in [Conns -> RunStates]
         /\ \A d \in Conns \ {c} : run'[d] = run[d]
         /\ run'[c] # run[c]
         /\ run[c].pc = "call" => run'[c] = Reading
         /\ run[c].pc = "body" => /\ run'[c].pc = "body" /\ run'[c].todo = Tail(run[c].todo)
                                  /\ run'[c].i = 1
<1> DEFINE r == [run[c] EXCEPT !.todo = Tail(@), !.i = 1, !.read = <<>>]
<1>1. run[c] \in RunStates
  BY DEF TypeInv
<1>2. Tail(run[c].todo) \in Seq(Ready) /\ Tail(run[c].todo) # run[c].todo
  <2>1. run[c].todo \in Seq(Ready)
    BY <1>1 DEF RunStates
  <2>2. Len(Tail(run[c].todo)) # Len(run[c].todo) /\ Tail(run[c].todo) \in Seq(Ready)
    BY <2>1
  <2> QED
    BY <2>2
<1>a. <<>> \in Values /\ 1 \in Nat \ {0}
  BY DEF Values
<1>3. r \in RunStates
  BY <1>1, <1>2, <1>a, RunUpdate, Zenon
<1>4. r.todo = Tail(run[c].todo) /\ r.i = 1 /\ r.pc = run[c].pc
  BY <1>1 DEF RunStates
<1>5. run' = [run EXCEPT ![c] = IF run[c].pc = "call" THEN Reading ELSE r]
  BY DEF Return
<1> HIDE DEF r
<1> QED
  BY <1>1, <1>2, <1>3, <1>4, <1>5, ReadingType DEF TypeInv

-----------------------------------------------------------------------------
(* A step of c that leaves the engine's values and the mutex alone.  If c  *)
(* is in a body, it is between two commands or has just read.              *)
LEMMA QuietStep ==
  ASSUME Inv, NEW c \in Conns, TypeInv', UNCHANGED <<kv, globalMu, mode>>,
         \A d \in Conns \ {c} : /\ conn'[d] = conn[d] /\ run'[d] = run[d]
                                /\ hist'.sent[d] = hist.sent[d],
         hist'.incs = hist.incs, hist'.outside = hist.outside,
         run'[c].pc = "body" <=> run[c].pc = "body",
         run'[c].pc = "body" /\ run'[c].i = 2 /\ This(c)'.name = "INCRBY" =>
           run'[c].read = kv[Slot(c, This(c).keys[1])'],
         AuthOK(c)', BlockOK(c)'
  PROVE  Inv'
<1>1. \A d \in Conns : AuthOK(d)' /\ BlockOK(d)'
  BY OthersKept DEF Inv
<1>2. TxCountersExact'
  BY DEF Inv, TxInv, TxCountersExact
<1>3. TxInv'
  BY <1>2 DEF Inv, TxInv, This, Slot
<1> QED
  BY <1>1, <1>3 DEF Inv

(* The handler of c changes at most the state of its connection and        *)
(* returns.                                                                *)
LEMMA ReturnStep ==
  ASSUME Inv, NEW c \in Conns, run[c].pc \in {"call", "body"}, run[c].todo # <<>>, Return(c),
         UNCHANGED <<kv, version, globalMu, mode>>,
         conn' \in [Conns -> ClientStates], hist' \in Histories,
         \A d \in Conns \ {c} : conn'[d] = conn[d] /\ hist'.sent[d] = hist.sent[d],
         hist'.incs = hist.incs, hist'.outside = hist.outside,
         conn[c].authenticated => conn'[c].authenticated,
         Required /\ ~conn'[c].authenticated =>
           ~conn'[c].inMulti /\ DOMAIN conn'[c].watched = {},
         mode = "multi" /\ conn'[c].authenticated =>
           \E p \in DOMAIN Credentials : conn'[c].workspace = Credentials[p],
         conn'[c].inMulti /\ ~conn'[c].multiError => conn'[c].queued = hist'.sent[c],
         run[c].pc = "body" => DOMAIN conn'[c].watched = {} /\ ~conn'[c].inMulti
  PROVE  Inv'
<1>1. /\ run' \in [Conns -> RunStates]
      /\ \A d \in Conns \ {c} : run'[d] = run[d]
      /\ run[c].pc = "call" => run'[c] = Reading
      /\ run[c].pc = "body" => /\ run'[c].pc = "body" /\ run'[c].todo = Tail(run[c].todo)
                               /\ run'[c].i = 1
  BY ReturnType DEF Inv
<1>2. TypeInv'
  BY <1>1 DEF Inv, TypeInv
<1>3. run'[c].pc = "body" <=> run[c].pc = "body"
  BY <1>1, ReadingType
<1>4. run[c].pc = "body" => conn[c].authenticated \/ ~Required
  BY DEF Inv, AuthOK
<1>5. AuthOK(c)'
  BY <1>1, <1>3, <1>4, ReadingType DEF AuthOK, Required
<1>6. BlockOK(c)'
  <2>1. CASE run[c].pc = "call"
    BY <1>1, <2>1, ReadingType DEF BlockOK
  <2>2. CASE run[c].pc = "body"
    <3>1. run[c].todo \in Seq(Queueable)
      BY <2>2 DEF Inv, BlockOK
    <3>2. Tail(run[c].todo) \in Seq(Queueable)
      BY <3>1
    <3> QED
      BY <1>1, <2>2, <3>2 DEF BlockOK
  <2> QED
    BY <2>1, <2>2
<1>7. ~(run'[c].pc = "body" /\ run'[c].i = 2)
  BY <1>1, <1>3
<1> QED
  BY <1>1, <1>2, <1>3, <1>5, <1>6, <1>7, QuietStep

(* A body never runs a command that controls transactions. *)
LEMMA ControlCalls ==
  ASSUME Inv, NEW c \in Conns, NEW S \in SUBSET NoQueue, Runs(c, S)
  PROVE  run[c].pc = "call"
<1>1. ASSUME run[c].pc = "body" PROVE FALSE
  <2>1. run[c].todo \in Seq(Queueable) /\ run[c].todo # <<>>
    BY <1>1 DEF Inv, BlockOK, Runs
  <2>2. Head(run[c].todo) \in Queueable
    BY <2>1
  <2> QED
    BY <2>2 DEF Runs, Queueable
<1> QED
  BY <1>1 DEF Runs

-----------------------------------------------------------------------------
(* Dispatch. *)
LEMMA ArrivesFacts ==
  ASSUME Inv, NEW c \in Conns, NEW cmd \in Requests[mode], Arrives(c, cmd)
  PROVE  /\ cmd \in Commands /\ (cmd.arity => cmd \in Ready)
         /\ run[c].pc = "idle"
         /\ UNCHANGED <<kv, version, globalMu, mode>>
         /\ hist' \in Histories
         /\ hist'.sent[c] = IF Queues(c, cmd) THEN Append(hist.sent[c], cmd) ELSE hist.sent[c]
         /\ \A d \in Conns \ {c} : hist'.sent[d] = hist.sent[d]
         /\ hist'.incs = hist.incs /\ hist'.outside = hist.outside
         /\ hist'.watchedIn = hist.watchedIn /\ hist'.doomed = hist.doomed
<1>1. mode \in Modes /\ hist \in Histories
  BY DEF Inv, TypeInv
<1>2. cmd \in Commands /\ (cmd.arity => cmd \in Ready)
  BY <1>1, SessionAssumption DEF Ready
<1> DEFINE q == IF Queues(c, cmd) THEN Append(hist.sent[c], cmd) ELSE hist.sent[c]
           s == [hist.sent EXCEPT ![c] = q]
<1>3. q \in Seq(Commands)
  BY <1>1, <1>2 DEF Histories
<1>4. hist' = [hist EXCEPT !.sent = s]
  BY DEF Arrives, Queues
<1>5. s \in [Conns -> Seq(Commands)]
  BY <1>1, <1>3 DEF Histories
<1>6. s[c] = q /\ \A d \in Conns \ {c} : s[d] = hist.sent[d]
  BY <1>1 DEF Histories
<1> HIDE DEF s
<1>7. hist' \in Histories /\ hist'.sent = s
  BY <1>1, <1>4, <1>5 DEF Histories
<1>8. /\ hist'.incs = hist.incs /\ hist'.outside = hist.outside
      /\ hist'.watchedIn = hist.watchedIn /\ hist'.doomed = hist.doomed
  BY <1>1, <1>4 DEF Histories
<1> QED
  BY <1>2, <1>6, <1>7, <1>8 DEF Arrives

(* A barred command is never part of a block: MULTI itself is barred.      *)
LEMMA RejectInv ==
  ASSUME Inv, NEW c \in Conns, NEW cmd \in Requests[mode],
         RejectUnknown(c, cmd) \/ RejectNoAuth(c, cmd) \/ QueueReject(c, cmd) \/ RejectArity(c, cmd)
  PROVE  Inv'
<1>1. Arrives(c, cmd) /\ run' = run
  BY DEF RejectUnknown, RejectNoAuth, QueueReject, RejectArity
<1>2. \/ conn' = conn
      \/ conn' = [conn EXCEPT ![c].multiError = TRUE]
      \/ conn' = [conn EXCEPT ![c].multiError = @ \/ conn[c].inMulti]
  BY DEF RejectUnknown, RejectNoAuth, QueueReject, RejectArity
<1>3. /\ conn' \in [Conns -> ClientStates]
      /\ \A d \in Conns \ {c} : conn'[d] = conn[d]
  <2>1. conn' = conn \/ \E e \in BOOLEAN : conn' = [conn EXCEPT ![c].multiError = e]
    BY <1>2
  <2>2. CASE conn' = conn
    BY <2>2 DEF Inv, TypeInv
  <2>3. ASSUME NEW e \in BOOLEAN, conn' = [conn EXCEPT ![c].multiError = e]
        PROVE  /\ conn' \in [Conns -> ClientStates]
               /\ \A d \in Conns \ {c} : conn'[d] = conn[d]
    BY <2>3 DEF Inv, TypeInv, ClientStates
  <2> QED
    BY <2>1, <2>2, <2>3
<1>4. /\ conn'[c].authenticated = conn[c].authenticated /\ conn'[c].workspace = conn[c].workspace
      /\ conn'[c].inMulti = conn[c].inMulti /\ conn'[c].queued = conn[c].queued
      /\ conn'[c].watched = conn[c].watched
  BY <1>2 DEF Inv, TypeInv, ClientStates
<1>5. conn[c].inMulti /\ ~conn'[c].multiError => ~conn[c].multiError /\ hist'.sent[c] = hist.sent[c]
  <2> SUFFICES ASSUME conn[c].inMulti, ~conn'[c].multiError
               PROVE  ~conn[c].multiError /\ hist'.sent[c] = hist.sent[c]
    OBVIOUS
  <2>1. ~Barred(c, cmd)
    BY DEF Barred, Inv, AuthOK
  <2>2. ~RejectUnknown(c, cmd) /\ ~QueueReject(c, cmd)
    BY <1>2 DEF RejectUnknown, QueueReject, Inv, TypeInv, ClientStates
  <2>3. RejectArity(c, cmd)
    BY <2>1, <2>2 DEF RejectNoAuth
  <2> QED
    BY <1>1, <2>3, ArrivesFacts DEF RejectArity
<1>6. TypeInv'
  BY <1>1, <1>3, ArrivesFacts DEF Inv, TypeInv
<1>7. AuthOK(c)' /\ BlockOK(c)'
  BY <1>1, <1>4, <1>5, ArrivesFacts DEF Inv, AuthOK, BlockOK, Required, This
<1> QED
  BY <1>1, <1>3, <1>6, <1>7, ArrivesFacts, QuietStep

LEMMA QueueInv ==
  ASSUME Inv, NEW c \in Conns, NEW cmd \in Requests[mode], Queue(c, cmd)
  PROVE  Inv'
<1>1. Arrives(c, cmd) /\ run' = run /\ Queues(c, cmd) /\ cmd.arity
  BY DEF Queue
<1> DEFINE q == Append(conn[c].queued, cmd)
<1>2. conn' = [conn EXCEPT ![c].queued = q]
  BY DEF Queue
<1>3. cmd \in Queueable
  BY <1>1, ArrivesFacts DEF Queues, Queueable
<1>4. q \in Seq(Queueable)
  BY <1>3 DEF Inv, TypeInv, ClientStates
<1>5. conn[c].queued = hist.sent[c] => q = hist'.sent[c]
  BY <1>1, ArrivesFacts
<1> HIDE DEF q
<1>6. /\ conn' \in [Conns -> ClientStates]
      /\ \A d \in Conns \ {c} : conn'[d] = conn[d]
  BY <1>2, <1>4 DEF Inv, TypeInv, ClientStates
<1>7. /\ conn'[c].authenticated = conn[c].authenticated /\ conn'[c].workspace = conn[c].workspace
      /\ conn'[c].inMulti = conn[c].inMulti /\ conn'[c].multiError = conn[c].multiError
      /\ conn'[c].watched = conn[c].watched /\ conn'[c].queued = q
  BY <1>2 DEF Inv, TypeInv, ClientStates
<1>8. TypeInv'
  BY <1>1, <1>6, ArrivesFacts DEF Inv, TypeInv
<1>9. AuthOK(c)' /\ BlockOK(c)'
  BY <1>1, <1>5, <1>7, ArrivesFacts DEF Inv, AuthOK, BlockOK, Required, This
<1> QED
  BY <1>1, <1>6, <1>8, <1>9, ArrivesFacts, QuietStep

LEMMA StartInv ==
  ASSUME Inv, NEW c \in Conns, NEW cmd \in Requests[mode], Start(c, cmd)
  PROVE  Inv'
<1> DEFINE r == [Reading EXCEPT !.pc = "call", !.todo = <<cmd>>]
<1>1. /\ Arrives(c, cmd) /\ conn' = conn /\ ~Barred(c, cmd) /\ ~Queues(c, cmd) /\ cmd.arity
      /\ run' = [run EXCEPT ![c] = r]
  BY DEF Start, Accepted
<1>2. r.pc = "call" /\ r.todo = <<cmd>> /\ r.i = 1
  BY DEF Reading
<1>3. <<cmd>> \in Seq(Ready) /\ <<cmd>> # <<>> /\ Head(<<cmd>>) = cmd
  BY <1>1, ArrivesFacts
<1>4. r \in RunStates
  BY <1>3, ReadingType DEF RunStates
<1> HIDE DEF r
<1>5. TypeInv' /\ run'[c] = r /\ \A d \in Conns \ {c} : run'[d] = run[d]
  BY <1>1, <1>4, ArrivesFacts DEF Inv, TypeInv
<1>6. AuthOK(c)'
  BY <1>1, <1>2, <1>3, <1>5, ArrivesFacts DEF Inv, AuthOK, Required, This, Barred
<1>a. cmd.name = "WATCH" => 1 \in 1..Len(cmd.keys)
  <2>1. cmd \in Ready
    BY <1>1, ArrivesFacts
  <2> QED
    BY <2>1 DEF Ready, Commands, Keyed
<1>7. BlockOK(c)'
  BY <1>1, <1>2, <1>3, <1>5, <1>a, ArrivesFacts, SMTT(30) DEF Inv, BlockOK, This
<1> QED
  BY <1>1, <1>2, <1>5, <1>6, <1>7, ArrivesFacts, QuietStep

-----------------------------------------------------------------------------
(* Handlers that write nothing. *)
LEMMA ReadInv ==
  ASSUME Inv, NEW c \in Conns, Read(c)
  PROVE  Inv'
<1>1. /\ run[c].pc \in {"call", "body"} /\ run[c].todo # <<>> /\ Return(c)
      /\ UNCHANGED <<kv, version, globalMu, conn, hist, mode>>
  BY DEF Read, Runs
<1>2. /\ conn \in [Conns -> ClientStates] /\ hist \in Histories
      /\ AuthOK(c) /\ BlockOK(c)
  BY DEF Inv, TypeInv
<1>3. run[c].pc = "body" => DOMAIN conn'[c].watched = {} /\ ~conn'[c].inMulti
  BY <1>1, <1>2 DEF BlockOK
<1> QED
  BY <1>1, <1>2, <1>3, ReturnStep DEF AuthOK, BlockOK

LEMMA AuthenticateInv ==
  ASSUME Inv, NEW c \in Conns, Authenticate(c)
  PROVE  Inv'
<1> DEFINE p == This(c).arg
           w == IF mode = "multi" THEN Credentials[p] ELSE conn[c].workspace
<1>1. /\ run[c].pc \in {"call", "body"} /\ run[c].todo # <<>> /\ Return(c)
      /\ UNCHANGED <<kv, version, globalMu, hist, mode>>
  BY DEF Authenticate, Runs
<1>2. /\ conn \in [Conns -> ClientStates] /\ hist \in Histories
      /\ AuthOK(c) /\ BlockOK(c) /\ conn[c] \in ClientStates
  BY DEF Inv, TypeInv
<1>3. CASE conn' = conn
  <2>1. run[c].pc = "body" => DOMAIN conn'[c].watched = {} /\ ~conn'[c].inMulti
    BY <1>2, <1>3 DEF BlockOK
  <2> QED
    BY <1>1, <1>2, <1>3, <2>1, ReturnStep DEF AuthOK, BlockOK
<1>4. CASE Check(p) /\ conn' = [conn EXCEPT ![c].authenticated = TRUE, ![c].workspace = w]
  <2>1. mode = "multi" => p \in DOMAIN Credentials /\ w = Credentials[p]
    BY <1>4 DEF Check
  <2>2. w \in Workspaces
    BY <1>2, <2>1 DEF Workspaces, ClientStates
  <2>3. mode = "multi" => \E q \in DOMAIN Credentials : w = Credentials[q]
    BY <2>1
  <2> HIDE DEF p, w
  <2>4. /\ conn' \in [Conns -> ClientStates]
        /\ \A d \in Conns \ {c} : conn'[d] = conn[d]
    BY <1>2, <1>4, <2>2 DEF ClientStates
  <2>5. /\ conn'[c].authenticated /\ conn'[c].workspace = w
        /\ conn'[c].inMulti = conn[c].inMulti /\ conn'[c].multiError = conn[c].multiError
        /\ conn'[c].watched = conn[c].watched /\ conn'[c].queued = conn[c].queued
    BY <1>2, <1>4 DEF ClientStates
  <2>6. run[c].pc = "body" => DOMAIN conn'[c].watched = {} /\ ~conn'[c].inMulti
    BY <1>2, <2>5 DEF BlockOK
  <2>7. conn'[c].inMulti /\ ~conn'[c].multiError => conn'[c].queued = hist'.sent[c]
    BY <1>1, <1>2, <2>5 DEF BlockOK
  <2> QED
    BY <1>1, <1>2, <2>3, <2>4, <2>5, <2>6, <2>7, ReturnStep
<1> QED
  BY <1>3, <1>4 DEF Authenticate

LEMMA QuitInv ==
  ASSUME Inv, NEW c \in Conns, Quit(c)
  PROVE  Inv'
<1>1. /\ run[c].pc \in {"call", "body"} /\ run[c].todo # <<>> /\ Return(c)
      /\ conn' = [conn EXCEPT ![c].quit = TRUE]
      /\ UNCHANGED <<kv, version, globalMu, hist, mode>>
  BY DEF Quit, Runs
<1>2. /\ conn \in [Conns -> ClientStates] /\ hist \in Histories
      /\ AuthOK(c) /\ BlockOK(c)
  BY DEF Inv, TypeInv
<1>3. /\ conn' \in [Conns -> ClientStates]
      /\ \A d \in Conns \ {c} : conn'[d] = conn[d]
  BY <1>1, <1>2 DEF ClientStates
<1>4. /\ conn'[c].authenticated = conn[c].authenticated /\ conn'[c].workspace = conn[c].workspace
      /\ conn'[c].inMulti = conn[c].inMulti /\ conn'[c].multiError = conn[c].multiError
      /\ conn'[c].watched = conn[c].watched /\ conn'[c].queued = conn[c].queued
  BY <1>1, <1>2 DEF ClientStates
<1>5. run[c].pc = "body" => DOMAIN conn'[c].watched = {} /\ ~conn'[c].inMulti
  BY <1>2, <1>4 DEF BlockOK
<1>6. conn'[c].inMulti /\ ~conn'[c].multiError => conn'[c].queued = hist'.sent[c]
  BY <1>1, <1>2, <1>4 DEF BlockOK
<1>7. /\ conn[c].authenticated => conn'[c].authenticated
      /\ Required /\ ~conn'[c].authenticated => ~conn'[c].inMulti /\ DOMAIN conn'[c].watched = {}
      /\ mode = "multi" /\ conn'[c].authenticated =>
           \E p \in DOMAIN Credentials : conn'[c].workspace = Credentials[p]
  BY <1>2, <1>4 DEF AuthOK
<1> QED
  BY <1>1, <1>2, <1>3, <1>5, <1>6, <1>7, ReturnStep

-----------------------------------------------------------------------------
(* Control of transactions. *)
LEMMA MultiInv ==
  ASSUME Inv, NEW c \in Conns, Multi(c)
  PROVE  Inv'
<1>1. /\ run[c].pc = "call" /\ run[c].todo # <<>> /\ This(c).name = "MULTI" /\ Return(c)
      /\ UNCHANGED <<kv, version, globalMu, mode>>
  BY ControlCalls DEF Multi, Runs, NoQueue, This
<1>2. /\ conn \in [Conns -> ClientStates] /\ hist \in Histories
      /\ AuthOK(c) /\ BlockOK(c)
  BY DEF Inv, TypeInv
<1>3. CASE conn' = conn /\ hist' = hist
  BY <1>1, <1>2, <1>3, ReturnStep DEF AuthOK, BlockOK
<1>4. CASE /\ conn' = [conn EXCEPT ![c].inMulti = TRUE, ![c].multiError = FALSE, ![c].queued = <<>>]
           /\ hist' = [hist EXCEPT !.sent[c] = <<>>]
  <2>1. /\ conn' \in [Conns -> ClientStates]
        /\ \A d \in Conns \ {c} : conn'[d] = conn[d]
    <3>1. <<>> \in Seq(Queueable)
      OBVIOUS
    <3> QED
      BY <1>2, <1>4, <3>1, ZenonT(40) DEF ClientStates
  <2>2. /\ conn'[c].authenticated = conn[c].authenticated /\ conn'[c].workspace = conn[c].workspace
        /\ conn'[c].queued = <<>>
    BY <1>2, <1>4 DEF ClientStates
  <2>3. /\ hist' \in Histories /\ hist'.sent[c] = <<>>
        /\ \A d \in Conns \ {c} : hist'.sent[d] = hist.sent[d]
        /\ hist'.incs = hist.incs /\ hist'.outside = hist.outside
    <3> DEFINE s == [hist.sent EXCEPT ![c] = <<>>]
    <3>1. s \in [Conns -> Seq(Commands)] /\ s[c] = <<>> /\ \A d \in Conns \ {c} : s[d] = hist.sent[d]
      BY <1>2 DEF Histories
    <3>2. hist' = [hist EXCEPT !.sent = s]
      BY <1>4
    <3> HIDE DEF s
    <3> QED
      BY <1>2, <3>1, <3>2 DEF Histories
  <2>4. conn[c].authenticated \/ ~Required
    BY <1>1, <1>2 DEF AuthOK, AllowedNoAuth
  <2>5. mode = "multi" => conn[c].authenticated
    BY <2>4 DEF Required
  <2>6. /\ conn[c].authenticated => conn'[c].authenticated
        /\ Required /\ ~conn'[c].authenticated => ~conn'[c].inMulti /\ DOMAIN conn'[c].watched = {}
        /\ mode = "multi" /\ conn'[c].authenticated =>
             \E p \in DOMAIN Credentials : conn'[c].workspace = Credentials[p]
    BY <1>2, <2>2, <2>4 DEF AuthOK
  <2>7. conn'[c].queued = hist'.sent[c]
    BY <2>2, <2>3
  <2> QED
    BY <1>1, <2>1, <2>3, <2>6, <2>7, ReturnStep
<1> QED
  BY <1>3, <1>4 DEF Multi

LEMMA OutOfMultiType ==
  ASSUME TypeInv, NEW c \in Conns
  PROVE  /\ OutOfMulti(c) \in [Conns -> ClientStates]
         /\ \A d \in Conns \ {c} : OutOfMulti(c)[d] = conn[d]
         /\ OutOfMulti(c)[c].authenticated = conn[c].authenticated
         /\ OutOfMulti(c)[c].workspace = conn[c].workspace
         /\ ~OutOfMulti(c)[c].inMulti /\ OutOfMulti(c)[c].watched = Empty
<1> DEFINE r == [conn[c] EXCEPT !.inMulti = FALSE, !.multiError = FALSE, !.queued = <<>>, !.watched = Empty]
<1>1. conn \in [Conns -> ClientStates] /\ conn[c] \in ClientStates
  BY DEF TypeInv
<1>2. ASSUME NEW q \in Seq(Queueable), NEW w \in WatchMaps
      PROVE  [conn[c] EXCEPT !.inMulti = FALSE, !.multiError = FALSE, !.queued = q, !.watched = w]
               \in ClientStates
  BY <1>1 DEF ClientStates
<1>3. <<>> \in Seq(Queueable) /\ Empty \in WatchMaps
  BY EmptyTypes
<1>4. r \in ClientStates
  BY <1>2, <1>3, Zenon
<1>5. OutOfMulti(c) = [conn EXCEPT ![c] = r]
  BY <1>1 DEF OutOfMulti
<1>6. /\ r.authenticated = conn[c].authenticated /\ r.workspace = conn[c].workspace
      /\ ~r.inMulti /\ r.watched = Empty
  BY <1>1 DEF ClientStates
<1> HIDE DEF r
<1> QED
  BY <1>1, <1>4, <1>5, <1>6

LEMMA DiscardInv ==
  ASSUME Inv, NEW c \in Conns, Discard(c)
  PROVE  Inv'
<1>1. /\ run[c].pc = "call" /\ run[c].todo # <<>> /\ Return(c)
      /\ UNCHANGED <<kv, version, globalMu, mode>>
  BY ControlCalls DEF Discard, Runs, NoQueue
<1>2. /\ conn \in [Conns -> ClientStates] /\ hist \in Histories
      /\ AuthOK(c) /\ BlockOK(c) /\ TypeInv
  BY DEF Inv, TypeInv
<1>3. CASE conn' = conn /\ hist' = hist
  BY <1>1, <1>2, <1>3, ReturnStep DEF AuthOK, BlockOK
<1>4. CASE conn' = OutOfMulti(c) /\ hist' = Forget(c)
  <2>1. /\ conn' \in [Conns -> ClientStates]
        /\ \A d \in Conns \ {c} : conn'[d] = conn[d]
    BY <1>2, <1>4, OutOfMultiType
  <2>2. /\ conn'[c].authenticated = conn[c].authenticated /\ conn'[c].workspace = conn[c].workspace
        /\ ~conn'[c].inMulti /\ conn'[c].watched = Empty
    BY <1>2, <1>4, OutOfMultiType
  <2>3. /\ conn[c].authenticated => conn'[c].authenticated
        /\ Required /\ ~conn'[c].authenticated => ~conn'[c].inMulti /\ DOMAIN conn'[c].watched = {}
        /\ mode = "multi" /\ conn'[c].authenticated =>
             \E p \in DOMAIN Credentials : conn'[c].workspace = Credentials[p]
    BY <1>2, <2>2, EmptyTypes DEF AuthOK
  <2>4. /\ hist' \in Histories
        /\ \A d \in Conns \ {c} : hist'.sent[d] = hist.sent[d]
        /\ hist'.incs = hist.incs /\ hist'.outside = hist.outside
    BY <1>4, ForgetType DEF Inv
  <2> QED
    BY <1>1, <2>1, <2>2, <2>3, <2>4, ReturnStep
<1> QED
  BY <1>3, <1>4 DEF Discard

LEMMA UnwatchInv ==
  ASSUME Inv, NEW c \in Conns, Unwatch(c)
  PROVE  Inv'
<1>1. /\ run[c].pc = "call" /\ run[c].todo # <<>> /\ Return(c)
      /\ conn' = [conn EXCEPT ![c].watched = Empty]
      /\ hist' = [hist EXCEPT !.watchedIn[c] = Empty]
      /\ UNCHANGED <<kv, version, globalMu, mode>>
  BY ControlCalls DEF Unwatch, Runs, NoQueue
<1>2. /\ conn \in [Conns -> ClientStates] /\ hist \in Histories
      /\ AuthOK(c) /\ BlockOK(c)
  BY DEF Inv, TypeInv
<1>3. /\ conn' \in [Conns -> ClientStates]
      /\ \A d \in Conns \ {c} : conn'[d] = conn[d]
  BY <1>1, <1>2, EmptyTypes DEF ClientStates
<1>4. /\ conn'[c].authenticated = conn[c].authenticated /\ conn'[c].workspace = conn[c].workspace
      /\ conn'[c].inMulti = conn[c].inMulti /\ conn'[c].multiError = conn[c].multiError
      /\ conn'[c].queued = conn[c].queued /\ conn'[c].watched = Empty
  BY <1>1, <1>2 DEF ClientStates
<1>5. /\ hist' \in Histories /\ hist'.sent = hist.sent
      /\ hist'.incs = hist.incs /\ hist'.outside = hist.outside
  <2> DEFINE s == [hist.watchedIn EXCEPT ![c] = Empty]
  <2>1. s \in [Conns -> WatchLogs]
    BY <1>2, EmptyTypes DEF Histories
  <2>2. hist' = [hist EXCEPT !.watchedIn = s]
    BY <1>1
  <2> HIDE DEF s
  <2> QED
    BY <1>2, <2>1, <2>2 DEF Histories
<1>6. /\ conn[c].authenticated => conn'[c].authenticated
      /\ Required /\ ~conn'[c].authenticated => ~conn'[c].inMulti /\ DOMAIN conn'[c].watched = {}
      /\ mode = "multi" /\ conn'[c].authenticated =>
           \E p \in DOMAIN Credentials : conn'[c].workspace = Credentials[p]
  BY <1>2, <1>4, EmptyTypes DEF AuthOK
<1>7. conn'[c].inMulti /\ ~conn'[c].multiError => conn'[c].queued = hist'.sent[c]
  BY <1>2, <1>4, <1>5 DEF BlockOK
<1> QED
  BY <1>1, <1>3, <1>5, <1>6, <1>7, ReturnStep

(* WATCH records a version: c has authenticated and is not in a block.     *)
LEMMA WatchNextFacts ==
  ASSUME Inv, NEW c \in Conns, WatchNext(c),
         NEW k, k = This(c).keys[run[c].i], NEW s, s = Slot(c, k)
  PROVE  /\ run[c].pc = "call" /\ run[c].todo # <<>> /\ This(c).name = "WATCH"
         /\ k \in Keys /\ s \in Slots
         /\ conn[c].authenticated \/ ~Required
         /\ MapPut(conn[c].watched, k, version[s]) \in WatchMaps
         /\ MapPut(hist.watchedIn[c], k, <<s, version[s]>>) \in WatchLogs
<1>1. run[c].pc = "call" /\ This(c).name = "WATCH" /\ run[c].todo # <<>>
  BY ControlCalls DEF WatchNext, Runs, NoQueue, This
<1>2. run[c] \in RunStates /\ conn[c] \in ClientStates /\ hist \in Histories /\ version \in [Slots -> Nat]
  BY DEF Inv, TypeInv
<1>3. This(c) \in Ready
  BY <1>1, <1>2 DEF This, RunStates
<1>4. k \in Keys
  BY <1>1, <1>3 DEF Inv, BlockOK, Ready, Commands
<1>5. s \in Slots
  BY <1>2, <1>4 DEF Slots, Slot, ClientStates
<1>6. version[s] \in Nat /\ <<s, version[s]>> \in Slots \X Nat
  BY <1>2, <1>5
<1>7. MapPut(conn[c].watched, k, version[s]) \in WatchMaps
  <2>1. PICK D \in SUBSET Keys : conn[c].watched \in [D -> Nat]
    BY <1>2 DEF ClientStates, WatchMaps
  <2>2. MapPut(conn[c].watched, k, version[s]) \in [D \cup {k} -> Nat]
    BY <1>6, <2>1 DEF MapPut
  <2>3. D \cup {k} \in SUBSET Keys
    BY <1>4
  <2> QED
    BY <2>2, <2>3 DEF WatchMaps
<1>8. MapPut(hist.watchedIn[c], k, <<s, version[s]>>) \in WatchLogs
  <2>1. hist.watchedIn[c] \in WatchLogs
    BY <1>2 DEF Histories
  <2>2. PICK D \in SUBSET Keys : hist.watchedIn[c] \in [D -> Slots \X Nat]
    BY <2>1 DEF WatchLogs
  <2>3. MapPut(hist.watchedIn[c], k, <<s, version[s]>>) \in [D \cup {k} -> Slots \X Nat]
    BY <1>6, <2>2 DEF MapPut
  <2>4. D \cup {k} \in SUBSET Keys
    BY <1>4
  <2> QED
    BY <2>3, <2>4 DEF WatchLogs
<1>9. conn[c].authenticated \/ ~Required
  BY <1>1 DEF Inv, AuthOK, AllowedNoAuth
<1> QED
  BY <1>1, <1>4, <1>5, <1>7, <1>8, <1>9

LEMMA WatchNextInv ==
  ASSUME Inv, NEW c \in Conns, WatchNext(c)
  PROVE  Inv'
<1> DEFINE k == This(c).keys[run[c].i]
           s == Slot(c, k)
           m == MapPut(conn[c].watched, k, version[s])
           w == MapPut(hist.watchedIn[c], k, <<s, version[s]>>)
<1>1. /\ run[c].pc = "call" /\ run[c].todo # <<>> /\ This(c).name = "WATCH"
      /\ conn[c].authenticated \/ ~Required
      /\ m \in WatchMaps /\ w \in WatchLogs
  BY WatchNextFacts
<1>2. /\ conn \in [Conns -> ClientStates] /\ hist \in Histories /\ run \in [Conns -> RunStates]
      /\ AuthOK(c) /\ BlockOK(c)
  BY DEF Inv, TypeInv
<1>3. UNCHANGED <<kv, version, globalMu, mode>>
  BY DEF WatchNext
<1>4. CASE conn[c].inMulti
  <2>1. Return(c) /\ conn' = conn /\ hist' = hist
    BY <1>4 DEF WatchNext
  <2> QED
    BY <1>1, <1>2, <1>3, <2>1, ReturnStep DEF AuthOK, BlockOK
<1>5. CASE ~conn[c].inMulti
  <2> DEFINE h == [hist.watchedIn EXCEPT ![c] = w]
  <2>1. /\ conn' = [conn EXCEPT ![c].watched = m]
        /\ hist' = [hist EXCEPT !.watchedIn = h]
    BY <1>5 DEF WatchNext
  <2>2. h \in [Conns -> WatchLogs]
    <3> HIDE DEF w
    <3> QED
      BY <1>1, <1>2 DEF Histories
  <2> HIDE DEF k, s, m, w, h
  <2>3. /\ conn' \in [Conns -> ClientStates]
        /\ \A d \in Conns \ {c} : conn'[d] = conn[d]
    BY <1>1, <1>2, <2>1 DEF ClientStates
  <2>4. /\ conn'[c].authenticated = conn[c].authenticated /\ conn'[c].workspace = conn[c].workspace
        /\ ~conn'[c].inMulti
    BY <1>2, <1>5, <2>1 DEF ClientStates
  <2>5. /\ hist' \in Histories /\ hist'.sent = hist.sent
        /\ hist'.incs = hist.incs /\ hist'.outside = hist.outside
    BY <1>2, <2>1, <2>2 DEF Histories
  <2>6. /\ conn[c].authenticated => conn'[c].authenticated
        /\ Required /\ ~conn'[c].authenticated => ~conn'[c].inMulti /\ DOMAIN conn'[c].watched = {}
        /\ mode = "multi" /\ conn'[c].authenticated =>
             \E p \in DOMAIN Credentials : conn'[c].workspace = Credentials[p]
    BY <1>1, <1>2, <2>4 DEF AuthOK
  <2>7. CASE Return(c)
    BY <1>1, <1>3, <2>3, <2>4, <2>5, <2>6, <2>7, ReturnStep
  <2>8. CASE run[c].i < Len(This(c).keys) /\ run' = [run EXCEPT ![c].i = @ + 1]
    <3> DEFINE i == run[c].i + 1
    <3>1. run[c].i \in Nat \ {0} /\ i \in Nat \ {0}
      BY <1>2 DEF RunStates
    <3>a. run' = [run EXCEPT ![c].i = i]
      BY <2>8
    <3> HIDE DEF i
    <3>2. /\ run' \in [Conns -> RunStates]
          /\ \A d \in Conns \ {c} : run'[d] = run[d]
          /\ run'[c].pc = "call" /\ run'[c].todo = run[c].todo /\ run'[c].i = i
      BY <1>1, <1>2, <3>1, <3>a DEF RunStates
    <3>3. TypeInv'
      BY <1>3, <2>3, <2>5, <3>2 DEF Inv, TypeInv
    <3>4. AuthOK(c)'
      BY <1>1, <1>3, <2>6, <3>2 DEF AuthOK, Required, This
    <3>5. BlockOK(c)'
      <4>1. i \in 1..Len(This(c).keys)
        BY <1>1, <1>2, <2>8, <3>1 DEF BlockOK, i
      <4> QED
        BY <1>1, <2>4, <3>2, <4>1 DEF BlockOK, This
    <3> QED
      BY <1>1, <1>3, <2>3, <2>5, <3>2, <3>3, <3>4, <3>5, QuietStep
  <2> QED
    BY <1>5, <2>7, <2>8 DEF WatchNext
<1> QED
  BY <1>4, <1>5

(* EXEC takes the block over, if there is one without an error. *)
LEMMA ExecTakesFacts ==
  ASSUME Inv, NEW c \in Conns, ExecBegin(c), conn[c].inMulti, ~conn[c].multiError
  PROVE  /\ conn' = OutOfMulti(c)
         /\ run' \in [Conns -> RunStates]
         /\ \A d \in Conns \ {c} : run'[d] = run[d]
         /\ run'[c].pc = "check" /\ run'[c].todo = conn[c].queued /\ run'[c].i = 1
         /\ run'[c].left = DOMAIN conn[c].watched /\ run'[c].watched = conn[c].watched
         /\ hist' \in Histories
         /\ hist'.sent = hist.sent /\ hist'.incs = hist.incs /\ hist'.outside = hist.outside
         /\ hist'.doomed[c] <=> Changed(hist.watchedIn[c])
         /\ hist'.watchedIn[c] = Empty
         /\ \A d \in Conns \ {c} : /\ hist'.watchedIn[d] = hist.watchedIn[d]
                                   /\ hist'.doomed[d] = hist.doomed[d]
<1>1. conn[c] \in ClientStates /\ hist \in Histories /\ run \in [Conns -> RunStates]
  BY DEF Inv, TypeInv
<1> DEFINE r == [Reading EXCEPT !.pc = "check", !.todo = conn[c].queued,
                                !.left = DOMAIN conn[c].watched, !.watched = conn[c].watched]
           w == [hist.watchedIn EXCEPT ![c] = Empty]
           a == [hist.atExec EXCEPT ![c] = hist.watchedIn[c]]
           b == [hist.doomed EXCEPT ![c] = Changed(hist.watchedIn[c])]
<1>2. conn' = OutOfMulti(c) /\ run' = [run EXCEPT ![c] = r]
  BY DEF ExecBegin
<1>3. conn[c].queued \in Seq(Ready) /\ DOMAIN conn[c].watched \in SUBSET Keys /\ conn[c].watched \in WatchMaps
  BY <1>1 DEF ClientStates, Queueable, WatchMaps
<1>4. r \in RunStates
  BY <1>3, ReadingType DEF RunStates
<1>5. /\ r.pc = "check" /\ r.todo = conn[c].queued /\ r.i = 1
      /\ r.left = DOMAIN conn[c].watched /\ r.watched = conn[c].watched
  BY DEF Reading
<1>6. hist' = [hist EXCEPT !.doomed = b, !.atExec = a, !.watchedIn = w]
  BY <1>1 DEF ExecBegin, Histories
<1>7. Changed(hist.watchedIn[c]) \in BOOLEAN
  BY DEF Changed
<1>8. /\ w \in [Conns -> WatchLogs] /\ a \in [Conns -> WatchLogs] /\ b \in [Conns -> BOOLEAN]
      /\ w[c] = Empty /\ (b[c] <=> Changed(hist.watchedIn[c]))
      /\ \A d \in Conns \ {c} : w[d] = hist.watchedIn[d] /\ b[d] = hist.doomed[d]
  BY <1>1, <1>7, EmptyTypes DEF Histories
<1> HIDE DEF r, w, a, b
<1>9. hist' \in Histories /\ hist'.watchedIn = w /\ hist'.doomed = b
  BY <1>1, <1>6, <1>8 DEF Histories
<1>10. hist'.sent = hist.sent /\ hist'.incs = hist.incs /\ hist'.outside = hist.outside
  BY <1>1, <1>6 DEF Histories
<1>11. run' \in [Conns -> RunStates] /\ run'[c] = r /\ \A d \in Conns \ {c} : run'[d] = run[d]
  BY <1>1, <1>2, <1>4
<1> QED
  BY <1>2, <1>5, <1>8, <1>9, <1>10, <1>11

LEMMA ExecBeginInv ==
  ASSUME Inv, NEW c \in Conns, ExecBegin(c)
  PROVE  Inv'
<1>1. /\ run[c].pc = "call" /\ run[c].todo # <<>> /\ This(c).name = "EXEC"
      /\ UNCHANGED <<kv, version, globalMu, mode>>
  BY ControlCalls DEF ExecBegin, Runs, NoQueue, This
<1>2. /\ conn \in [Conns -> ClientStates] /\ hist \in Histories
      /\ AuthOK(c) /\ BlockOK(c) /\ TypeInv
  BY DEF Inv, TypeInv
<1>3. CASE ~conn[c].inMulti
  <2>1. conn' = conn /\ hist' = hist /\ Return(c)
    BY <1>3 DEF ExecBegin
  <2> QED
    BY <1>1, <1>2, <2>1, ReturnStep DEF AuthOK, BlockOK
<1>4. ASSUME conn' = OutOfMulti(c)
      PROVE  /\ conn' \in [Conns -> ClientStates]
             /\ \A d \in Conns \ {c} : conn'[d] = conn[d]
             /\ conn'[c].authenticated = conn[c].authenticated /\ conn'[c].workspace = conn[c].workspace
             /\ ~conn'[c].inMulti /\ conn'[c].watched = Empty
  BY <1>2, <1>4, OutOfMultiType
<1>5. CASE conn[c].inMulti /\ conn[c].multiError
  <2>1. conn' = OutOfMulti(c) /\ hist' = Forget(c) /\ Return(c)
    BY <1>5 DEF ExecBegin
  <2>2. /\ hist' \in Histories
        /\ \A d \in Conns \ {c} : hist'.sent[d] = hist.sent[d]
        /\ hist'.incs = hist.incs /\ hist'.outside = hist.outside
    BY <2>1, ForgetType DEF Inv
  <2>3. /\ conn[c].authenticated => conn'[c].authenticated
        /\ Required /\ ~conn'[c].authenticated => ~conn'[c].inMulti /\ DOMAIN conn'[c].watched = {}
        /\ mode = "multi" /\ conn'[c].authenticated =>
             \E p \in DOMAIN Credentials : conn'[c].workspace = Credentials[p]
    BY <1>2, <1>4, <2>1, EmptyTypes DEF AuthOK
  <2> QED
    BY <1>1, <1>4, <2>1, <2>2, <2>3, ReturnStep
<1>6. CASE conn[c].inMulti /\ ~conn[c].multiError
  <2>1. /\ conn' = OutOfMulti(c)
        /\ run' \in [Conns -> RunStates]
        /\ \A d \in Conns \ {c} : run'[d] = run[d]
        /\ run'[c].pc = "check" /\ run'[c].todo = conn[c].queued /\ run'[c].i = 1
        /\ hist' \in Histories
        /\ hist'.sent = hist.sent /\ hist'.incs = hist.incs /\ hist'.outside = hist.outside
    BY <1>6, ExecTakesFacts
  <2>2. TypeInv'
    BY <1>1, <1>4, <2>1 DEF Inv, TypeInv
  <2>3. AuthOK(c)'
    BY <1>1, <1>2, <1>4, <1>6, <2>1 DEF AuthOK, Required
  <2>4. BlockOK(c)'
    <3>1. conn[c].queued \in Seq(Queueable) /\ conn[c].queued = hist.sent[c]
      BY <1>2, <1>6 DEF BlockOK, ClientStates
    <3> QED
      BY <1>4, <2>1, <3>1, EmptyTypes DEF BlockOK
  <2> QED
    BY <1>1, <1>4, <2>1, <2>2, <2>3, <2>4, QuietStep
<1> QED
  BY <1>3, <1>5, <1>6

LEMMA ExecCheckInv ==
  ASSUME Inv, NEW c \in Conns, ExecCheck(c) \/ ExecChecked(c)
  PROVE  Inv'
<1>1. run[c].pc = "check" /\ UNCHANGED <<kv, version, globalMu, conn, mode>>
  BY DEF ExecCheck, ExecChecked
<1>2. /\ run \in [Conns -> RunStates] /\ hist \in Histories /\ TypeInv
      /\ AuthOK(c) /\ BlockOK(c)
  BY DEF Inv, TypeInv
<1>3. CASE run' = [run EXCEPT ![c] = Reading] /\ hist' = Forget(c)
  <2>1. /\ run' \in [Conns -> RunStates] /\ run'[c] = Reading
        /\ \A d \in Conns \ {c} : run'[d] = run[d]
    BY <1>2, <1>3, ReadingType
  <2>2. /\ hist' \in Histories
        /\ \A d \in Conns \ {c} : hist'.sent[d] = hist.sent[d]
        /\ hist'.incs = hist.incs /\ hist'.outside = hist.outside
    BY <1>2, <1>3, ForgetType
  <2>3. TypeInv'
    BY <1>1, <2>1, <2>2 DEF Inv, TypeInv
  <2>4. AuthOK(c)'
    BY <1>1, <1>2, <2>1, ReadingType DEF AuthOK, Required
  <2>5. BlockOK(c)'
    BY <1>1, <1>2, <2>1, <2>2, ReadingType DEF BlockOK
  <2> QED
    BY <1>1, <2>1, <2>2, <2>3, <2>4, <2>5, ReadingType, QuietStep
<1>4. CASE /\ hist' = hist
           /\ \/ \E k \in run[c].left : run' = [run EXCEPT ![c].left = @ \ {k}]
              \/ run' = [run EXCEPT ![c].pc = "lock"]
  <2>1. /\ run' \in [Conns -> RunStates]
        /\ \A d \in Conns \ {c} : run'[d] = run[d]
        /\ run'[c].pc \in {"check", "lock"} /\ run'[c].todo = run[c].todo /\ run'[c].i = run[c].i
    <3>1. CASE run' = [run EXCEPT ![c].pc = "lock"]
      BY <1>2, <3>1 DEF RunStates
    <3>2. ASSUME NEW k \in run[c].left, run' = [run EXCEPT ![c].left = @ \ {k}]
          PROVE  /\ run' \in [Conns -> RunStates]
                 /\ \A d \in Conns \ {c} : run'[d] = run[d]
                 /\ run'[c].pc \in {"check", "lock"} /\ run'[c].todo = run[c].todo /\ run'[c].i = run[c].i
      <4> DEFINE l == run[c].left \ {k}
      <4>1. l \in SUBSET Keys /\ run' = [run EXCEPT ![c].left = l]
        BY <1>2, <3>2 DEF RunStates
      <4> HIDE DEF l
      <4> QED
        BY <1>1, <1>2, <4>1 DEF RunStates
    <3> QED
      BY <1>4, <3>1, <3>2
  <2>2. TypeInv'
    BY <1>1, <1>4, <2>1 DEF Inv, TypeInv
  <2>3. AuthOK(c)'
    BY <1>1, <1>2, <2>1 DEF AuthOK, Required
  <2>4. BlockOK(c)'
    BY <1>1, <1>2, <1>4, <2>1 DEF BlockOK
  <2> QED
    BY <1>1, <1>4, <2>1, <2>2, <2>3, <2>4, QuietStep
<1> QED
  BY <1>3, <1>4 DEF ExecCheck, ExecChecked

-----------------------------------------------------------------------------
(* The engine's mutex. *)
LEMMA ExecLockInv ==
  ASSUME Inv, NEW c \in Conns, ExecLock(c)
  PROVE  Inv'
<1>1. /\ run[c].pc = "lock" /\ globalMu = Unlocked /\ globalMu' = c
      /\ run' = [run EXCEPT ![c].pc = "body"]
      /\ UNCHANGED <<kv, version, conn, hist, mode>>
  BY DEF ExecLock
<1>2. TypeInv /\ AuthOK(c) /\ BlockOK(c) /\ TxInv /\ run \in [Conns -> RunStates]
  BY DEF Inv, TypeInv
<1>3. /\ run' \in [Conns -> RunStates]
      /\ \A d \in Conns \ {c} : run'[d] = run[d]
      /\ run'[c].pc = "body" /\ run'[c].todo = run[c].todo /\ run'[c].i = run[c].i
  BY <1>1, <1>2 DEF RunStates
<1>4. TypeInv'
  BY <1>1, <1>3 DEF Inv, TypeInv
<1>5. AuthOK(c)' /\ BlockOK(c)'
  BY <1>1, <1>2, <1>3 DEF AuthOK, BlockOK, Required
<1>6. \A d \in Conns : AuthOK(d)' /\ BlockOK(d)'
  BY <1>1, <1>3, <1>5, OthersKept DEF Inv
<1>7. TxCountersExact'
  BY <1>1, <1>2, <1>3, SessionAssumption DEF TxInv, TxCountersExact
<1>8. \A d \in Conns \ {c} : run'[d].pc # "body"
  BY <1>1, <1>2, <1>3, SessionAssumption DEF TxInv, TxCountersExact
<1>9. run'[c].i = 1
  BY <1>1, <1>2, <1>3 DEF BlockOK
<1>10. TxInv'
  BY <1>7, <1>8, <1>9 DEF TxInv
<1> QED
  BY <1>4, <1>6, <1>10 DEF Inv

LEMMA ExecUnlockInv ==
  ASSUME Inv, NEW c \in Conns, ExecUnlock(c)
  PROVE  Inv'
<1>1. /\ run[c].pc = "body" /\ globalMu' = Unlocked
      /\ run' = [run EXCEPT ![c] = Reading] /\ hist' = Forget(c)
      /\ UNCHANGED <<kv, version, conn, mode>>
  BY DEF ExecUnlock
<1>2. TypeInv /\ AuthOK(c) /\ BlockOK(c) /\ TxInv /\ run \in [Conns -> RunStates]
  BY DEF Inv, TypeInv
<1>3. /\ run' \in [Conns -> RunStates] /\ run'[c] = Reading
      /\ \A d \in Conns \ {c} : run'[d] = run[d]
  BY <1>1, <1>2, ReadingType
<1>4. /\ hist' \in Histories
      /\ \A d \in Conns \ {c} : hist'.sent[d] = hist.sent[d]
      /\ hist'.incs = hist.incs /\ hist'.outside = hist.outside
  BY <1>1, <1>2, ForgetType
<1>5. TypeInv'
  BY <1>1, <1>3, <1>4 DEF Inv, TypeInv
<1>6. AuthOK(c)' /\ BlockOK(c)'
  BY <1>1, <1>2, <1>3, ReadingType DEF AuthOK, BlockOK, Required
<1>7. \A d \in Conns : AuthOK(d)' /\ BlockOK(d)'
  BY <1>1, <1>3, <1>4, <1>6, OthersKept DEF Inv
<1>8. \A d \in Conns : run'[d].pc # "body"
  BY <1>1, <1>2, <1>3, ReadingType DEF TxInv, TxCountersExact
<1>9. TxCountersExact'
  BY <1>1, <1>2, <1>4, <1>8, SessionAssumption DEF TxInv, TxCountersExact
<1>10. TxInv'
  BY <1>8, <1>9 DEF TxInv
<1> QED
  BY <1>5, <1>7, <1>10 DEF Inv

-----------------------------------------------------------------------------
(* Handlers that write. *)
LEMMA EngineSetType ==
  ASSUME TypeInv, NEW s, NEW val \in Values, EngineSet(s, val)
  PROVE  /\ kv' \in [Slots -> Values] /\ version' \in [Slots -> Nat]
         /\ \A x \in Slots : version'[x] >= version[x]
         /\ \A x \in Slots : x # s => version'[x] = version[x] /\ kv'[x] = kv[x]
         /\ s \in Slots => kv'[s] = val
<1>1. /\ kv \in [Slots -> Values] /\ kv' = [kv EXCEPT ![s] = val]
      /\ version \in [Slots -> Nat] /\ version' = [version EXCEPT ![s] = version[s] + 1]
  BY DEF TypeInv, EngineSet
<1>2. CASE s \in Slots
  BY <1>1, <1>2
<1>3. CASE s \notin Slots
  <2>1. \A x \in Slots : kv'[x] = kv[x] /\ version'[x] = version[x]
    BY <1>1, <1>3
  <2>2. kv' \in [Slots -> Values]
    BY <1>1, <2>1
  <2>3. version' = [x \in Slots |-> version'[x]]
    BY <1>1
  <2>4. version' \in [Slots -> Nat]
    BY <1>1, <2>1, <2>3
  <2> QED
    BY <1>1, <1>3, <2>1, <2>2, <2>4
<1> QED
  BY <1>2, <1>3

(* Either the write counts as one from outside, or c is in a body and the  *)
(* counters add up afterwards: nobody else is in one.                      *)
LEMMA WriteStep ==
  ASSUME Inv, NEW c \in Conns, TypeInv', UNCHANGED <<globalMu, conn, mode>>,
         \A d \in Conns \ {c} : run'[d] = run[d],
         hist'.sent = hist.sent,
         run'[c].pc = "body" <=> run[c].pc = "body",
         AuthOK(c)', BlockOK(c)',
         \/ hist'.outside
         \/ run[c].pc = "body" /\ run'[c].i = 1 /\ \A s \in Slots : IntOf(kv'[s]) = hist'.incs[s]
  PROVE  Inv'
<1>1. \A d \in Conns : AuthOK(d)' /\ BlockOK(d)'
  BY OthersKept DEF Inv
<1>2. \A d \in Conns : run'[d].pc = "body" <=> globalMu' = d
  BY DEF Inv, TxInv, TxCountersExact
<1>3. TxCountersExact'
  BY <1>2 DEF TxCountersExact
<1>4. TxInv'
  BY <1>2, <1>3 DEF TxInv
<1> QED
  BY <1>1, <1>4 DEF Inv

(* The handler returns and leaves its connection as it was. *)
LEMMA ReturnLocal ==
  ASSUME Inv, NEW c \in Conns, run[c].pc \in {"call", "body"}, run[c].todo # <<>>, Return(c),
         UNCHANGED <<conn, mode>>, hist'.sent = hist.sent
  PROVE  /\ run' \in [Conns -> RunStates]
         /\ \A d \in Conns \ {c} : run'[d] = run[d]
         /\ run'[c].pc = "body" <=> run[c].pc = "body"
         /\ run[c].pc = "body" => run'[c].i = 1
         /\ AuthOK(c)' /\ BlockOK(c)'
<1>1. /\ run' \in [Conns -> RunStates]
      /\ \A d \in Conns \ {c} : run'[d] = run[d]
      /\ run[c].pc = "call" => run'[c] = Reading
      /\ run[c].pc = "body" => /\ run'[c].pc = "body" /\ run'[c].todo = Tail(run[c].todo)
                               /\ run'[c].i = 1
  BY ReturnType DEF Inv
<1>2. run'[c].pc = "body" <=> run[c].pc = "body"
  BY <1>1, ReadingType
<1>3. AuthOK(c)'
  BY <1>1, <1>2, ReadingType DEF Inv, AuthOK, Required
<1>4. BlockOK(c)'
  <2>1. CASE run[c].pc = "call"
    BY <1>1, <2>1, ReadingType DEF Inv, BlockOK
  <2>2. CASE run[c].pc = "body"
    <3>1. run[c].todo \in Seq(Queueable)
      BY <2>2 DEF Inv, BlockOK
    <3>2. Tail(run[c].todo) \in Seq(Queueable)
      BY <3>1
    <3> QED
      BY <1>1, <2>2, <3>2 DEF Inv, BlockOK
  <2> QED
    BY <2>1, <2>2
<1> QED
  BY <1>1, <1>2, <1>3, <1>4

(* The handler goes on to its next step. *)
LEMMA StepLocal ==
  ASSUME Inv, NEW c \in Conns, Runs(c, {"SET", "MSET", "INCRBY", "APPEND"}),
         NEW i \in Nat \ {0}, NEW v \in Values,
         run' = [run EXCEPT ![c].i = i] \/ run' = [run EXCEPT ![c].i = i, ![c].read = v],
         UNCHANGED <<conn, mode>>, hist'.sent = hist.sent
  PROVE  /\ run' \in [Conns -> RunStates]
         /\ \A d \in Conns \ {c} : run'[d] = run[d]
         /\ run'[c].pc = run[c].pc /\ run'[c].todo = run[c].todo /\ run'[c].i = i
         /\ AuthOK(c)' /\ BlockOK(c)'
<1>1. run \in [Conns -> RunStates] /\ run[c].pc \in {"call", "body"} /\ AuthOK(c) /\ BlockOK(c)
  BY DEF Inv, TypeInv, Runs
<1>2. /\ run' \in [Conns -> RunStates]
      /\ \A d \in Conns \ {c} : run'[d] = run[d]
      /\ run'[c].pc = run[c].pc /\ run'[c].todo = run[c].todo /\ run'[c].i = i
  <2>1. CASE run' = [run EXCEPT ![c].i = i]
    BY <1>1, <2>1 DEF RunStates
  <2>2. CASE run' = [run EXCEPT ![c].i = i, ![c].read = v]
    BY <1>1, <2>2, ZenonT(40) DEF RunStates
  <2> QED
    BY <2>1, <2>2
<1>3. AuthOK(c)'
  BY <1>1, <1>2 DEF AuthOK, Required, This
<1>4. BlockOK(c)'
  <2>1. This(c).name # "WATCH"
    BY DEF Runs, This
  <2> QED
    BY <1>1, <1>2, <2>1 DEF BlockOK, This
<1> QED
  BY <1>2, <1>3, <1>4

LEMMA SetNextInv ==
  ASSUME Inv, NEW c \in Conns, SetNext(c)
  PROVE  Inv'
<1>1. /\ Runs(c, {"SET", "MSET"})
      /\ run[c].pc \in {"call", "body"} /\ run[c].todo # <<>>
      /\ EngineSet(Slot(c, This(c).keys[run[c].i]), <<This(c).arg>>)
      /\ hist' = [hist EXCEPT !.outside = TRUE]
      /\ UNCHANGED <<globalMu, conn, mode>>
  BY DEF SetNext, Runs
<1>2. run[c] \in RunStates /\ hist \in Histories /\ TypeInv
  BY DEF Inv, TypeInv
<1>3. This(c) \in Ready
  BY <1>1, <1>2 DEF RunStates, This
<1>4. <<This(c).arg>> \in Values
  BY <1>3 DEF Ready, Commands, Values
<1>5. kv' \in [Slots -> Values] /\ version' \in [Slots -> Nat]
  BY <1>1, <1>2, <1>4, EngineSetType
<1>6. hist' \in Histories /\ hist'.outside /\ hist'.sent = hist.sent
  BY <1>1, <1>2 DEF Histories
<1>7. /\ run' \in [Conns -> RunStates]
      /\ \A d \in Conns \ {c} : run'[d] = run[d]
      /\ run'[c].pc = "body" <=> run[c].pc = "body"
      /\ AuthOK(c)' /\ BlockOK(c)'
  <2>1. CASE Return(c)
    BY <1>1, <1>6, <2>1, ReturnLocal
  <2>2. CASE run' = [run EXCEPT ![c].i = @ + 1]
    <3> DEFINE i == run[c].i + 1
    <3>1. i \in Nat \ {0} /\ run' = [run EXCEPT ![c].i = i]
      BY <1>2, <2>2 DEF RunStates
    <3>2. Runs(c, {"SET", "MSET", "INCRBY", "APPEND"}) /\ <<>> \in Values
      BY <1>1 DEF Runs, Values
    <3> HIDE DEF i
    <3> QED
      BY <1>1, <1>6, <3>1, <3>2, StepLocal
  <2> QED
    BY <2>1, <2>2 DEF SetNext
<1>8. TypeInv'
  BY <1>1, <1>2, <1>5, <1>6, <1>7 DEF TypeInv
<1> QED
  BY <1>1, <1>6, <1>7, <1>8, WriteStep

(* What INCRBY and APPEND read is a value; in a body, it is the value that *)
(* is there.                                                               *)
LEMMA ReadOldInv ==
  ASSUME Inv, NEW c \in Conns, ReadOld(c)
  PROVE  Inv'
<1> DEFINE v == kv[Slot(c, This(c).keys[1])]
<1>1. /\ Runs(c, {"SET", "MSET", "INCRBY", "APPEND"})
      /\ run[c].pc \in {"call", "body"} /\ run[c].todo # <<>> /\ This(c).name \in {"INCRBY", "APPEND"}
      /\ UNCHANGED <<kv, version, globalMu, conn, hist, mode>>
      /\ Return(c) \/ run' = [run EXCEPT ![c].i = 2, ![c].read = v]
  BY DEF ReadOld, Runs, This
<1>2. run[c] \in RunStates /\ conn[c] \in ClientStates /\ kv \in [Slots -> Values] /\ TypeInv
      /\ run \in [Conns -> RunStates]
  BY DEF Inv, TypeInv
<1>3. This(c) \in Ready
  BY <1>1, <1>2 DEF RunStates, This
<1>4. Slot(c, This(c).keys[1]) \in Slots
  <2>1. This(c).keys \in Seq(Keys) /\ This(c).keys # <<>>
    BY <1>1, <1>3 DEF Ready, Commands, Keyed
  <2>2. This(c).keys[1] \in Keys
    BY <2>1
  <2> QED
    BY <1>2, <2>2 DEF Slot, Slots, ClientStates
<1>5. v \in Values
  BY <1>2, <1>4
<1>6. CASE Return(c)
  <2>1. /\ run' \in [Conns -> RunStates]
        /\ \A d \in Conns \ {c} : run'[d] = run[d]
        /\ run'[c].pc = "body" <=> run[c].pc = "body"
        /\ run[c].pc = "body" => run'[c].i = 1
        /\ AuthOK(c)' /\ BlockOK(c)'
    BY <1>1, <1>6, ReturnLocal
  <2>2. TypeInv'
    BY <1>1, <1>2, <2>1 DEF TypeInv
  <2> QED
    BY <1>1, <2>1, <2>2, QuietStep
<1>7. CASE run' = [run EXCEPT ![c].i = 2, ![c].read = v]
  <2>0. 2 \in Nat \ {0}
    OBVIOUS
  <2> HIDE DEF v
  <2>1. /\ run' \in [Conns -> RunStates]
        /\ \A d \in Conns \ {c} : run'[d] = run[d]
        /\ run'[c].pc = run[c].pc /\ run'[c].todo = run[c].todo
        /\ AuthOK(c)' /\ BlockOK(c)'
    BY <1>1, <1>5, <1>7, <2>0, StepLocal
  <2>2. run'[c].read = v
    BY <1>2, <1>7 DEF RunStates
  <2>3. TypeInv'
    BY <1>1, <1>2, <2>1 DEF TypeInv
  <2>4. run'[c].read = kv[Slot(c, This(c).keys[1])']
    BY <1>1, <2>1, <2>2 DEF v, Slot, This
  <2> QED
    BY <1>1, <2>1, <2>3, <2>4, QuietStep
<1> QED
  BY <1>1, <1>6, <1>7

(* The write of an INCRBY in a body adds to what is there. *)
LEMMA WriteNewInv ==
  ASSUME Inv, NEW c \in Conns, WriteNew(c)
  PROVE  Inv'
<1> DEFINE s   == Slot(c, This(c).keys[1])
           val == IF This(c).name = "INCRBY" THEN <<AddInt64(IntOf(run[c].read), This(c).arg)>>
                  ELSE Append(run[c].read, This(c).arg)
           n   == IF Outside(c) THEN hist.incs[s] ELSE AddInt64(hist.incs[s], This(c).arg)
<1>1. /\ run[c].pc \in {"call", "body"} /\ run[c].todo # <<>> /\ This(c).name \in {"INCRBY", "APPEND"}
      /\ run[c].i = 2 /\ Return(c) /\ EngineSet(s, val)
      /\ hist' = [hist EXCEPT !.outside = Outside(c), !.incs[s] = n]
      /\ UNCHANGED <<globalMu, conn, mode>>
  BY DEF WriteNew, Runs, This
<1>2. run[c] \in RunStates /\ conn[c] \in ClientStates /\ hist \in Histories /\ TypeInv
  BY DEF Inv, TypeInv
<1>3. This(c) \in Ready /\ This(c).arg \in Int /\ run[c].read \in Values
  BY <1>1, <1>2, SMTT(30) DEF RunStates, This, Ready, Commands
<1>4. s \in Slots
  <2>1. This(c).keys \in Seq(Keys) /\ This(c).keys # <<>>
    BY <1>1, <1>3 DEF Ready, Commands, Keyed
  <2>2. This(c).keys[1] \in Keys
    BY <2>1
  <2> QED
    BY <1>2, <2>2 DEF Slot, Slots, ClientStates
<1>5. val \in Values
  <2>1. CASE This(c).name = "INCRBY"
    <3>1. AddInt64(IntOf(run[c].read), This(c).arg) \in Int
      BY <1>3, IntOfType, AddIntType
    <3> QED
      BY <2>1, <3>1 DEF Values
  <2>2. CASE This(c).name # "INCRBY"
    BY <1>3, <2>2 DEF Values
  <2> QED
    BY <2>1, <2>2
<1>6. n \in Int
  <2>1. hist.incs[s] \in Int
    BY <1>2, <1>4 DEF Histories
  <2> QED
    BY <1>3, <2>1, AddIntType
<1>7. /\ kv' \in [Slots -> Values] /\ version' \in [Slots -> Nat]
      /\ \A x \in Slots : x # s => kv'[x] = kv[x]
      /\ kv'[s] = val
  <2> HIDE DEF s, val
  <2> QED
    BY <1>1, <1>2, <1>4, <1>5, EngineSetType
<1>8. Outside(c) \in BOOLEAN
  BY <1>2 DEF Outside, Histories
<1>9. /\ hist' \in Histories /\ hist'.sent = hist.sent
      /\ hist'.outside = Outside(c) /\ hist'.incs = [hist.incs EXCEPT ![s] = n]
  <2> DEFINE f == [hist.incs EXCEPT ![s] = n]
             o == Outside(c)
  <2>1. f \in [Slots -> Int] /\ o \in BOOLEAN
    <3> HIDE DEF n, s
    <3> QED
      BY <1>2, <1>4, <1>6, <1>8 DEF Histories
  <2>2. hist' = [hist EXCEPT !.outside = o, !.incs = f]
    BY <1>1, <1>2 DEF Histories
  <2> HIDE DEF f, o
  <2>3. hist' \in Histories /\ hist'.sent = hist.sent /\ hist'.outside = o /\ hist'.incs = f
    BY <1>2, <2>1, <2>2 DEF Histories
  <2> QED
    BY <2>3 DEF f, o
<1>10. /\ run' \in [Conns -> RunStates]
       /\ \A d \in Conns \ {c} : run'[d] = run[d]
       /\ run'[c].pc = "body" <=> run[c].pc = "body"
       /\ run[c].pc = "body" => run'[c].i = 1
       /\ AuthOK(c)' /\ BlockOK(c)'
  BY <1>1, <1>9, ReturnLocal
<1>11. TypeInv'
  BY <1>1, <1>2, <1>7, <1>9, <1>10 DEF TypeInv
<1>12. CASE Outside(c)
  <2>1. hist'.outside
    BY <1>9, <1>12
  <2> QED
    BY <1>1, <1>9, <1>10, <1>11, <2>1, WriteStep
<1>13. CASE ~Outside(c)
  <2>1. ~hist.outside /\ run[c].pc = "body" /\ This(c).name = "INCRBY"
    BY <1>1, <1>13 DEF Outside
  <2>2. run[c].read = kv[s] /\ IntOf(kv[s]) = hist.incs[s]
    BY <1>1, <1>4, <2>1 DEF Inv, TxInv, TxCountersExact
  <2>3. val = <<AddInt64(hist.incs[s], This(c).arg)>> /\ n = AddInt64(hist.incs[s], This(c).arg)
    BY <1>13, <2>1, <2>2
  <2> HIDE DEF s, val, n
  <2>4. IntOf(val) = n
    BY <2>3, IntOfOne, Zenon
  <2>5. \A x \in Slots : IntOf(kv'[x]) = hist'.incs[x]
    <3>1. hist.incs \in [Slots -> Int]
      BY <1>2 DEF Histories
    <3>2. \A x \in Slots : x # s => IntOf(kv[x]) = hist.incs[x]
      BY <2>1 DEF Inv, TxInv, TxCountersExact
    <3> QED
      BY <1>4, <1>7, <1>9, <2>4, <3>1, <3>2
  <2> QED
    BY <1>1, <1>9, <1>10, <1>11, <2>1, <2>5, WriteStep
<1> QED
  BY <1>12, <1>13

-----------------------------------------------------------------------------
LEMMA StutterInv ==
  ASSUME Inv, UNCHANGED vars
  PROVE  Inv'
<1>1. TypeInv'
  BY DEF vars, Inv, TypeInv
<1>2. \A d \in Conns : AuthOK(d)' /\ BlockOK(d)'
  BY OthersKept DEF vars, Inv
<1>3. TxInv'
  BY DEF vars, Inv, TxInv, TxCountersExact, This, Slot
<1> QED
  BY <1>1, <1>2, <1>3 DEF Inv

LEMMA NextInv == Inv /\ [Next]_vars => Inv'
<1> SUFFICES ASSUME Inv, [Next]_vars PROVE Inv'
  OBVIOUS
<1>1. ASSUME NEW c \in Conns, NEW cmd \in Requests[mode], Receive(c, cmd)  PROVE Inv'
  BY <1>1, RejectInv, QueueInv, StartInv DEF Receive
<1>2. ASSUME NEW c \in Conns, Serve(c)  PROVE Inv'
  BY <1>2, ReadInv, SetNextInv, ReadOldInv, WriteNewInv, AuthenticateInv, QuitInv, MultiInv, DiscardInv,
     WatchNextInv, UnwatchInv, ExecBeginInv, ExecCheckInv, ExecLockInv, ExecUnlockInv DEF Serve
<1>3. CASE UNCHANGED vars
  BY <1>3, StutterInv
<1> QED
  BY <1>1, <1>2, <1>3 DEF Next, Silent

(* Every step of every connection keeps the invariant. *)
THEOREM Invariance == Spec => []Inv
  BY InitInv, NextInv, PTL DEF Spec

(* EXEC takes on exactly the commands sent since MULTI, in that order      *)
(* (handlers_tx.go, and Handle's queueing in dispatch.go).                 *)
THEOREM BlocksAreWhole == Spec => []ExecRunsWholeBlock
<1>1. Inv => ExecRunsWholeBlock
  BY DEF Inv, BlockOK, ExecRunsWholeBlock
<1> QED
  BY <1>1, Invariance, PTL

(* The global mutex serialises transaction bodies and no increment made    *)
(* inside them is lost (Store.Exec, incrBy).                               *)
THEOREM IncrementsKept == Spec => []TxCountersExact
<1>1. Inv => TxCountersExact
  BY DEF Inv, TxInv
<1> QED
  BY <1>1, Invariance, PTL

-----------------------------------------------------------------------------
(* Only these two handlers change a key. *)
LEMMA OnlyWrites ==
  ASSUME Next, version' # version
  PROVE  \E c \in Conns : SetNext(c) \/ WriteNew(c)
<1>1. ASSUME NEW c \in Conns, NEW cmd \in Requests[mode], Receive(c, cmd)  PROVE FALSE
  BY <1>1 DEF Receive, RejectUnknown, RejectNoAuth, Queue, QueueReject, RejectArity, Start, Arrives
<1>2. ASSUME NEW c \in Conns, Serve(c), ~SetNext(c), ~WriteNew(c)  PROVE FALSE
  <2>1. CASE Read(c) \/ ReadOld(c) \/ Authenticate(c) \/ Quit(c) \/ Multi(c) \/ Discard(c)
    BY <2>1, Zenon DEF Read, ReadOld, Authenticate, Quit, Multi, Discard
  <2>2. CASE WatchNext(c) \/ Unwatch(c) \/ ExecBegin(c)
    BY <2>2, Zenon DEF WatchNext, Unwatch, ExecBegin
  <2>3. CASE ExecCheck(c) \/ ExecChecked(c) \/ ExecLock(c) \/ ExecUnlock(c)
    BY <2>3, Zenon DEF ExecCheck, ExecChecked, ExecLock, ExecUnlock
  <2> QED
    BY <1>2, <2>1, <2>2, <2>3 DEF Serve
<1>3. ASSUME NEW c \in Conns, Silent(c)  PROVE FALSE
  BY <1>3 DEF Silent, vars
<1> QED
  BY <1>1, <1>2, <1>3 DEF Next

(* No write where a password is required but by an authenticated           *)
(* connection, in the workspace of that connection (Handle's check in      *)
(* dispatch.go, which a queued command passed when it was queued).         *)
THEOREM WritesAreAuthorised == Spec => WritesAuthorised
<1>1. ASSUME Inv, [Next]_vars, version' # version, Required, NEW s \in Slots, version'[s] # version[s]
      PROVE  \E c \in Conns :
               /\ run'[c] # run[c]
               /\ conn[c].authenticated
               /\ s[1] = conn[c].workspace
               /\ mode = "multi" => \E p \in DOMAIN Credentials : s[1] = Credentials[p]
  <2>1. PICK c \in Conns : SetNext(c) \/ WriteNew(c)
    BY <1>1, OnlyWrites DEF vars
  <2>2. /\ run[c].pc \in {"call", "body"} /\ run[c].todo # <<>>
        /\ This(c).name \in {"SET", "MSET", "INCRBY", "APPEND"}
    BY <2>1 DEF SetNext, WriteNew, Runs, This
  <2>3. PICK k, v : EngineSet(Slot(c, k), v)
    BY <2>1, Zenon DEF SetNext, WriteNew
  <2>4. s[1] = conn[c].workspace
    <3>1. s = Slot(c, k)
      BY <1>1, <2>3 DEF EngineSet, Inv, TypeInv
    <3> QED
      BY <3>1 DEF Slot
  <2>5. conn[c].authenticated
    BY <1>1, <2>2 DEF Inv, AuthOK, AllowedNoAuth
  <2>6. mode = "multi" => \E p \in DOMAIN Credentials : s[1] = Credentials[p]
    BY <1>1, <2>4, <2>5 DEF Inv, AuthOK
  <2>7. run'[c] # run[c]
    <3>1. CASE Return(c)
      BY <1>1, <2>2, <3>1, ReturnType DEF Inv
    <3>2. CASE run' = [run EXCEPT ![c].i = @ + 1]
      BY <1>1, <3>2 DEF Inv, TypeInv, RunStates
    <3> QED
      BY <2>1, <3>1, <3>2 DEF SetNext, WriteNew
  <2> QED
    BY <2>4, <2>5, <2>6, <2>7
<1>2. Inv /\ [Next]_vars =>
        [Required => \A s \in Slots : version'[s] # version[s] =>
           \E c \in Conns :
             /\ run'[c] # run[c]
             /\ conn[c].authenticated
             /\ s[1] = conn[c].workspace
             /\ mode = "multi" => \E p \in DOMAIN Credentials : s[1] = Credentials[p]]_version
  BY <1>1
<1> QED
  BY <1>2, Invariance, PTL DEF Spec, WritesAuthorised

-----------------------------------------------------------------------------
(* WATCH.  A connection's watch list holds, for each key, a version the    *)
(* key had in the workspace EXEC will look it up in; while EXEC compares,  *)
(* a key that had changed when it started is still to be compared.  The    *)
(* first part needs the workspace to stay: with passwords for several      *)
(* workspaces, AUTH between WATCH and EXEC moves the connection (see the   *)
(* hazard at handlers_tx.go:83), so the result is for servers where all    *)
(* passwords, if there are any, open one workspace.                        *)
OneWorkspace == \A p, q \in DOMAIN Credentials : Credentials[p] = Credentials[q]

WatchOK(c) ==
  /\ DOMAIN hist.watchedIn[c] = DOMAIN conn[c].watched
  /\ \A k \in DOMAIN conn[c].watched :
       /\ hist.watchedIn[c][k] = <<Slot(c, k), conn[c].watched[k]>>
       /\ conn[c].watched[k] <= version[Slot(c, k)]
  /\ run[c].pc = "check" =>
       /\ run[c].left \subseteq DOMAIN run[c].watched
       /\ hist.doomed[c] => \E k \in run[c].left : run[c].watched[k] < version[Slot(c, k)]
  /\ run[c].pc \in {"lock", "body"} => ~hist.doomed[c]

VersionsGrow == \A s \in Slots : version'[s] >= version[s]

OthersSame(c) ==
  \A d \in Conns \ {c} :
    /\ conn'[d] = conn[d] /\ run'[d] = run[d]
    /\ hist'.watchedIn[d] = hist.watchedIn[d] /\ (hist'.doomed[d] <=> hist.doomed[d])

LEMMA WatchTypes ==
  ASSUME TypeInv, NEW c \in Conns
  PROVE  /\ \A k \in DOMAIN conn[c].watched : k \in Keys /\ conn[c].watched[k] \in Nat
         /\ \A k \in DOMAIN run[c].watched : k \in Keys /\ run[c].watched[k] \in Nat
         /\ \A k \in Keys : Slot(c, k) \in Slots /\ version[Slot(c, k)] \in Nat
<1>1. conn[c] \in ClientStates /\ run[c] \in RunStates /\ version \in [Slots -> Nat]
  BY DEF TypeInv
<1>2. \A m \in WatchMaps : \A k \in DOMAIN m : k \in Keys /\ m[k] \in Nat
  BY DEF WatchMaps
<1>3. \A k \in Keys : Slot(c, k) \in Slots
  BY <1>1 DEF Slot, Slots, ClientStates
<1> QED
  BY <1>1, <1>2, <1>3 DEF ClientStates, RunStates

(* The watch list, what is left to compare and the verdict do not change:  *)
(* versions only grow.                                                     *)
LEMMA WatchKept ==
  ASSUME TypeInv, TypeInv', NEW c \in Conns, WatchOK(c), VersionsGrow,
         conn'[c].watched = conn[c].watched, conn'[c].workspace = conn[c].workspace,
         hist'.watchedIn[c] = hist.watchedIn[c], hist'.doomed[c] <=> hist.doomed[c],
         \/ run'[c].pc \in {"idle", "call"}
         \/ run'[c].pc \in {"lock", "body"} /\ run[c].pc \in {"lock", "body"}
         \/ run'[c] = run[c]
  PROVE  WatchOK(c)'
<1>1. \A k : Slot(c, k)' = Slot(c, k)
  BY DEF Slot
<1>2. \A k \in Keys : /\ version[Slot(c, k)] \in Nat /\ version'[Slot(c, k)] \in Nat
                      /\ version'[Slot(c, k)] >= version[Slot(c, k)]
  BY <1>1, WatchTypes DEF VersionsGrow, TypeInv
<1>3. \A k \in DOMAIN conn'[c].watched : /\ hist'.watchedIn[c][k] = <<Slot(c, k)', conn'[c].watched[k]>>
                                         /\ conn'[c].watched[k] <= version'[Slot(c, k)']
  BY <1>1, <1>2, WatchTypes DEF WatchOK
<1>4. run'[c].pc = "check" =>
        /\ run'[c].left \subseteq DOMAIN run'[c].watched
        /\ hist'.doomed[c] => \E k \in run'[c].left : run'[c].watched[k] < version'[Slot(c, k)']
  <2> SUFFICES ASSUME run'[c].pc = "check"
               PROVE  /\ run'[c].left \subseteq DOMAIN run'[c].watched
                      /\ hist'.doomed[c] =>
                           \E k \in run'[c].left : run'[c].watched[k] < version'[Slot(c, k)']
    OBVIOUS
  <2>1. run'[c] = run[c]
    OBVIOUS
  <2> QED
    BY <1>1, <1>2, <2>1, WatchTypes DEF WatchOK
<1>5. run'[c].pc \in {"lock", "body"} => ~hist'.doomed[c]
  BY DEF WatchOK
<1> QED
  BY <1>3, <1>4, <1>5 DEF WatchOK

LEMMA WatchFrame ==
  ASSUME TypeInv, TypeInv', \A d \in Conns : WatchOK(d), NEW c \in Conns,
         OthersSame(c), VersionsGrow, WatchOK(c)'
  PROVE  \A d \in Conns : WatchOK(d)'
<1>1. ASSUME NEW d \in Conns \ {c}  PROVE WatchOK(d)'
  BY WatchKept DEF OthersSame
<1> QED
  BY <1>1

(* Steps that do not concern what c watches. *)
LEMMA WatchReceive ==
  ASSUME Inv, Inv', \A d \in Conns : WatchOK(d), NEW c \in Conns, NEW cmd \in Requests[mode], Receive(c, cmd)
  PROVE  \A d \in Conns : WatchOK(d)'
<1>1. Arrives(c, cmd) /\ TypeInv /\ TypeInv' /\ conn \in [Conns -> ClientStates] /\ run \in [Conns -> RunStates]
  BY DEF Receive, RejectUnknown, RejectNoAuth, Queue, QueueReject, RejectArity, Start, Inv, TypeInv
<1>2. VersionsGrow
  BY <1>1, ArrivesFacts DEF VersionsGrow, TypeInv
<1>3. /\ conn'[c].watched = conn[c].watched /\ conn'[c].workspace = conn[c].workspace
      /\ \A d \in Conns \ {c} : conn'[d] = conn[d]
  BY <1>1 DEF Receive, RejectUnknown, RejectNoAuth, Queue, QueueReject, RejectArity, Start, ClientStates
<1>4. run'[c].pc \in {"idle", "call"} /\ \A d \in Conns \ {c} : run'[d] = run[d]
  <2>1. run[c].pc = "idle"
    BY <1>1, ArrivesFacts
  <2>2. CASE run' = run
    BY <2>1, <2>2
  <2>3. CASE run' = [run EXCEPT ![c] = [Reading EXCEPT !.pc = "call", !.todo = <<cmd>>]]
    BY <1>1, <2>3 DEF Reading
  <2> QED
    BY <2>2, <2>3 DEF Receive, RejectUnknown, RejectNoAuth, Queue, QueueReject, RejectArity, Start
<1>5. hist'.watchedIn = hist.watchedIn /\ hist'.doomed = hist.doomed
  BY <1>1, ArrivesFacts
<1>6. WatchOK(c)'
  BY <1>1, <1>2, <1>3, <1>4, <1>5, WatchKept
<1> QED
  BY <1>1, <1>2, <1>3, <1>4, <1>5, <1>6, WatchFrame DEF OthersSame

LEMMA WatchPlain ==
  ASSUME Inv, Inv', \A d \in Conns : WatchOK(d), NEW c \in Conns,
         Read(c) \/ SetNext(c) \/ ReadOld(c) \/ WriteNew(c) \/ Quit(c) \/ Multi(c)
  PROVE  \A d \in Conns : WatchOK(d)'
<1>1. /\ TypeInv /\ TypeInv' /\ conn \in [Conns -> ClientStates] /\ run \in [Conns -> RunStates]
      /\ hist \in Histories
  BY DEF Inv, TypeInv
<1>2. run[c].pc \in {"call", "body"} /\ run[c].todo # <<>>
  BY DEF Read, SetNext, ReadOld, WriteNew, Quit, Multi, Runs
<1>3. VersionsGrow
  <2>1. CASE version' = version
    BY <1>1, <2>1 DEF VersionsGrow, TypeInv
  <2>2. CASE SetNext(c) \/ WriteNew(c)
    <3>1. PICK s, v : EngineSet(s, v)
      BY <2>2, Zenon DEF SetNext, WriteNew
    <3>2. version' = [version EXCEPT ![s] = version[s] + 1] /\ version \in [Slots -> Nat]
      BY <1>1, <3>1 DEF EngineSet, TypeInv
    <3> QED
      BY <3>2 DEF VersionsGrow
  <2> QED
    BY <2>1, <2>2 DEF Read, ReadOld, Quit, Multi
<1>4. /\ conn'[c].watched = conn[c].watched /\ conn'[c].workspace = conn[c].workspace
      /\ \A d \in Conns \ {c} : conn'[d] = conn[d]
  <2>1. CASE conn' = conn
    BY <2>1
  <2>2. CASE Quit(c)
    BY <1>1, <2>2 DEF Quit, ClientStates
  <2>3. CASE Multi(c)
    BY <1>1, <2>3 DEF Multi, ClientStates
  <2> QED
    BY <2>1, <2>2, <2>3 DEF Read, SetNext, ReadOld, WriteNew
<1>5. /\ run'[c].pc \in {"idle", "call"} \/ (run'[c].pc = "body" /\ run[c].pc = "body")
      /\ \A d \in Conns \ {c} : run'[d] = run[d]
  <2>1. CASE Return(c)
    BY <1>1, <1>2, <2>1, ReturnType, ReadingType
  <2>2. CASE \E i, v : run' = [run EXCEPT ![c].i = i] \/ run' = [run EXCEPT ![c].i = i, ![c].read = v]
    BY <1>1, <1>2, <2>2 DEF RunStates
  <2> QED
    BY <2>1, <2>2, Zenon DEF Read, SetNext, ReadOld, WriteNew, Quit, Multi
<1>6. hist'.watchedIn = hist.watchedIn /\ hist'.doomed = hist.doomed
  <2>1. CASE hist' = hist
    BY <2>1
  <2>2. CASE SetNext(c)
    BY <1>1, <2>2 DEF SetNext, Histories
  <2>3. CASE WriteNew(c)
    BY <1>1, <2>3 DEF WriteNew, Histories
  <2>4. CASE Multi(c)
    BY <1>1, <2>4 DEF Multi, Histories
  <2> QED
    BY <2>1, <2>2, <2>3, <2>4 DEF Read, ReadOld, Quit
<1>7. WatchOK(c)'
  BY <1>1, <1>3, <1>4, <1>5, <1>6, WatchKept
<1> QED
  BY <1>1, <1>3, <1>4, <1>5, <1>6, <1>7, WatchFrame DEF OthersSame

(* AUTH: a connection that watches something was authenticated already.    *)
LEMMA WatchAuthenticate ==
  ASSUME OneWorkspace, Inv, Inv', \A d \in Conns : WatchOK(d), NEW c \in Conns, Authenticate(c)
  PROVE  \A d \in Conns : WatchOK(d)'
<1>1. /\ TypeInv /\ TypeInv' /\ conn \in [Conns -> ClientStates] /\ run \in [Conns -> RunStates]
      /\ AuthOK(c)
  BY DEF Inv, TypeInv
<1>2. /\ run[c].pc \in {"call", "body"} /\ run[c].todo # <<>> /\ Return(c)
      /\ UNCHANGED <<version, hist>>
  BY DEF Authenticate, Runs
<1>3. VersionsGrow
  BY <1>1, <1>2 DEF VersionsGrow, TypeInv
<1>4. /\ conn'[c].watched = conn[c].watched
      /\ \A d \in Conns \ {c} : conn'[d] = conn[d]
  BY <1>1 DEF Authenticate, ClientStates
<1>5. /\ run'[c].pc \in {"idle", "call"} \/ (run'[c].pc = "body" /\ run[c].pc = "body")
      /\ \A d \in Conns \ {c} : run'[d] = run[d]
  BY <1>1, <1>2, ReturnType, ReadingType
<1>6. conn'[c].workspace = conn[c].workspace \/ DOMAIN conn[c].watched = {}
  <2>1. CASE conn' = conn \/ mode # "multi"
    BY <1>1, <2>1 DEF Authenticate, ClientStates
  <2>2. CASE conn' # conn /\ mode = "multi" /\ conn[c].authenticated
    <3>1. This(c).arg \in DOMAIN Credentials /\ conn'[c].workspace = Credentials[This(c).arg]
      BY <1>1, <2>2 DEF Authenticate, Check, ClientStates
    <3>2. PICK p \in DOMAIN Credentials : conn[c].workspace = Credentials[p]
      BY <1>1, <2>2 DEF AuthOK
    <3> QED
      BY <3>1, <3>2 DEF OneWorkspace
  <2>3. CASE mode = "multi" /\ ~conn[c].authenticated
    BY <1>1, <2>3 DEF AuthOK, Required
  <2> QED
    BY <2>1, <2>2, <2>3
<1>7. WatchOK(c)'
  <2>1. CASE conn'[c].workspace = conn[c].workspace
    BY <1>1, <1>2, <1>3, <1>4, <1>5, <2>1, WatchKept
  <2>2. CASE DOMAIN conn[c].watched = {}
    <3>1. DOMAIN hist'.watchedIn[c] = {} /\ DOMAIN conn'[c].watched = {}
      BY <1>2, <1>4, <2>2 DEF WatchOK
    <3>2. run'[c].pc \in {"lock", "body"} => ~hist'.doomed[c]
      BY <1>2, <1>5 DEF WatchOK
    <3> QED
      BY <1>5, <3>1, <3>2 DEF WatchOK
  <2> QED
    BY <1>6, <2>1, <2>2
<1> QED
  BY <1>1, <1>2, <1>3, <1>4, <1>5, <1>7, WatchFrame DEF OthersSame

(* WATCH, and what empties the watch list. *)
LEMMA WatchAdd ==
  ASSUME Inv, Inv', \A d \in Conns : WatchOK(d), NEW c \in Conns, WatchNext(c)
  PROVE  \A d \in Conns : WatchOK(d)'
<1> DEFINE k == This(c).keys[run[c].i]
           s == Slot(c, k)
           m == MapPut(conn[c].watched, k, version[s])
           w == MapPut(hist.watchedIn[c], k, <<s, version[s]>>)
<1>1. /\ TypeInv /\ TypeInv' /\ conn \in [Conns -> ClientStates] /\ run \in [Conns -> RunStates]
      /\ hist \in Histories
  BY DEF Inv, TypeInv
<1>2. /\ run[c].pc = "call" /\ run[c].todo # <<>>
      /\ k \in Keys /\ s \in Slots /\ m \in WatchMaps /\ w \in WatchLogs
  BY WatchNextFacts
<1>3. version' = version
  BY DEF WatchNext
<1>4. VersionsGrow
  BY <1>1, <1>3 DEF VersionsGrow, TypeInv
<1>5. run'[c].pc \in {"idle", "call"} /\ \A d \in Conns \ {c} : run'[d] = run[d]
  <2>1. CASE Return(c)
    BY <1>1, <1>2, <2>1, ReturnType, ReadingType
  <2>2. CASE run' = [run EXCEPT ![c].i = @ + 1]
    BY <1>1, <1>2, <2>2 DEF RunStates
  <2> QED
    BY <2>1, <2>2 DEF WatchNext
<1>6. CASE conn' = conn /\ hist' = hist
  <2>1. WatchOK(c)'
    BY <1>1, <1>4, <1>5, <1>6, WatchKept
  <2> QED
    BY <1>1, <1>4, <1>5, <1>6, <2>1, WatchFrame DEF OthersSame
<1>7. CASE conn' = [conn EXCEPT ![c].watched = m] /\ hist' = [hist EXCEPT !.watchedIn[c] = w]
  <2>1. /\ conn'[c].watched = m /\ conn'[c].workspace = conn[c].workspace
        /\ \A d \in Conns \ {c} : conn'[d] = conn[d]
    <3> HIDE DEF m, w
    <3> QED
      BY <1>1, <1>7 DEF ClientStates
  <2>2. /\ hist'.watchedIn[c] = w /\ hist'.doomed = hist.doomed
        /\ \A d \in Conns \ {c} : hist'.watchedIn[d] = hist.watchedIn[d]
    <3> HIDE DEF m, w
    <3> QED
      BY <1>1, <1>7 DEF Histories
  <2>3. DOMAIN w = DOMAIN m
    BY DEF MapPut, WatchOK
  <2>4. ASSUME NEW x \in DOMAIN m
        PROVE  w[x] = <<Slot(c, x), m[x]>> /\ m[x] <= version[Slot(c, x)]
    <3>1. CASE x = k
      <4>1. m[x] = version[s] /\ w[x] = <<s, version[s]>> /\ version[s] \in Nat
        BY <1>1, <1>2, <3>1 DEF MapPut, TypeInv
      <4>2. s = Slot(c, x)
        BY <3>1
      <4> HIDE DEF k, s, m, w
      <4>3. version[s] <= version[s]
        BY <4>1
      <4>4. w[x] = <<Slot(c, x), m[x]>>
        BY <4>1, <4>2
      <4>5. m[x] <= version[Slot(c, x)]
        BY <4>1, <4>2, <4>3
      <4> QED
        BY <4>4, <4>5
    <3>2. CASE x # k
      <4>1. x \in DOMAIN conn[c].watched /\ x \in DOMAIN hist.watchedIn[c]
        BY <3>2 DEF MapPut, WatchOK
      <4>2. m[x] = conn[c].watched[x] /\ w[x] = hist.watchedIn[c][x]
        BY <3>2, <4>1 DEF MapPut
      <4> QED
        BY <4>1, <4>2 DEF WatchOK
    <3> QED
      BY <3>1, <3>2
  <2>5. \A x : Slot(c, x)' = Slot(c, x)
    BY <2>1 DEF Slot
  <2> HIDE DEF m, w
  <2>6. WatchOK(c)'
    BY <1>3, <1>5, <2>1, <2>2, <2>3, <2>4, <2>5 DEF WatchOK
  <2> QED
    BY <1>1, <1>4, <1>5, <2>1, <2>2, <2>6, WatchFrame DEF OthersSame
<1> QED
  BY <1>6, <1>7 DEF WatchNext

LEMMA WatchDrop ==
  ASSUME Inv, Inv', \A d \in Conns : WatchOK(d), NEW c \in Conns,
         Discard(c) \/ Unwatch(c) \/ (ExecBegin(c) /\ (~conn[c].inMulti \/ conn[c].multiError))
  PROVE  \A d \in Conns : WatchOK(d)'
<1>1. /\ TypeInv /\ TypeInv' /\ conn \in [Conns -> ClientStates] /\ run \in [Conns -> RunStates]
      /\ hist \in Histories
  BY DEF Inv, TypeInv
<1>2. run[c].pc = "call" /\ run[c].todo # <<>> /\ Return(c) /\ version' = version
  BY ControlCalls DEF Discard, Unwatch, ExecBegin, Runs, NoQueue
<1>3. VersionsGrow
  BY <1>1, <1>2 DEF VersionsGrow, TypeInv
<1>4. run'[c].pc = "idle" /\ \A d \in Conns \ {c} : run'[d] = run[d]
  BY <1>1, <1>2, ReturnType, ReadingType
<1>5. CASE conn' = conn /\ hist' = hist
  <2>1. WatchOK(c)'
    BY <1>1, <1>3, <1>4, <1>5, WatchKept
  <2> QED
    BY <1>1, <1>3, <1>4, <1>5, <2>1, WatchFrame DEF OthersSame
<1>6. ASSUME conn'[c].watched = Empty, hist'.watchedIn[c] = Empty, OthersSame(c)
      PROVE  \A d \in Conns : WatchOK(d)'
  <2>1. WatchOK(c)'
    BY <1>4, <1>6, EmptyTypes DEF WatchOK
  <2> QED
    BY <1>1, <1>3, <1>6, <2>1, WatchFrame
<1>7. CASE conn' = OutOfMulti(c) /\ hist' = Forget(c)
  <2>1. conn'[c].watched = Empty /\ hist'.watchedIn[c] = Empty
    BY <1>1, <1>7, OutOfMultiType, ForgetType
  <2>2. OthersSame(c)
    <3> SUFFICES ASSUME NEW d \in Conns \ {c}
                 PROVE  /\ conn'[d] = conn[d] /\ run'[d] = run[d]
                        /\ hist'.watchedIn[d] = hist.watchedIn[d] /\ hist'.doomed[d] = hist.doomed[d]
      BY DEF OthersSame
    <3>1. conn'[d] = conn[d]
      BY <1>1, <1>7, OutOfMultiType
    <3>2. hist'.watchedIn[d] = hist.watchedIn[d] /\ hist'.doomed[d] = hist.doomed[d]
      BY <1>1, <1>7, ForgetType, ZenonT(40)
    <3> QED
      BY <1>4, <3>1, <3>2
  <2> QED
    BY <1>6, <2>1, <2>2
<1>8. CASE Unwatch(c)
  <2>1. /\ conn'[c].watched = Empty
        /\ \A d \in Conns \ {c} : conn'[d] = conn[d]
    BY <1>1, <1>8 DEF Unwatch, ClientStates
  <2>2. /\ hist'.watchedIn[c] = Empty /\ hist'.doomed = hist.doomed
        /\ \A d \in Conns \ {c} : hist'.watchedIn[d] = hist.watchedIn[d]
    BY <1>1, <1>8 DEF Unwatch, Histories
  <2> QED
    BY <1>4, <1>6, <2>1, <2>2 DEF OthersSame
<1> QED
  BY <1>5, <1>7, <1>8 DEF Discard, ExecBegin

(* EXEC: a change before EXEC shows in a comparison still to be made. *)
LEMMA WatchExec ==
  ASSUME Inv, Inv', \A d \in Conns : WatchOK(d), NEW c \in Conns,
         ExecBegin(c), conn[c].inMulti, ~conn[c].multiError
  PROVE  \A d \in Conns : WatchOK(d)'
<1>1. TypeInv /\ TypeInv' /\ conn \in [Conns -> ClientStates] /\ hist \in Histories
  BY DEF Inv, TypeInv
<1>2. version' = version /\ VersionsGrow
  BY <1>1 DEF VersionsGrow, TypeInv, ExecBegin
<1>3. /\ conn' = OutOfMulti(c)
      /\ \A d \in Conns \ {c} : run'[d] = run[d]
      /\ run'[c].pc = "check"
      /\ run'[c].left = DOMAIN conn[c].watched /\ run'[c].watched = conn[c].watched
      /\ hist'.doomed[c] <=> Changed(hist.watchedIn[c])
      /\ hist'.watchedIn[c] = Empty
      /\ \A d \in Conns \ {c} : /\ hist'.watchedIn[d] = hist.watchedIn[d]
                                /\ hist'.doomed[d] = hist.doomed[d]
  BY ExecTakesFacts
<1>4. /\ conn'[c].watched = Empty /\ conn'[c].workspace = conn[c].workspace
      /\ \A d \in Conns \ {c} : conn'[d] = conn[d]
  BY <1>1, <1>3, OutOfMultiType
<1>5. Changed(hist.watchedIn[c]) =>
        \E k \in DOMAIN conn[c].watched : conn[c].watched[k] < version[Slot(c, k)]
  <2> SUFFICES ASSUME NEW k \in DOMAIN hist.watchedIn[c],
                      version[hist.watchedIn[c][k][1]] # hist.watchedIn[c][k][2]
               PROVE  \E x \in DOMAIN conn[c].watched : conn[c].watched[x] < version[Slot(c, x)]
    BY DEF Changed
  <2>1. /\ k \in DOMAIN conn[c].watched
        /\ hist.watchedIn[c][k] = <<Slot(c, k), conn[c].watched[k]>>
        /\ conn[c].watched[k] <= version[Slot(c, k)]
    BY DEF WatchOK
  <2>2. version[Slot(c, k)] # conn[c].watched[k]
    BY <2>1
  <2>3. conn[c].watched[k] \in Nat /\ version[Slot(c, k)] \in Nat
    BY <1>1, <2>1, WatchTypes
  <2> QED
    BY <2>1, <2>2, <2>3
<1>6. \A k : Slot(c, k)' = Slot(c, k)
  BY <1>4 DEF Slot
<1>7. WatchOK(c)'
  BY <1>2, <1>3, <1>4, <1>5, <1>6, EmptyTypes DEF WatchOK
<1> QED
  BY <1>1, <1>2, <1>3, <1>4, <1>7, WatchFrame DEF OthersSame

LEMMA WatchCheck ==
  ASSUME Inv, Inv', \A d \in Conns : WatchOK(d), NEW c \in Conns,
         ExecCheck(c) \/ ExecChecked(c) \/ ExecLock(c) \/ ExecUnlock(c)
  PROVE  \A d \in Conns : WatchOK(d)'
<1>1. /\ TypeInv /\ TypeInv' /\ run \in [Conns -> RunStates] /\ hist \in Histories
      /\ WatchOK(c) /\ BlockOK(c)
  BY DEF Inv, TypeInv
<1>2. UNCHANGED <<conn, version>> /\ run[c].pc \in {"check", "lock", "body"}
  BY DEF ExecCheck, ExecChecked, ExecLock, ExecUnlock
<1>3. VersionsGrow
  BY <1>1, <1>2 DEF VersionsGrow, TypeInv
<1>4. \A k : Slot(c, k)' = Slot(c, k)
  BY <1>2 DEF Slot
<1>5. DOMAIN conn'[c].watched = {}
  BY <1>1, <1>2 DEF BlockOK
<1>6. CASE run' = [run EXCEPT ![c] = Reading] /\ hist' = Forget(c)
  <2>1. run'[c].pc = "idle" /\ \A d \in Conns \ {c} : run'[d] = run[d]
    BY <1>1, <1>6, ReadingType
  <2>2. hist'.watchedIn[c] = Empty /\ OthersSame(c)
    BY <1>1, <1>2, <1>6, <2>1, ForgetType, ZenonT(40) DEF OthersSame
  <2>3. WatchOK(c)'
    BY <1>5, <2>1, <2>2, EmptyTypes DEF WatchOK
  <2> QED
    BY <1>1, <1>3, <2>2, <2>3, WatchFrame
<1>7. CASE ExecChecked(c)
  <2>1. /\ run'[c].pc = "lock" /\ run[c].left = {} /\ run[c].pc = "check" /\ hist' = hist
        /\ \A d \in Conns \ {c} : run'[d] = run[d]
    BY <1>1, <1>7 DEF ExecChecked, RunStates
  <2>2. ~hist.doomed[c]
    BY <1>1, <2>1 DEF WatchOK
  <2>3. WatchOK(c)'
    BY <1>1, <1>2, <1>4, <2>1, <2>2 DEF WatchOK
  <2> QED
    BY <1>1, <1>2, <1>3, <2>1, <2>3, WatchFrame DEF OthersSame
<1>8. CASE ExecLock(c)
  <2>1. /\ run'[c].pc = "body" /\ run[c].pc = "lock" /\ hist' = hist
        /\ \A d \in Conns \ {c} : run'[d] = run[d]
    BY <1>1, <1>8 DEF ExecLock, RunStates
  <2>2. WatchOK(c)'
    BY <1>1, <1>2, <1>3, <2>1, WatchKept
  <2> QED
    BY <1>1, <1>2, <1>3, <2>1, <2>2, WatchFrame DEF OthersSame
<1>9. ASSUME NEW k \in run[c].left, run[c].pc = "check", version[Slot(c, k)] = run[c].watched[k],
             run' = [run EXCEPT ![c].left = @ \ {k}], hist' = hist
      PROVE  \A d \in Conns : WatchOK(d)'
  <2>1. /\ run'[c].pc = "check" /\ run'[c].left = run[c].left \ {k} /\ run'[c].watched = run[c].watched
        /\ \A d \in Conns \ {c} : run'[d] = run[d]
    BY <1>1, <1>9 DEF RunStates
  <2>2. run[c].left \subseteq DOMAIN run[c].watched
    BY <1>1, <1>9 DEF WatchOK
  <2>3. hist.doomed[c] => \E x \in run[c].left \ {k} : run[c].watched[x] < version[Slot(c, x)]
    <3> SUFFICES ASSUME hist.doomed[c]
                 PROVE  \E x \in run[c].left \ {k} : run[c].watched[x] < version[Slot(c, x)]
      OBVIOUS
    <3>1. PICK x \in run[c].left : run[c].watched[x] < version[Slot(c, x)]
      BY <1>1, <1>9 DEF WatchOK
    <3>2. x # k
      BY <1>1, <1>9, <2>2, <3>1, WatchTypes
    <3> QED
      BY <3>1, <3>2
  <2>4. WatchOK(c)'
    BY <1>1, <1>2, <1>4, <1>9, <2>1, <2>2, <2>3 DEF WatchOK
  <2> QED
    BY <1>1, <1>2, <1>3, <1>9, <2>1, <2>4, WatchFrame DEF OthersSame
<1>10. CASE ExecCheck(c)
  BY <1>6, <1>9, <1>10 DEF ExecCheck
<1> QED
  BY <1>6, <1>7, <1>8, <1>10 DEF ExecUnlock

(* Where passwords open one workspace, a transaction does not run if a     *)
(* watched key had changed when EXEC took it over (handleExec's            *)
(* comparisons).  A change during the comparisons is another matter.       *)
THEOREM EarlierChangesSeen ==
  ASSUME OneWorkspace
  PROVE  Spec => []ExecSeesEarlierChanges
<1> DEFINE WatchInv == Inv /\ \A c \in Conns : WatchOK(c)
<1>1. Init => WatchInv
  <2> SUFFICES ASSUME Init PROVE WatchInv
    OBVIOUS
  <2>1. \A c \in Conns : WatchOK(c)
    BY EmptyTypes DEF Init, WatchOK, NewClientState, Reading
  <2> QED
    BY <2>1, InitInv
<1>2. WatchInv /\ [Next]_vars => WatchInv'
  <2> SUFFICES ASSUME WatchInv, [Next]_vars PROVE WatchInv'
    OBVIOUS
  <2>1. Inv'
    BY NextInv
  <2>2. ASSUME NEW c \in Conns, NEW cmd \in Requests[mode], Receive(c, cmd)
        PROVE  \A d \in Conns : WatchOK(d)'
    BY <2>1, <2>2, WatchReceive
  <2>3. ASSUME NEW c \in Conns, Serve(c)
        PROVE  \A d \in Conns : WatchOK(d)'
    BY <2>1, <2>3, WatchPlain, WatchAuthenticate, WatchAdd, WatchDrop, WatchExec, WatchCheck DEF Serve
  <2>4. CASE UNCHANGED vars
    <3>1. \A d \in Conns : WatchOK(d)'
      <4> SUFFICES ASSUME NEW d \in Conns PROVE WatchOK(d)'
        OBVIOUS
      <4>1. conn' = conn /\ hist' = hist /\ run' = run /\ version' = version /\ WatchOK(d)
        BY <2>4 DEF vars
      <4>2. \A k : Slot(d, k)' = Slot(d, k)
        BY <4>1 DEF Slot
      <4> QED
        BY <4>1, <4>2 DEF WatchOK
    <3> QED
      BY <2>1, <3>1
  <2>5. CASE Next
    BY <2>1, <2>2, <2>3, <2>4, <2>5 DEF Next, Silent
  <2> QED
    BY <2>4, <2>5
<1>3. WatchInv => ExecSeesEarlierChanges
  BY DEF WatchOK, ExecSeesEarlierChanges
<1> QED
  BY <1>1, <1>2, <1>3, PTL DEF Spec

-----------------------------------------------------------------------------
(* Walks with SCAN.  Where a key stands in the sorted list is how many of  *)
(* the keys come before it.                                                *)

Ascending(S) == {p \in S \X S : p[1] < p[2]}

Pos(k, S) == Cardinality(Above(k, S, Ascending(S)))

(* Sorted lists the keys so that each is at its position. *)
LEMMA SortedRight ==
  ASSUME NEW S, IsFiniteSet(S), S \subseteq Int
  PROVE  /\ Cardinality(S) \in Nat
         /\ Sorted(S) \in [1..Cardinality(S) -> S]
         /\ \A i \in 1..Cardinality(S) : Pos(Sorted(S)[i], S) = i - 1
         /\ \A k \in S : \E i \in 1..Cardinality(S) : Sorted(S)[i] = k
<1> DEFINE z == [k \in S |-> 0]
           R == Ascending(S)
           f == Sorted(S)
<1>1. StrictOrder(S, R)
  BY DEF StrictOrder, Ascending
<1>2. DOMAIN z = S
  OBVIOUS
<1>3. ASSUME NEW x \in S PROVE {y \in DOMAIN z : Before(z, y, x)} = Above(x, S, R)
  BY DEF Before, Above, Ascending
<1>4. f = [i \in 1..Cardinality(S) |->
             CHOOSE x \in DOMAIN z : Cardinality({y \in DOMAIN z : Before(z, y, x)}) = i - 1]
  BY <1>2 DEF Sorted, sortedMembers
<1> HIDE DEF z, f
<1>5. f = [i \in 1..Cardinality(S) |-> f[i]]
  <2> DEFINE g(i) == CHOOSE x \in DOMAIN z : Cardinality({y \in DOMAIN z : Before(z, y, x)}) = i - 1
  <2>1. f = [i \in 1..Cardinality(S) |-> g(i)]
    BY <1>4
  <2> HIDE DEF g
  <2> QED
    BY <2>1
<1>6. ASSUME NEW i \in 1..Cardinality(S),
             \E s \in S : Cardinality(Above(s, S, R)) = i - 1
      PROVE  f[i] \in S /\ Cardinality(Above(f[i], S, R)) = i - 1
  <2>1. PICK s \in S : Cardinality(Above(s, S, R)) = i - 1
    BY <1>6
  <2> DEFINE P(x) == Cardinality({y \in DOMAIN z : Before(z, y, x)}) = i - 1
  <2>2. s \in DOMAIN z /\ P(s)
    BY <1>2, <1>3, <2>1
  <2>3. f[i] = CHOOSE x \in DOMAIN z : P(x)
    BY <1>4
  <2> HIDE DEF P
  <2>4. f[i] \in DOMAIN z /\ P(f[i])
    BY <2>2, <2>3
  <2> QED
    BY <1>2, <1>3, <2>4 DEF P
<1>7. /\ Lists(f, S, R)
      /\ \A i \in 1..Cardinality(S) : Cardinality(Above(f[i], S, R)) = i - 1
  <2> HIDE DEF R
  <2> QED
    BY <1>1, <1>5, <1>6, Sorting
<1> QED
  BY <1>7 DEF Lists, Pos, f

LEMMA PosType ==
  ASSUME NEW S, IsFiniteSet(S), NEW k PROVE Pos(k, S) \in Nat
<1>1. Above(k, S, Ascending(S)) \subseteq S
  BY DEF Above
<1>2. IsFiniteSet(Above(k, S, Ascending(S)))
  BY <1>1, FS_Subset
<1> QED
  BY <1>2, FS_CardinalityType DEF Pos

LEMMA PosBelow ==
  ASSUME NEW S, IsFiniteSet(S), S \subseteq Int, NEW k \in S PROVE Pos(k, S) < Cardinality(S)
<1>1. PICK i \in 1..Cardinality(S) : Sorted(S)[i] = k
  BY SortedRight
<1>2. Pos(k, S) = i - 1 /\ Cardinality(S) \in Nat
  BY <1>1, SortedRight
<1> QED
  BY <1>2

(* A smaller set puts no key later. *)
LEMMA PosMonotone ==
  ASSUME NEW S, NEW T, IsFiniteSet(T), S \subseteq T, NEW k \in S
  PROVE  Pos(k, S) <= Pos(k, T)
<1>1. Above(k, S, Ascending(S)) \subseteq Above(k, T, Ascending(T))
  BY DEF Above, Ascending
<1>2. Above(k, T, Ascending(T)) \subseteq T
  BY DEF Above
<1>3. IsFiniteSet(Above(k, T, Ascending(T)))
  BY <1>2, FS_Subset
<1> QED
  BY <1>1, <1>3, FS_Subset DEF Pos

(* One call of Scan returns the keys from the cursor to `end', and a next  *)
(* cursor of `end', or of zero once no key is left.                        *)
PageTo(S, c, r, end) ==
  /\ {r.page[i] : i \in 1..Len(r.page)} = {k \in S : c <= Pos(k, S) /\ Pos(k, S) < end}
  /\ r.next = 0 => Cardinality(S) <= end
  /\ r.next # 0 => r.next = end /\ c < end

LEMMA PageRight ==
  ASSUME NEW S, IsFiniteSet(S), S \subseteq Int, NEW c \in Nat, NEW n \in Int
  PROVE  \E end \in Nat : PageTo(S, c, ScanPage(Sorted(S), c, n), end)
<1> DEFINE f == Sorted(S)
           m == Cardinality(S)
           d == IF n <= 0 THEN 10 ELSE n
           e == IF c + d > m THEN m ELSE c + d
           r == ScanPage(f, c, n)
<1>1. /\ m \in Nat /\ f \in [1..m -> S]
      /\ \A i \in 1..m : Pos(f[i], S) = i - 1
      /\ \A k \in S : \E i \in 1..m : f[i] = k
  BY SortedRight
<1> HIDE DEF f, m
<1>2. f \in Seq(S) /\ Len(f) = m
  <2>1. f \in Seq(S)
    BY <1>1
  <2> QED
    BY <1>1, <2>1
<1>3. e \in Nat /\ d \in Nat /\ d > 0 /\ (c < m => c < e) /\ e <= m /\ (e < m => e = c + d)
  BY <1>1
<1>4. CASE c >= m
  <2>1. r = [next |-> 0, page |-> <<>>]
    BY <1>2, <1>4 DEF ScanPage
  <2>2. {r.page[i] : i \in 1..Len(r.page)} = {}
    <3>1. Len(r.page) = 0
      BY <2>1
    <3>2. 1..0 = {}
      OBVIOUS
    <3> QED
      BY <3>1, <3>2
  <2>3. ASSUME NEW k \in S PROVE ~(c <= Pos(k, S) /\ Pos(k, S) < m)
    <3>1. PICK i \in 1..m : f[i] = k
      BY <1>1
    <3>2. Pos(k, S) = i - 1
      BY <1>1, <3>1
    <3> QED
      BY <1>1, <1>4, <3>2
  <2>4. {k \in S : c <= Pos(k, S) /\ Pos(k, S) < m} = {}
    BY <2>3
  <2>5. r.next = 0 /\ m <= m
    BY <1>1, <2>1
  <2> HIDE DEF r
  <2>6. PageTo(S, c, r, m)
    BY <2>2, <2>4, <2>5 DEF PageTo, m
  <2> QED
    BY <1>1, <2>6 DEF f, r
<1>5. CASE c < m
  <2>1. r = [next |-> IF e >= m THEN 0 ELSE e, page |-> SubSeq(f, c + 1, e)]
    BY <1>1, <1>2, <1>5 DEF ScanPage
  <2> DEFINE p == SubSeq(f, c + 1, e)
  <2> HIDE DEF e
  <2>2. p = [i \in 1..(e - c) |-> f[c + i]] /\ Len(p) = e - c
    <3>1. c + 1 \in 1..(Len(f) + 1) /\ e \in c..Len(f)
      BY <1>1, <1>2, <1>3, <1>5
    <3>2. Len(p) = e - c /\ p \in Seq(S)
      BY <1>1, <1>2, <1>3, <1>5, SubSeqProperties
    <3>3. \A i \in 1..(e - c) : p[i] = f[c + i]
      BY <1>1, <1>2, <1>3, <1>5, SubSeqProperties
    <3> HIDE DEF p
    <3> QED
      BY <1>1, <1>2, <1>3, <3>2, <3>3
  <2> HIDE DEF p
  <2>3. ASSUME NEW k \in S, c <= Pos(k, S), Pos(k, S) < e
        PROVE  \E i \in 1..Len(p) : p[i] = k
    <3>1. PICK j \in 1..m : f[j] = k
      BY <1>1
    <3>2. Pos(k, S) = j - 1
      BY <1>1, <3>1
    <3>3. j - c \in 1..(e - c) /\ c + (j - c) = j
      BY <1>1, <1>3, <2>3, <3>2
    <3> QED
      BY <2>2, <3>1, <3>3
  <2>4. ASSUME NEW i \in 1..Len(p)
        PROVE  p[i] \in S /\ c <= Pos(p[i], S) /\ Pos(p[i], S) < e
    <3>1. i \in 1..(e - c)
      BY <2>2
    <3>2. c + i \in 1..m
      BY <1>1, <1>3, <3>1
    <3>3. p[i] = f[c + i] /\ Pos(f[c + i], S) = c + i - 1
      BY <1>1, <2>2, <3>1, <3>2
    <3> QED
      BY <1>1, <1>3, <3>1, <3>2, <3>3
  <2>5. {p[i] : i \in 1..Len(p)} = {k \in S : c <= Pos(k, S) /\ Pos(k, S) < e}
    BY <2>3, <2>4
  <2>6. r.page = p /\ r.next = IF e >= m THEN 0 ELSE e
    <3>1. r = [next |-> IF e >= m THEN 0 ELSE e, page |-> p]
      BY <2>1 DEF p
    <3> HIDE DEF r
    <3> QED
      BY <3>1
  <2> HIDE DEF r
  <2>7. PageTo(S, c, r, e)
    BY <1>1, <1>3, <2>5, <2>6 DEF PageTo, m
  <2> QED
    BY <1>3, <2>7 DEF f, r
<1> QED
  BY <1>1, <1>4, <1>5

(* What holds between two calls of a walk: as long as nothing was deleted, *)
(* the steady keys before the cursor have been returned; as long as        *)
(* nothing was added, those at the cursor or after it have not.            *)
WalkInv ==
  /\ live \subseteq ScanKeys /\ steady \subseteq live
  /\ cursor \in Nat /\ count \in Counts
  /\ returned \in [ScanKeys -> Nat]
  /\ walk \in {"none", "going", "over"}
  /\ added \in BOOLEAN /\ deleted \in BOOLEAN
  /\ walk = "none" => cursor = 0 /\ \A k \in ScanKeys : returned[k] = 0
  /\ walk = "going" /\ ~deleted => \A k \in steady : Pos(k, live) < cursor => returned[k] > 0
  /\ walk = "going" /\ ~added => \A k \in live : returned[k] > 0 => Pos(k, live) < cursor

LEMMA WalkStart == ScanInit => WalkInv /\ ScanSteady
<1> SUFFICES ASSUME ScanInit PROVE WalkInv /\ ScanSteady
  OBVIOUS
<1>1. /\ live \subseteq ScanKeys /\ count \in Counts /\ cursor = 0 /\ walk = "none" /\ steady = {}
      /\ returned = [k \in ScanKeys |-> 0] /\ added = FALSE /\ deleted = FALSE
  BY DEF ScanInit
<1>2. returned \in [ScanKeys -> Nat] /\ \A k \in ScanKeys : returned[k] = 0
  BY <1>1
<1>3. WalkInv
  <2>1. added \in BOOLEAN /\ deleted \in BOOLEAN
    BY <1>1, Zenon
  <2>2. cursor \in Nat /\ steady \subseteq live
    BY <1>1
  <2>3. walk # "going"
    BY <1>1
  <2> QED
    BY <1>1, <1>2, <2>1, <2>2, <2>3, Zenon DEF WalkInv
<1>4. \A k \in ScanKeys : returned[k] <= 1
  BY <1>2
<1>5. walk # "over"
  BY <1>1
<1> QED
  BY <1>3, <1>4, <1>5, Zenon DEF ScanSteady

LEMMA ScanCallStep ==
  ASSUME WalkInv, ScanSteady, ScanCall PROVE WalkInv' /\ ScanSteady'
<1>1. /\ live' = live /\ count' = count /\ added' = added /\ deleted' = deleted
      /\ walk \in {"none", "going"}
      /\ steady' = IF walk = "none" THEN live ELSE steady
  BY DEF ScanCall, WalkInv
<1> DEFINE r == ScanPage(Sorted(live), cursor, count)
           page == {r.page[i] : i \in 1..Len(r.page)}
<1>2. /\ returned' = [k \in ScanKeys |-> IF k \in page THEN returned[k] + 1 ELSE returned[k]]
      /\ cursor' = r.next
      /\ walk' = IF r.next = 0 THEN "over" ELSE "going"
  BY DEF ScanCall
<1>3. IsFiniteSet(live) /\ live \subseteq Int
  <2>1. live \subseteq ScanKeys
    BY DEF WalkInv
  <2>2. IsFiniteSet(live)
    BY <2>1, ScanAssumption, FS_Subset
  <2> QED
    BY <2>1, <2>2, ScanAssumption
<1>4. PICK end \in Nat : PageTo(live, cursor, r, end)
  <2>1. cursor \in Nat /\ count \in Int
    BY ScanAssumption DEF WalkInv
  <2> QED
    BY <1>3, <2>1, PageRight
<1> DEFINE next == r.next
<1>5. /\ page = {k \in live : cursor <= Pos(k, live) /\ Pos(k, live) < end}
      /\ next = 0 => Cardinality(live) <= end
      /\ next # 0 => next = end /\ cursor < end
  BY <1>4 DEF PageTo
<1> HIDE DEF r, page, next
<1>6. ASSUME NEW k \in live
      PROVE  /\ Pos(k, live) \in Nat
             /\ next = 0 => Pos(k, live) < end
  <2>1. Pos(k, live) \in Nat /\ Pos(k, live) < Cardinality(live) /\ Cardinality(live) \in Nat
    BY <1>3, PosType, PosBelow, FS_CardinalityType
  <2> QED
    BY <1>5, <2>1
<1>7. /\ live \subseteq ScanKeys /\ steady \subseteq live /\ cursor \in Nat
      /\ returned \in [ScanKeys -> Nat]
  BY DEF WalkInv
<1>8. ASSUME NEW k \in ScanKeys
      PROVE  /\ returned'[k] = IF k \in page THEN returned[k] + 1 ELSE returned[k]
             /\ returned[k] \in Nat
  BY <1>2, <1>7
<1>9. returned' \in [ScanKeys -> Nat]
  BY <1>2, <1>7
<1>10. ASSUME ~deleted, NEW k \in steady', Pos(k, live) < end PROVE returned'[k] > 0
  <2>1. k \in live /\ k \in ScanKeys
    BY <1>1, <1>7, <1>10
  <2>2. CASE cursor <= Pos(k, live)
    BY <1>5, <1>8, <1>10, <2>1, <2>2
  <2>3. CASE Pos(k, live) < cursor
    <3>1. walk = "going" /\ k \in steady
      BY <1>1, <1>6, <1>10, <2>1, <2>3 DEF WalkInv
    <3>2. returned[k] > 0
      BY <1>10, <2>3, <3>1 DEF WalkInv
    <3> QED
      BY <1>8, <2>1, <3>2
  <2> QED
    BY <1>6, <1>7, <2>1, <2>2, <2>3
<1>11. ASSUME ~added, NEW k \in page PROVE returned[k] = 0
  <2>1. k \in live /\ k \in ScanKeys /\ cursor <= Pos(k, live)
    BY <1>5, <1>7, <1>11
  <2>2. CASE walk = "none"
    BY <2>1, <2>2 DEF WalkInv
  <2>3. CASE walk = "going"
    <3>1. ~(returned[k] > 0)
      BY <1>6, <1>7, <1>11, <2>1, <2>3 DEF WalkInv
    <3> QED
      BY <1>8, <2>1, <3>1
  <2> QED
    BY <1>1, <2>2, <2>3
<1>12. ASSUME ~added, NEW k \in ScanKeys PROVE returned'[k] <= 1
  <2>1. returned[k] <= 1
    BY <1>12 DEF ScanSteady
  <2> QED
    BY <1>8, <1>11, <1>12, <2>1
<1>13. ASSUME ~added, NEW k \in live, returned'[k] > 0, next # 0 PROVE Pos(k, live) < end
  <2>1. CASE k \in page
    BY <1>5, <2>1
  <2>2. CASE k \notin page
    <3>1. returned[k] > 0 /\ k \in ScanKeys
      BY <1>7, <1>8, <1>13, <2>2
    <3>2. walk = "going"
      BY <1>1, <1>8, <3>1 DEF WalkInv
    <3>3. Pos(k, live) < cursor
      BY <1>13, <3>1, <3>2 DEF WalkInv
    <3> QED
      BY <1>5, <1>6, <1>7, <1>13, <3>3
  <2> QED
    BY <2>1, <2>2
<1>14. next \in Nat
  BY <1>5
<1>15. walk' = "over" <=> next = 0
  BY <1>2 DEF next
<1>16. WalkInv'
  <2>1. /\ live' \subseteq ScanKeys /\ steady' \subseteq live' /\ cursor' \in Nat
        /\ count' \in Counts /\ added' \in BOOLEAN /\ deleted' \in BOOLEAN
        /\ walk' \in {"going", "over"}
    BY <1>1, <1>2, <1>7, <1>14 DEF WalkInv, next
  <2>2. ASSUME walk' = "going", ~deleted', NEW k \in steady', Pos(k, live') < cursor'
        PROVE  returned'[k] > 0
    <3>1. cursor' = end /\ ~deleted
      BY <1>1, <1>2, <1>5, <1>15, <2>2 DEF next
    <3> QED
      BY <1>1, <1>10, <2>2, <3>1
  <2>3. ASSUME walk' = "going", ~added', NEW k \in live', returned'[k] > 0
        PROVE  Pos(k, live') < cursor'
    <3>1. cursor' = end /\ ~added /\ next # 0
      BY <1>1, <1>2, <1>5, <1>15, <2>3 DEF next
    <3> QED
      BY <1>1, <1>13, <2>3, <3>1
  <2> QED
    BY <1>9, <2>1, <2>2, <2>3 DEF WalkInv
<1>17. ASSUME walk' = "over", ~deleted', NEW k \in steady' PROVE returned'[k] > 0
  <2>1. next = 0 /\ ~deleted /\ k \in live
    BY <1>1, <1>7, <1>15, <1>17
  <2> QED
    BY <1>6, <1>10, <1>17, <2>1
<1>18. ScanSteady'
  BY <1>1, <1>12, <1>17 DEF ScanSteady
<1> QED
  BY <1>16, <1>18

LEMMA KeyAddedStep ==
  ASSUME WalkInv, ScanSteady, KeyAdded PROVE WalkInv' /\ ScanSteady'
<1>1. PICK x \in ScanKeys \ live : live' = live \cup {x}
  BY DEF KeyAdded
<1>2. /\ walk = "going" /\ added' = TRUE
      /\ UNCHANGED <<cursor, count, returned, walk, steady, deleted>>
  BY DEF KeyAdded
<1>3. live \subseteq ScanKeys /\ steady \subseteq live
  BY DEF WalkInv
<1>4. IsFiniteSet(live') /\ IsFiniteSet(live) /\ live' \subseteq ScanKeys
  <2>1. live' \subseteq ScanKeys
    BY <1>1, <1>3
  <2> QED
    BY <1>3, <2>1, ScanAssumption, FS_Subset
<1>5. ASSUME ~deleted, NEW k \in steady, Pos(k, live') < cursor PROVE returned[k] > 0
  <2>1. Pos(k, live) <= Pos(k, live')
    BY <1>1, <1>3, <1>4, PosMonotone
  <2>2. Pos(k, live) \in Nat /\ Pos(k, live') \in Nat /\ cursor \in Nat
    BY <1>4, PosType DEF WalkInv
  <2>3. Pos(k, live) < cursor
    BY <1>5, <2>1, <2>2
  <2> QED
    BY <1>2, <1>5, <2>3 DEF WalkInv
<1>6. WalkInv'
  BY <1>1, <1>2, <1>3, <1>4, <1>5 DEF WalkInv
<1>7. ScanSteady'
  BY <1>2 DEF ScanSteady
<1> QED
  BY <1>6, <1>7

LEMMA KeyDeletedStep ==
  ASSUME WalkInv, ScanSteady, KeyDeleted PROVE WalkInv' /\ ScanSteady'
<1>1. PICK x \in live : live' = live \ {x} /\ steady' = steady \ {x}
  BY DEF KeyDeleted
<1>2. /\ walk = "going" /\ deleted' = TRUE
      /\ UNCHANGED <<cursor, count, returned, walk, added>>
  BY DEF KeyDeleted
<1>3. live \subseteq ScanKeys /\ steady \subseteq live
  BY DEF WalkInv
<1>4. IsFiniteSet(live) /\ IsFiniteSet(live')
  BY <1>1, <1>3, ScanAssumption, FS_Subset
<1>5. ASSUME ~added, NEW k \in live', returned[k] > 0 PROVE Pos(k, live') < cursor
  <2>1. k \in live /\ Pos(k, live') <= Pos(k, live)
    BY <1>1, <1>4, PosMonotone
  <2>2. Pos(k, live) \in Nat /\ Pos(k, live') \in Nat /\ cursor \in Nat
    BY <1>4, PosType DEF WalkInv
  <2>3. Pos(k, live) < cursor
    BY <1>2, <1>5, <2>1 DEF WalkInv
  <2> QED
    BY <2>1, <2>2, <2>3
<1>6. WalkInv'
  BY <1>1, <1>2, <1>3, <1>5 DEF WalkInv
<1>7. ScanSteady'
  BY <1>2 DEF ScanSteady
<1> QED
  BY <1>6, <1>7

(* SCAN, for any number of keys, any COUNT and any number of changes: a    *)
(* walk during which nothing is deleted finds every key that was there     *)
(* throughout, and one during which nothing is added returns none twice.   *)
THEOREM WalksComplete == ScanSpec => []ScanSteady
<1>1. ASSUME WalkInv, ScanSteady, ScanNext PROVE WalkInv' /\ ScanSteady'
  <2>1. CASE WalkOver
    BY <1>1, <2>1 DEF WalkOver, scanVars, WalkInv, ScanSteady
  <2> QED
    BY <1>1, <2>1, ScanCallStep, KeyAddedStep, KeyDeletedStep DEF ScanNext
<1>2. ASSUME WalkInv, ScanSteady, UNCHANGED scanVars PROVE WalkInv' /\ ScanSteady'
  BY <1>2 DEF scanVars, WalkInv, ScanSteady
<1> QED
  BY <1>1, <1>2, WalkStart, PTL DEF ScanSpec
=============================================================================
