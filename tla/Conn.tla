--------------------------------- MODULE Conn ---------------------------------
(***************************************************************************)
(* One client connection (internal/server/resp: HandleConn of conn.go,     *)
(* ReadCommand and the Writer of types.go): bytes that arrive in chunks of *)
(* any size are framed into commands, each is handled, and its reply is    *)
(* buffered until the loop finds nothing more to read.                     *)
(*                                                                         *)
(* The wire carries units: a header `*n' or `$n', a word, or the end of a  *)
(* line.  The length of a bulk string counts units, and its payload may    *)
(* hold any unit, headers and line ends included.  A reply is known by the *)
(* command it answers.  What commands do is modelled in Sessions; the      *)
(* write buffer is taken to be larger than what is pending.                *)
(***************************************************************************)
EXTENDS Integers, Sequences, SequencesExt

CONSTANTS
  Conns,       \* connections that clients attempt
  Frames,      \* what clients send: records of units and of what they mean
  MaxFrames    \* bound: frames sent on all connections together

ASSUME ConnAssumption == MaxFrames \in Nat

VARIABLES
  sends,    \* frames sent so far
  net,      \* net[k]: units on their way to the server
  buf,      \* buf[k]: units in the connection's bufio.Reader
  shut,     \* the clients that have closed their side
  loop,     \* HandleConn of k: none, start, loop, closing, returned
  cmd,      \* cmd[k]: the command ReadCommand is at: its args, and how many are left
  out,      \* out[k]: replies in the write buffer
  got,      \* got[k]: replies flushed to the client
  active,   \* Metrics.connectionsActive
  meant,    \* history, meant[k]: the commands that k's frames stand for
  skipped   \* history: the connections whose last frame held no command

connVars == <<sends, net, buf, shut, loop, cmd, out, got, active, meant, skipped>>

Command(left, args) == [left |-> left, args |-> args]
None == Command(-1, <<>>)

ConnInit ==
  /\ sends = 0
  /\ net = [k \in Conns |-> <<>>]
  /\ buf = [k \in Conns |-> <<>>]
  /\ shut = {}
  /\ loop = [k \in Conns |-> "none"]
  /\ cmd = [k \in Conns |-> None]
  /\ out = [k \in Conns |-> <<>>]
  /\ got = [k \in Conns |-> <<>>]
  /\ active = 0
  /\ meant = [k \in Conns |-> [cmds |-> <<>>, over |-> FALSE]]
  /\ skipped = {}

-----------------------------------------------------------------------------
(* Units. *)

NotANumber == -99

Star(n) == [is |-> "*", n |-> n]
Dollar(n) == [is |-> "$", n |-> n]
Word(n) == [is |-> "word", n |-> n]
NL == [is |-> "nl", n |-> 0]
QUIT == Word(0)

From(s, i) == SubSeq(s, i, Len(s))

(* Where the first line of s ends, 0 if it does not end yet. *)
readLine(s) ==
  LET ends == {p \in 1..Len(s) : s[p] = NL}
  IN  IF ends = {} THEN 0 ELSE CHOOSE p \in ends : \A q \in ends : p <= q

(* The first line of s is a header of the given kind with a number. *)
IsHeader(s, kind) == readLine(s) = 2 /\ s[1].is = kind /\ s[1].n # NotANumber

-----------------------------------------------------------------------------
(* external: the client, which need not wait for a reply before it sends.  *)
(* What it means ends with the first frame that ends the connection.       *)

ClientSends(k) ==
  /\ k \notin shut /\ loop[k] \notin {"closing", "returned"}
  /\ sends < MaxFrames /\ sends' = sends + 1
  /\ \E f \in Frames :
       /\ net' = [net EXCEPT ![k] = @ \o f.units]
       /\ meant' = [meant EXCEPT ![k] = IF @.over THEN @ ELSE
                                          [cmds |-> @.cmds \o f.means, over |-> f.ends]]
  /\ UNCHANGED <<buf, shut, loop, cmd, out, got, active, skipped>>

ClientShuts(k) ==
  /\ k \notin shut
  /\ shut' = shut \cup {k}
  /\ UNCHANGED <<sends, net, buf, loop, cmd, out, got, active, meant, skipped>>

-----------------------------------------------------------------------------
(* HandleConn. *)

(* ConnectionOpened, and a fresh ClientState, reader and writer. *)
Open(k) ==
  /\ loop[k] = "start"
  /\ loop' = [loop EXCEPT ![k] = "loop"]
  /\ active' = active + 1
  /\ UNCHANGED <<sends, net, buf, shut, cmd, out, got, meant, skipped>>

(* ReadCommand, a line and a payload at a time. *)

Starting(k) == loop[k] = "loop" /\ cmd[k] = None
InArray(k)  == loop[k] = "loop" /\ cmd[k].left > 0

(* It needs a line, or a payload and the line end after it. *)
NeedsMore(k) ==
  \/ (Starting(k) \/ InArray(k)) /\ readLine(buf[k]) = 0
  \/ InArray(k) /\ IsHeader(buf[k], "$") /\ Len(buf[k]) < buf[k][1].n + 3

(* One read takes some of what has been sent. *)
Fill(k) ==
  /\ NeedsMore(k)
  /\ \E p \in 1..Len(net[k]) :
       /\ buf' = [buf EXCEPT ![k] = @ \o SubSeq(net[k], 1, p)]
       /\ net' = [net EXCEPT ![k] = From(@, p + 1)]
  /\ UNCHANGED <<sends, shut, loop, cmd, out, got, active, meant, skipped>>

(* readArrayCommand's header. *)
ReadArrayHeader(k) ==
  /\ Starting(k) /\ IsHeader(buf[k], "*") /\ buf[k][1].n > 0
  /\ cmd' = [cmd EXCEPT ![k] = Command(buf[k][1].n, <<>>)]
  /\ buf' = [buf EXCEPT ![k] = From(@, 3)]
  /\ UNCHANGED <<sends, net, shut, loop, out, got, active, meant, skipped>>

(* Fault: a payload ends where its line does. *)
ReadBulkLine(k) ==
  LET s == From(buf[k], 3)
      e == readLine(s)
      arg == IF buf[k][1].n < 0 THEN <<>> ELSE SubSeq(s, 1, e - 1)
      end == IF buf[k][1].n < 0 THEN 2 ELSE e + 2
  IN  /\ InArray(k) /\ IsHeader(buf[k], "$") /\ ~NeedsMore(k)
      /\ cmd' = [cmd EXCEPT ![k] = Command(@.left - 1, Append(@.args, arg))]
      /\ buf' = [buf EXCEPT ![k] = From(@, end + 1)]
      /\ UNCHANGED <<sends, net, shut, loop, out, got, active, meant, skipped>>

(* An element: its header, its payload by length, and the line end after   *)
(* it, whatever stands there; or a null bulk string, which has neither.    *)
(* Lengths are ones that a buffer can be made for.                         *)
ReadBulk(k) ==
  LET blen == buf[k][1].n
      end == IF blen < 0 THEN 2 ELSE blen + 3
  IN  /\ InArray(k) /\ IsHeader(buf[k], "$") /\ ~NeedsMore(k)
      /\ cmd' = [cmd EXCEPT ![k] = Command(@.left - 1, Append(@.args, SubSeq(buf[k], 3, end - 1)))]
      /\ buf' = [buf EXCEPT ![k] = From(@, end + 1)]
      /\ UNCHANGED <<sends, net, shut, loop, out, got, active, meant, skipped>>

(* The words of a line that is no array. *)
readInlineCommand(k) ==
  LET e == readLine(buf[k])
  IN  /\ Starting(k) /\ e > 1 /\ buf[k][1].is # "*"
      /\ cmd' = [cmd EXCEPT ![k] = Command(0, [i \in 1..(e - 1) |-> <<buf[k][i]>>])]
      /\ buf' = [buf EXCEPT ![k] = From(@, e + 1)]
      /\ UNCHANGED <<sends, net, shut, loop, out, got, active, meant, skipped>>

(* A blank line or an empty array: the loop goes straight on. *)
Skip(k) ==
  /\ Starting(k)
  /\ readLine(buf[k]) = 1 \/ (IsHeader(buf[k], "*") /\ buf[k][1].n <= 0)
  /\ buf' = [buf EXCEPT ![k] = From(@, readLine(@) + 1)]
  /\ skipped' = skipped \cup {k}
  /\ UNCHANGED <<sends, net, shut, loop, cmd, out, got, active, meant>>

(* ErrProtocol, or the end or a failure of the connection, which may drop  *)
(* what is under way: HandleConn returns without a flush.                  *)
ReadFails(k) ==
  /\ \/ Starting(k) /\ readLine(buf[k]) # 0 /\ buf[k][1].is = "*" /\ ~IsHeader(buf[k], "*")
     \/ InArray(k) /\ readLine(buf[k]) # 0 /\ ~IsHeader(buf[k], "$")
     \/ NeedsMore(k) /\ k \in shut
  /\ loop' = [loop EXCEPT ![k] = "closing"]
  /\ UNCHANGED <<sends, net, buf, shut, cmd, out, got, active, meant, skipped>>

Quits(k) == cmd[k].args[1] = <<QUIT>>

(* Fault: replies are flushed while more input is waiting, not when none   *)
(* is.                                                                     *)
FlushesBusy(k) == Quits(k) \/ buf[k] # <<>>

(* Does the loop flush after a reply?  On QUIT, and when the read buffer   *)
(* is empty.                                                               *)
Flushes(k) == Quits(k) \/ buf[k] = <<>>

(* Handle a command and write its reply; flush, or leave it in the buffer. *)
(* A flush to a client that has gone may fail, which ends the loop.        *)
HandleCommand(k) ==
  LET pending == Append(out[k], cmd[k].args)
  IN  /\ loop[k] = "loop" /\ cmd[k].left = 0
      /\ cmd' = [cmd EXCEPT ![k] = None]
      /\ skipped' = skipped \ {k}
      /\ \/ /\ Flushes(k)
            /\ got' = [got EXCEPT ![k] = @ \o pending]
            /\ out' = [out EXCEPT ![k] = <<>>]
            /\ loop' = [loop EXCEPT ![k] = IF Quits(k) THEN "closing" ELSE @]
         \/ /\ Flushes(k) /\ k \in shut
            /\ out' = [out EXCEPT ![k] = pending]
            /\ loop' = [loop EXCEPT ![k] = "closing"]
            /\ got' = got
         \/ /\ ~Flushes(k)
            /\ out' = [out EXCEPT ![k] = pending]
            /\ UNCHANGED <<got, loop>>
      /\ UNCHANGED <<sends, net, buf, shut, active, meant>>

(* The deferred calls: cleanupSubscriptions (module PubSub),               *)
(* ConnectionClosed, and conn.Close.                                       *)
Return(k) ==
  /\ loop[k] = "closing"
  /\ loop' = [loop EXCEPT ![k] = "returned"]
  /\ active' = active - 1
  /\ UNCHANGED <<sends, net, buf, shut, cmd, out, got, meant, skipped>>

HandleConn(k) ==
  \/ Open(k) \/ Fill(k)
  \/ ReadArrayHeader(k) \/ ReadBulk(k) \/ readInlineCommand(k) \/ Skip(k)
  \/ ReadFails(k) \/ HandleCommand(k) \/ Return(k)

-----------------------------------------------------------------------------
(* Properties. *)

(* However the bytes of pipelined frames are cut into reads, and whatever  *)
(* payloads look like, the connection runs the commands the client sent,   *)
(* one after the other, none twice, none made up; with all input consumed, *)
(* it has run them all.  Replies come in the order of the commands.        *)
CommandsAsSent ==
  \A k \in Conns :
    LET ran == got[k] \o out[k]
    IN  /\ IsPrefix(ran, meant[k].cmds)
        /\ Starting(k) /\ net[k] = <<>> /\ buf[k] = <<>> => ran = meant[k].cmds
=============================================================================
