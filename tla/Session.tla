------------------------------- MODULE Session -------------------------------
(***************************************************************************)
(* A session of the command line client (src/cli/cli.c) with the loop of   *)
(* the server that serves it (handle_client_unlocked of                    *)
(* src/server/server.c): a byte stream each way, read in pieces of any     *)
(* size.                                                                   *)
(*                                                                         *)
(* A command is its kind and its length: it travels as that many           *)
(* characters of its kind and an end of line, all marked with its number   *)
(* so that the replies can be told apart.  A reply is a sequence of the    *)
(* parts that recv_resp_raw takes in one go: line (also a short bulk       *)
(* string, an acknowledgement or a message), err, the head of a bulk       *)
(* string that does not fit the client's buffer (big), a character of its  *)
(* text (char) and the head of an array.                                   *)
(***************************************************************************)
EXTENDS Naturals, Sequences

CONSTANTS
    Command,       \* records [kind, len]
    RX, LINE,      \* sizeof(rxbuf), sizeof(line)
    KEPT,          \* the channels of a SUBSCRIBE that fit the copy tmp
    ELEMS,         \* the elements of an array that the client reads
    MaxCmds,       \* bound: commands typed
    MaxMsgs        \* bound: messages published to the client

Channels == [sub0 |-> 0, sub1 |-> 1, sub2 |-> 2]
Kinds == DOMAIN Channels \cup {"get", "big", "many", "blank", "unsub", "quit"}

ASSUME SessionAssumption ==
    /\ Command \subseteq [kind : Kinds, len : Nat \ {0}]
    /\ {RX, LINE, KEPT, ELEMS, MaxCmds, MaxMsgs} \subseteq Nat
    /\ 1 < LINE /\ LINE < RX

VARIABLES
    sent,          \* the commands sent
    wire,          \* what the server has yet to read
    srv, rx,       \* where the server's loop is, and rxbuf
    subscribed,    \* its flag
    listening,     \* whether a channel has an entry for the client
    msgs,          \* the number of messages published
    handled,       \* the lines the loop has handled
    replies,       \* what the client has yet to read
    cli,           \* where the client is, and the acknowledgements it expects
    once,          \* whether the command is on the command line
    got            \* the command that the last reply was to, 0 for none

server == <<srv, rx, subscribed, listening, msgs, handled>>
client == <<cli, once, got>>
sessionvars == <<sent, wire, server, replies, client>>

At(pc) == [pc |-> pc, left |-> 0]
IsSub(kind) == kind \in DOMAIN Channels

SessionInit ==
    /\ sent = <<>> /\ wire = <<>> /\ replies = <<>>
    /\ srv = "read" /\ rx = <<>> /\ subscribed = FALSE /\ listening = FALSE
    /\ msgs = 0 /\ handled = <<>>
    /\ cli = At("prompt") /\ once \in BOOLEAN /\ got = 0

-----------------------------------------------------------------------------
(* The server.                                                             *)

(* read: any part of what has come, as far as there is room.               *)
Read(n) ==
    /\ srv = "read" /\ n <= Len(wire) /\ n <= RX - 1 - Len(rx)
    /\ rx' = rx \o SubSeq(wire, 1, n)
    /\ wire' = SubSeq(wire, n + 1, Len(wire))
    /\ srv' = "lines"
    /\ UNCHANGED <<sent, subscribed, listening, msgs, handled, replies, client>>

(* read returns 0 at the end of the stream, and when there is no room.     *)
ReadNothing ==
    /\ srv = "read"
    /\ Len(rx) = RX - 1 \/ (wire = <<>> /\ cli.pc = "closed")
    /\ srv' = "closed" /\ listening' = FALSE
    /\ UNCHANGED <<sent, wire, rx, subscribed, msgs, handled, replies, client>>

Part(t, i) == [t |-> t, n |-> 0, of |-> i]
Times(n, part) == [j \in 1 .. n |-> part]

(* process_command: what it sends to command i.                            *)
process_command(kind, i) ==
    CASE kind = "blank" -> <<>>
      [] kind = "get" -> <<Part("line", i)>>
      [] kind = "big" -> <<Part("big", i)>> \o Times(2, Part("char", i))
      [] kind = "many" -> <<[Part("array", i) EXCEPT !.n = ELEMS + 1]>>
                            \o Times(ELEMS + 1, Part("line", i))
      [] OTHER -> <<Part("err", i)>>

(* Mutant: the rest of a line that is cut is taken for the next line.      *)
AfterCut(at) == SubSeq(rx, (IF at < LINE THEN at ELSE LINE - 1) + 1, Len(rx))

(* What follows the line that ends at an end of line.                      *)
After(at) == SubSeq(rx, at + 1, Len(rx))

(* The first line of rxbuf, cut to the size of line.                       *)
HandleLine ==
    LET ends == {j \in 1 .. Len(rx) : rx[j].kind = "nl"}
        at == CHOOSE j \in ends : \A k \in ends : j <= k
        len == IF at - 1 < LINE THEN at - 1 ELSE LINE - 1
        kind == rx[1].kind
        i == rx[1].of
        Reply(r) == replies' = replies \o r
    IN  /\ srv = "lines" /\ ends # {}
        /\ handled' = Append(handled, [kind |-> kind, len |-> len])
        /\ rx' = After(at)
        /\ CASE IsSub(kind) /\ Channels[kind] > 0 ->
                  /\ Reply(Times(IF Channels[kind] < KEPT THEN Channels[kind] ELSE KEPT,
                                 Part("line", i)))
                  /\ subscribed' = TRUE /\ listening' = TRUE /\ UNCHANGED srv
             [] kind = "unsub" ->
                  /\ Reply(<<Part("line", i)>>)
                  /\ listening' = FALSE /\ UNCHANGED <<subscribed, srv>>
             [] OTHER ->
                  IF subscribed \/ kind # "quit"
                    THEN /\ Reply(IF subscribed THEN <<>> ELSE process_command(kind, i))
                         /\ UNCHANGED <<srv, subscribed, listening>>
                    ELSE /\ Reply(<<Part("line", i)>>)
                         /\ srv' = "closed" /\ listening' = FALSE
                         /\ UNCHANGED subscribed
        /\ UNCHANGED <<sent, wire, msgs, client>>

(* Mutant: the start of the next line is dropped.                          *)
KeepRestNone ==
    /\ srv = "lines" /\ \A j \in 1 .. Len(rx) : rx[j].kind # "nl"
    /\ srv' = "read" /\ rx' = <<>>
    /\ UNCHANGED <<sent, wire, subscribed, listening, msgs, handled, replies, client>>

(* No whole line is left: the rest stays.                                  *)
KeepRest ==
    /\ srv = "lines" /\ \A j \in 1 .. Len(rx) : rx[j].kind # "nl"
    /\ srv' = "read"
    /\ UNCHANGED <<sent, wire, rx, subscribed, listening, msgs, handled, replies, client>>

(* PUBLISH by another client.                                              *)
Message ==
    /\ listening /\ msgs < MaxMsgs
    /\ msgs' = msgs + 1 /\ replies' = Append(replies, Part("line", 0))
    /\ UNCHANGED <<sent, wire, srv, rx, subscribed, listening, handled, client>>

-----------------------------------------------------------------------------
(* The client.                                                             *)

(* A write to a connection that the server has closed may still succeed.   *)
send_cmd(cmd) ==
    /\ Len(sent) < MaxCmds
    /\ sent' = Append(sent, cmd)
    /\ wire' = IF srv = "closed" THEN wire
               ELSE wire \o Times(cmd.len, [kind |-> cmd.kind, of |-> Len(sent) + 1])
                         \o <<[kind |-> "nl", of |-> Len(sent) + 1]>>
    /\ UNCHANGED <<server, replies, once, got>>

(* The acknowledgements the client expects: one, and one per blank.        *)
ExpectedAcks(kind) == 1 + Channels[kind]

(* A command is typed at the prompt, or is on the command line.            *)
repl_loop(cmd) ==
    /\ cli.pc = "prompt"
    /\ \/ /\ send_cmd(cmd)
          /\ cli' = IF IsSub(cmd.kind) /\ ~once
                      THEN [pc |-> "acks", left |-> ExpectedAcks(cmd.kind)]
                      ELSE At("reply")
       \/ /\ srv = "closed" /\ ~once /\ cli' = At("closed")
          /\ UNCHANGED <<sent, wire, server, replies, once, got>>

(* The end of the input at the prompt.                                     *)
EndOfInput ==
    /\ cli.pc = "prompt" /\ ~once
    /\ cli' = At("closed")
    /\ UNCHANGED <<sent, wire, server, replies, once, got>>

(* recv_resp_raw takes one part, and of an array at most ELEMS elements.   *)
(* It fails, without a text, at the end and on what it cannot take.        *)
CanRecv == replies # <<>> \/ srv = "closed"
NoText == replies = <<>> \/ Head(replies).t \in {"big", "char"}
Failed == NoText \/ Head(replies).t = "err"

recv_resp_raw ==
    LET taken == CASE replies = <<>> -> 0
                   [] replies # <<>> /\ Head(replies).t = "array" ->
                        1 + (IF Head(replies).n < ELEMS THEN Head(replies).n ELSE ELEMS)
                   [] OTHER -> 1
    IN  /\ CanRecv
        /\ replies' = SubSeq(replies, taken + 1, Len(replies))
        /\ got' = IF replies = <<>> THEN 0 ELSE Head(replies).of
        /\ UNCHANGED <<sent, wire, server, once>>

(* The reply to a command; QUIT and a command line end the client.         *)
RecvReply ==
    /\ cli.pc = "reply" /\ recv_resp_raw
    /\ cli' = At(IF once \/ sent[Len(sent)].kind = "quit" THEN "closed" ELSE "prompt")

(* The acknowledgements of SUBSCRIBE, until there are enough or one fails. *)
RecvAck ==
    /\ cli.pc = "acks" /\ recv_resp_raw
    /\ cli' = IF Failed \/ cli.left = 1 THEN At("pubsub")
              ELSE [cli EXCEPT !.left = @ - 1]

(* pubsub_read_loop: what comes is shown, what is typed is sent; it ends   *)
(* at QUIT, at the end of the input and when nothing can be shown.         *)
pubsub_read_loop ==
    /\ cli.pc = "pubsub"
    /\ \/ recv_resp_raw /\ cli' = IF NoText THEN At("prompt") ELSE cli
       \/ \E cmd \in Command :
            /\ send_cmd(cmd)
            /\ cli' = IF cmd.kind = "quit" THEN At("prompt") ELSE cli
       \/ /\ cli' = At("prompt")
          /\ UNCHANGED <<sent, wire, server, replies, once, got>>

SessionNext ==
    \/ \E n \in 1 .. RX : Read(n)
    \/ ReadNothing \/ HandleLine \/ KeepRest \/ Message
    \/ \E cmd \in Command : repl_loop(cmd)
    \/ EndOfInput \/ RecvReply \/ RecvAck \/ pubsub_read_loop

(* The server and the client go on; nobody has to type.                    *)
Fairness ==
    /\ WF_sessionvars((\E n \in 1 .. RX : Read(n)) \/ ReadNothing \/ HandleLine \/ KeepRest)
    /\ WF_sessionvars(RecvReply \/ RecvAck)

SessionSpec == SessionInit /\ [][SessionNext]_sessionvars /\ Fairness

-----------------------------------------------------------------------------
(* However the stream is cut into pieces, the server handles the lines     *)
(* that were sent, in their order and each once, and of a line that is too *)
(* long what fits, never its rest (handle_client_unlocked).                *)
LinesIntact ==
    /\ Len(handled) <= Len(sent)
    /\ \A i \in 1 .. Len(handled) :
         /\ handled[i].kind = sent[i].kind
         /\ handled[i].len = IF sent[i].len < LINE THEN sent[i].len ELSE LINE - 1

(* The commands so far have one reply each that the client takes whole.    *)
Simple == \A i \in 1 .. Len(sent) : sent[i].kind \in {"get", "unsub", "quit"}

(* The client shows, to each command, the reply to that command and not to *)
(* an earlier one, or the server has closed the connection.  The commands  *)
(* so far have to have one reply each that the client can take whole: a    *)
(* blank line has none, a long bulk string or array leaves a rest in the   *)
(* stream, and Pub/Sub mode has its own rules (handle_client_unlocked,     *)
(* recv_resp_raw, repl_loop).                                              *)
AnsweredInStep ==
    \A i \in 1 .. MaxCmds :
      (cli.pc = "reply" /\ Len(sent) = i /\ Simple) ~>
        /\ cli.pc \in {"prompt", "closed"} /\ Len(sent) = i
        /\ got = i \/ (got = 0 /\ srv = "closed")
=============================================================================
