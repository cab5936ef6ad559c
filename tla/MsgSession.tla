----------------------------- MODULE MsgSession -----------------------------
(***************************************************************************)
(* One session between the messaging client (client.cc) and a worker of    *)
(* the threaded server (client-handler.cc) over a stream connection.       *)
(*                                                                         *)
(* recv returns any non-empty part of what has arrived and send takes any  *)
(* non-empty part of what is left, so requests, messages and answers may   *)
(* be split anywhere.  The user may quit or kill the client at any moment. *)
(* The message map is that of one user, and a request on it is one step:   *)
(* SharedStore shows that the map under its lock behaves so.               *)
(***************************************************************************)
EXTENDS Wire, FiniteSetsExt

CONSTANTS
  MaxCommands,   \* commands the user types
  LineCounts     \* how many lines a message may have, each of one character

ASSUME BoundsAssumption == MaxCommands \in Nat /\ LineCounts \subseteq Nat

VARIABLES
  up, down,      \* the bytes in flight to the server and to the client
  \* the client
  client_pc, client_out, client_in, client_cache, length,
  shown,         \* what the client printed for the last command
  commands,      \* the commands typed so far
  behind,        \* an answer was not read to its end before the next command
  \* the server
  handler_pc, handler_out, handler_in, handler_cache, put_length,
  messages,      \* contents of the messages stored
  reply,         \* the answer to the last request, before it is written out
  alive          \* the server process has not been killed

wires == <<up, down>>
client == <<client_pc, client_out, client_in, client_cache, length, shown,
            commands, behind>>
handler == <<handler_pc, handler_out, handler_in, handler_cache, put_length,
             messages, reply, alive>>
vars == <<wires, client, handler>>

Nothing == [kind |-> "nothing", text |-> <<>>]
Failure == [kind |-> "error", text |-> <<>>]
Ok == [kind |-> "OK", text |-> <<>>]
Closed == [kind |-> "closed", text |-> <<>>]

Init ==
  /\ up = <<>> /\ down = <<>>
  /\ client_pc = "prompt"
  /\ client_out = <<>> /\ client_in = <<>> /\ client_cache = <<>>
  /\ length = 0
  /\ shown = Nothing
  /\ commands = <<>>
  /\ behind = FALSE
  /\ handler_pc = "get_request"
  /\ handler_out = <<>> /\ handler_in = <<>> /\ handler_cache = <<>>
  /\ put_length = 0
  /\ messages = <<>>
  /\ reply = Nothing
  /\ alive = TRUE

-----------------------------------------------------------------------------
(* The client.                                                             *)

Commands ==
  [cmd : {"send"}, lines : LineCounts] \cup [cmd : {"list", "reset"}]
    \cup [cmd : {"read"}, index : 1..MaxCommands]

RequestBytes(k, c) ==
  CASE c.cmd = "send" -> <<PutHeader(2 * c.lines), NL>> \o Body(k, c.lines)
    [] c.cmd = "list" -> <<ListHeader, NL>>
    [] c.cmd = "read" -> <<GetHeader(c.index), NL>>
    [] c.cmd = "reset" -> <<ResetHeader, NL>>

\* A variant that does not empty the cache.
CommandKeepsCache(c) ==
  /\ client_pc = "prompt"
  /\ Len(commands) < MaxCommands
  /\ commands' = Append(commands, c)
  /\ client_out' = RequestBytes(Len(commands'), c)
  /\ behind' = (behind \/ down # <<>> \/ handler_out # <<>>)
  /\ shown' = Nothing
  /\ client_pc' = "send_request"
  /\ UNCHANGED <<wires, client_in, client_cache, length, handler>>

\* prompt(), handle_input() and the start of send_request(), which empties
\* the cache.
Command(c) ==
  /\ client_pc = "prompt"
  /\ Len(commands) < MaxCommands
  /\ commands' = Append(commands, c)
  /\ client_out' = RequestBytes(Len(commands'), c)
  /\ client_cache' = <<>>
  /\ behind' = (behind \/ down # <<>> \/ handler_out # <<>>)
  /\ shown' = Nothing
  /\ client_pc' = "send_request"
  /\ UNCHANGED <<wires, client_in, length, handler>>

\* quit, end of input, or a signal.  What is still on its way may be lost.
Exit ==
  /\ client_pc # "left"
  /\ client_pc' = "left"
  /\ \E n \in 0..Len(up) : up' = SubSeq(up, 1, n)
  /\ down' = <<>>
  /\ client_out' = <<>> /\ client_in' = <<>> /\ client_cache' = <<>>
  /\ UNCHANGED <<length, shown, commands, behind, handler>>

SendRequest ==
  /\ client_pc = "send_request"
  /\ alive
  /\ \E n \in 1..Len(client_out) :
       /\ up' = up \o SubSeq(client_out, 1, n)
       /\ client_out' = SubSeq(client_out, n + 1, Len(client_out))
  /\ client_pc' = IF client_out' = <<>> THEN "get_response" ELSE "send_request"
  /\ UNCHANGED <<down, client_in, client_cache, length, shown, commands,
                 behind, handler>>

\* The server process is gone: the kernel takes the bytes and drops them, or
\* it raises SIGPIPE, which ends the client.
SendRequestFails ==
  /\ client_pc = "send_request"
  /\ ~alive
  /\ client_out' = <<>>
  /\ client_pc' \in {"get_response", "left"}
  /\ UNCHANGED <<wires, client_in, client_cache, length, shown, commands,
                 behind, handler>>

\* receive_list(): the lines that are in the cache already, up to an empty one.
CompleteLines(cache) ==
  LET ends == {i \in DOMAIN cache : cache[i] = NL}
      empty == {i \in ends : i = 1 \/ i - 1 \in ends}
      complete == {i \in ends : \A j \in empty : i < j}
  IN  WithoutLastNewline(SubSeq(cache, 1, Max(complete \cup {0})))

\* format_and_output_response(), for all but a message, which is still to be
\* received.  Of no line receive_list() takes the last newline all the same,
\* and the exception is shown as an error.
Format(line, cache) ==
  IF Len(line) # 1 THEN Failure
  ELSE CASE line[1].sym = "OK" -> Ok
         [] line[1].sym = "list of" /\ line[1].number # 0
              /\ CompleteLines(Tail(cache)) # <<>> ->
              [kind |-> "list", text |-> CompleteLines(Tail(cache))]
         [] OTHER -> Failure

IsMessage(line) ==
  Len(line) = 1 /\ line[1].sym = "message" /\ line[1].length # 0

GetResponse ==
  /\ client_pc = "get_response"
  /\ \E n \in 1..Len(down) :
       LET response == client_in \o SubSeq(down, 1, n) IN
       /\ down' = SubSeq(down, n + 1, Len(down))
       /\ IF ~HasNewline(response)
          THEN /\ client_in' = response
               /\ UNCHANGED <<client_pc, client_cache, length, shown>>
          ELSE LET line == LineOf(response)
                   cache == client_cache \o RestOf(response) IN
               /\ client_cache' = cache
               /\ IF IsMessage(line)
                  THEN /\ client_pc' = "receive_message"
                       /\ client_in' = cache
                       /\ length' = line[1].length
                       /\ UNCHANGED shown
                  ELSE /\ client_pc' = "prompt"
                       /\ client_in' = <<>>
                       /\ shown' = Format(line, cache)
                       /\ UNCHANGED length
  /\ UNCHANGED <<up, client_out, commands, behind, handler>>

\* The loop of receive_message(): its count includes the newline of the cache.
ReceiveMore ==
  /\ client_pc = "receive_message"
  /\ Len(client_in) < length
  /\ \E n \in 1..Len(down) :
       /\ client_in' = client_in \o SubSeq(down, 1, n)
       /\ down' = SubSeq(down, n + 1, Len(down))
  /\ UNCHANGED <<up, client_pc, client_out, client_cache, length, shown,
                 commands, behind, handler>>

ShowMessage ==
  /\ client_pc = "receive_message"
  /\ Len(client_in) >= length
  /\ shown' = [kind |-> "message", text |-> StripMessage(client_in)]
  /\ client_in' = <<>>
  /\ client_pc' = "prompt"
  /\ UNCHANGED <<wires, client_out, client_cache, length, commands, behind,
                 handler>>

\* recv finds the connection closed.  get_response() returns "", which as a
\* bool is true, and receive_message() an empty message: prompt() goes on.
ServerIsGone ==
  /\ client_pc \in {"get_response", "receive_message"}
  /\ ~alive
  /\ down' = <<>>
  /\ shown' = Closed
  /\ client_in' = <<>>
  /\ client_pc' = "prompt"
  /\ UNCHANGED <<up, client_out, client_cache, length, commands, behind,
                 handler>>

-----------------------------------------------------------------------------
(* The server.                                                             *)

\* Variants: one counts a line or a character too few, one forgets the newline
\* after an error.
ReplyCountsLess(r) ==
  CASE r.kind = "OK" -> <<OkHeader, NL>>
    [] r.kind = "list" ->
         <<NumberHeader(Len(r.text) - 1), NL>> \o ListBytes(Len(r.text))
    [] r.kind = "message" -> <<MessageHeader(Len(r.text) - 1), NL>> \o r.text
    [] OTHER -> <<ErrorHeader, NL>>

ReplyWithoutNewline(r) ==
  CASE r.kind = "OK" -> <<OkHeader, NL>>
    [] r.kind = "list" -> <<NumberHeader(Len(r.text)), NL>> \o ListBytes(Len(r.text))
    [] r.kind = "message" -> <<MessageHeader(Len(r.text)), NL>> \o r.text
    [] OTHER -> <<ErrorHeader>>

ReplyBytes(r) ==
  CASE r.kind = "OK" -> <<OkHeader, NL>>
    [] r.kind = "list" -> <<NumberHeader(Len(r.text)), NL>> \o ListBytes(Len(r.text))
    [] r.kind = "message" -> <<MessageHeader(Len(r.text)), NL>> \o r.text
    [] OTHER -> <<ErrorHeader, NL>>

\* handle_request() has an answer; send_response() empties the cache first.
Answer(r) ==
  /\ reply' = r
  /\ handler_out' = ReplyBytes(r)
  /\ handler_cache' = <<>>
  /\ handler_in' = <<>>
  /\ handler_pc' = "send_response"

ListReply ==
  [kind |-> "list", text |-> [i \in 1..Len(messages) |-> ListLine(i)]]

GetReply(index) ==
  IF index \in DOMAIN messages
  THEN [kind |-> "message", text |-> messages[index]] ELSE Failure

HandleRequest(line, cache) ==
  IF Len(line) # 1
  THEN Answer(Failure) /\ UNCHANGED <<put_length, messages>>
  ELSE
    \/ /\ line[1].sym = "put" /\ line[1].length # 0
       /\ handler_pc' = "receive_message"
       /\ put_length' = line[1].length
       /\ handler_in' = cache
       /\ handler_cache' = cache
       /\ UNCHANGED <<handler_out, messages, reply>>
    \/ /\ line[1].sym = "put" /\ line[1].length = 0
       /\ Answer(Failure) /\ UNCHANGED <<put_length, messages>>
    \/ /\ line[1].sym = "list"
       /\ Answer(ListReply) /\ UNCHANGED <<put_length, messages>>
    \/ /\ line[1].sym = "get"
       /\ Answer(GetReply(line[1].index)) /\ UNCHANGED <<put_length, messages>>
    \/ /\ line[1].sym = "reset"
       /\ messages' = <<>>
       /\ Answer(Ok) /\ UNCHANGED put_length
    \/ /\ line[1].sym \notin {"put", "list", "get", "reset"}
       /\ Answer(Failure) /\ UNCHANGED <<put_length, messages>>

\* handle() returns: the worker takes another client, and leaves this
\* connection open.
HandlerReturns(cache) ==
  /\ handler_pc' = "returned"
  /\ handler_in' = <<>>
  /\ handler_cache' = cache
  /\ UNCHANGED <<handler_out, put_length, messages, reply>>

GetRequest ==
  /\ alive /\ handler_pc = "get_request"
  /\ \E n \in 1..Len(up) :
       LET request == handler_in \o SubSeq(up, 1, n) IN
       /\ up' = SubSeq(up, n + 1, Len(up))
       /\ IF ~HasNewline(request)
          THEN /\ handler_in' = request
               /\ UNCHANGED <<handler_pc, handler_out, handler_cache,
                              put_length, messages, reply>>
          ELSE LET line == LineOf(request)
                   cache == handler_cache \o RestOf(request) IN
               IF line = <<>> THEN HandlerReturns(cache)
               ELSE HandleRequest(line, cache)
  /\ UNCHANGED <<down, client, alive>>

ClientIsDone ==
  /\ alive /\ handler_pc = "get_request"
  /\ client_pc = "left" /\ up = <<>>
  /\ HandlerReturns(handler_cache)
  /\ UNCHANGED <<wires, client, alive>>

ReceiveMessage ==
  /\ alive /\ handler_pc = "receive_message"
  /\ Len(handler_in) < put_length
  /\ \E n \in 1..Len(up) :
       /\ handler_in' = handler_in \o SubSeq(up, 1, n)
       /\ up' = SubSeq(up, n + 1, Len(up))
  /\ UNCHANGED <<down, client, handler_pc, handler_out, handler_cache,
                 put_length, messages, reply, alive>>

StoreMessage ==
  /\ alive /\ handler_pc = "receive_message"
  /\ \/ /\ Len(handler_in) >= put_length
        /\ messages' = Append(messages, StripMessage(handler_in))
     \/ /\ Len(handler_in) < put_length
        /\ client_pc = "left" /\ up = <<>>
        /\ messages' = Append(messages, <<>>)
  /\ Answer(Ok)
  /\ UNCHANGED <<wires, client, put_length, alive>>

SendResponse ==
  /\ alive /\ handler_pc = "send_response"
  /\ client_pc # "left"
  /\ \E n \in 1..Len(handler_out) :
       /\ down' = down \o SubSeq(handler_out, 1, n)
       /\ handler_out' = SubSeq(handler_out, n + 1, Len(handler_out))
  /\ handler_pc' =
       IF handler_out' = <<>> THEN "get_request" ELSE "send_response"
  /\ UNCHANGED <<up, client, handler_in, handler_cache, put_length, messages,
                 reply, alive>>

\* The client is gone: the kernel takes the answer and drops it, or it raises
\* SIGPIPE, which no part of the program handles: the server process ends.
SendResponseFails ==
  /\ alive /\ handler_pc = "send_response"
  /\ client_pc = "left"
  /\ \/ handler_out' = <<>> /\ handler_pc' = "get_request" /\ UNCHANGED alive
     \/ alive' = FALSE /\ UNCHANGED <<handler_out, handler_pc>>
  /\ UNCHANGED <<wires, client, handler_in, handler_cache, put_length,
                 messages, reply>>

\* Another worker of the same process may meet SIGPIPE at any time.
OtherWorkerKills ==
  /\ alive
  /\ alive' = FALSE
  /\ UNCHANGED <<wires, client, handler_pc, handler_out, handler_in,
                 handler_cache, put_length, messages, reply>>

-----------------------------------------------------------------------------
ClientStep ==
  \/ SendRequest \/ SendRequestFails \/ GetResponse \/ ReceiveMore
  \/ ShowMessage \/ ServerIsGone

HandlerStep ==
  \/ GetRequest \/ ClientIsDone \/ ReceiveMessage \/ StoreMessage
  \/ SendResponse \/ SendResponseFails

Next ==
  \/ \E c \in Commands : Command(c)
  \/ Exit
  \/ ClientStep
  \/ HandlerStep
  \/ OtherWorkerKills

Spec == Init /\ [][Next]_vars

\* Both programs keep running, and the network delivers.  The user need not
\* type another command.
FairSpec == Spec /\ WF_vars(ClientStep) /\ WF_vars(HandlerStep)

-----------------------------------------------------------------------------
Kinds == {"nothing", "error", "OK", "list", "message", "closed"}

\* Every buffer is a sequence of symbols.
TypeOK ==
  /\ \A s \in {up, down, client_out, client_in, client_cache, handler_out,
               handler_in, handler_cache} : s \in Seq(Symbols)
  /\ client_pc \in {"prompt", "send_request", "get_response",
                    "receive_message", "left"}
  /\ handler_pc \in {"get_request", "receive_message", "send_response",
                     "returned"}
  /\ commands \in Seq(Commands)
  /\ length \in Nat /\ put_length \in Nat
  /\ messages \in Seq(Seq(Symbols))
  /\ {shown, reply} \subseteq [kind : Kinds, text : Seq(Symbols)]
  /\ behind \in BOOLEAN /\ alive \in BOOLEAN

\* As long as the client read every answer to its end before it went on: however
\* the bytes of a put are split between recvs, and although receive_message()
\* counts one byte too many (client-handler.cc:30-33) and may stop before the
\* last one, a stored message is what the user typed, without the final
\* newline, in the order typed; it is empty only if the client left before all
\* of it arrived, and then it is the last.
Typed(k) ==
  IF commands[k].cmd = "send"
  THEN WithoutLastNewline(Body(k, commands[k].lines)) ELSE <<>>
StoredWhole ==
  ~behind =>
    /\ \A i \in DOMAIN messages :
         IF messages[i] = <<>>
         THEN i = Len(messages) /\ client_pc = "left"
         ELSE \E k \in DOMAIN commands : messages[i] = Typed(k)
    /\ \A i, j \in DOMAIN messages :
         i < j /\ messages[j] # <<>> => messages[i][1].of < messages[j][1].of

\* As long as every answer was read to its end before the next command, what
\* the client prints is the answer to the command, or the beginning of it; and
\* all of it if nothing of it is still on its way (client.cc:204-265).  It
\* prints an error instead of an empty list or message, and of a list of which
\* no line has arrived.
Said(r) ==
  IF r.kind = "list" THEN WithoutLastNewline(ListBytes(Len(r.text))) ELSE r.text
ShownIsAnswer ==
  (client_pc = "prompt" /\ ~behind /\ shown.kind \notin {"nothing", "closed"}) =>
    LET answer == Said(reply)
        complete == down = <<>> /\ handler_out = <<>>
        n == Len(shown.text)
    IN  /\ \/ shown.kind = reply.kind
           \/ /\ shown.kind = "error"
              /\ \/ reply.kind \in {"list", "message"} /\ reply.text = <<>>
                 \/ reply.kind = "list" /\ ~complete
        /\ n <= Len(answer)
        /\ shown.text = SubSeq(answer, 1, n)
        /\ complete => n = Len(answer)

\* A client that waits for an answer gets one, unless the server process was
\* killed, or the handler has left the session (client-handler.cc:223).
Waiting == client_pc \in {"get_response", "receive_message"}
WaitEnds == Waiting ~> (~Waiting \/ handler_pc = "returned")

-----------------------------------------------------------------------------
(* What comments of the code say, and the code does not do.                *)

\* client-handler.cc:222: handle() leaves its loop "if client is done or an
\* error occurred".
BreaksOnlyWhenDone == handler_pc = "returned" => client_pc = "left"

\* client-handler.cc:280: when send fails, "an error occurred, so break out".
SendErrorOnlyBreaks == [][~(SendResponseFails /\ ~alive')]_vars

\* client.cc:282: after get_response(), "break if an error occurred".
ClientBreaksOnError == shown = Closed => client_pc = "left"
=============================================================================
