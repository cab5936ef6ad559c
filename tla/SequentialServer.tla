-------------------------- MODULE SequentialServer --------------------------
(***************************************************************************)
(* The single-threaded messaging server, lab1-messaging-service/server.cc: *)
(* it accepts one client, handles its requests until the session ends,     *)
(* closes the connection and accepts the next one.  The buffer cache_ for  *)
(* bytes that arrived after a request belongs to the server, not to the    *)
(* session, so what one session leaves in it meets the next.               *)
(*                                                                         *)
(* A client sends a put, list, get or reset, waits for the answer, and may *)
(* leave at any moment; how it reads the answer is the matter of           *)
(* MsgSession, and what the answers to a list or get say that of           *)
(* MessageStore.                                                           *)
(***************************************************************************)
EXTENDS Wire, FiniteSets

CONSTANTS
  Clients,
  MaxPuts,      \* puts of all clients together
  MaxOthers,    \* lists, gets and resets of all clients together
  MaxLines,     \* lines of a message, each of one character
  NoClient

ASSUME NoClientAssumption == NoClient \notin Clients
ASSUME BoundsAssumption == {MaxPuts, MaxOthers, MaxLines} \subseteq Nat

VARIABLES
  backlog,      \* connections made and not yet accepted
  client_pc,    \* client_pc[c]: "new", "idle", "waiting", "closed" or "left"
  up,           \* up[c]: bytes on their way from client c
  typed,        \* the messages the clients put, in the order of their puts
  others,       \* number of lists, gets and resets asked for
  server_pc,
  current,      \* the local variable client of serve()
  cache_,
  input,        \* the local variable request or message
  length,
  messages,     \* the messages stored since the last reset, see Stored below
  taint         \* "cache": cache_ holds bytes of an earlier session;
                \* "stream": a put of this session was read with such bytes,
                \* so some of its own bytes were left on the wire; or "none"

environment == <<backlog, client_pc, up, typed, others>>
server == <<server_pc, current, cache_, input, length, messages, taint>>
vars == <<environment, server>>

Init ==
  /\ backlog = <<>>
  /\ client_pc = [c \in Clients |-> "new"]
  /\ up = [c \in Clients |-> <<>>]
  /\ typed = <<>>
  /\ others = 0
  /\ server_pc = "accept"
  /\ current = NoClient
  /\ cache_ = <<>>
  /\ input = <<>>
  /\ length = 0
  /\ messages = <<>>
  /\ taint = "none"

-----------------------------------------------------------------------------
(* The clients.                                                            *)

Connect(c) ==
  /\ client_pc[c] = "new"
  /\ client_pc' = [client_pc EXCEPT ![c] = "idle"]
  /\ backlog' = Append(backlog, c)
  /\ UNCHANGED <<up, typed, others, server>>

AskPut(c, lines) ==
  /\ client_pc[c] = "idle"
  /\ Len(typed) < MaxPuts
  /\ typed' = Append(typed, [by |-> c, lines |-> lines])
  /\ up' = [up EXCEPT ![c] =
              @ \o <<PutHeader(2 * lines), NL>> \o Body(Len(typed'), lines)]
  /\ client_pc' = [client_pc EXCEPT ![c] = "waiting"]
  /\ UNCHANGED <<backlog, others, server>>

OtherHeaders == {ListHeader, GetHeader(1), ResetHeader}

AskOther(c, header) ==
  /\ client_pc[c] = "idle"
  /\ others < MaxOthers
  /\ others' = others + 1
  /\ up' = [up EXCEPT ![c] = @ \o <<header, NL>>]
  /\ client_pc' = [client_pc EXCEPT ![c] = "waiting"]
  /\ UNCHANGED <<backlog, typed, server>>

\* The client quits or dies; what is still on its way may be lost.
Leave(c) ==
  /\ client_pc[c] \in {"idle", "waiting"}
  /\ client_pc' = [client_pc EXCEPT ![c] = "left"]
  /\ \E n \in 0..Len(up[c]) : up' = [up EXCEPT ![c] = SubSeq(@, 1, n)]
  /\ UNCHANGED <<backlog, typed, others, server>>

-----------------------------------------------------------------------------
(* The server.                                                             *)

Accept ==
  /\ server_pc = "accept"
  /\ backlog # <<>>
  /\ current' = Head(backlog)
  /\ backlog' = Tail(backlog)
  /\ server_pc' = "get_request"
  /\ UNCHANGED <<client_pc, up, typed, others, cache_, input, length, messages,
                 taint>>

\* A variant that goes back to accept() without closing the connection.
SessionNotClosed(cache) ==
  /\ server_pc' = "accept"
  /\ cache_' = cache
  /\ taint' = IF cache = <<>> THEN "none" ELSE "cache"
  /\ input' = <<>>
  /\ UNCHANGED <<up, client_pc, current, length, messages>>

\* handle() returns and serve() closes the connection.
EndSession(cache) ==
  /\ server_pc' = "accept"
  /\ current' = NoClient
  /\ cache_' = cache
  /\ taint' = IF cache = <<>> THEN "none" ELSE "cache"
  /\ input' = <<>>
  /\ up' = [up EXCEPT ![current] = <<>>]
  /\ client_pc' = [client_pc EXCEPT ![current] =
                     IF @ = "left" THEN "left" ELSE "closed"]
  /\ UNCHANGED <<length, messages>>

\* The line is the request; what follows it goes to cache_.  What is no put is
\* answered at once; a reset empties every entry of the map.
StartRequest(line, cache, rest) ==
  LET Is(sym) == Len(line) = 1 /\ line[1].sym = sym IN
  /\ up' = [up EXCEPT ![current] = rest]
  /\ cache_' = cache
  /\ \/ /\ Is("put")
        /\ server_pc' = "receive_message"
        /\ length' = line[1].length
        /\ input' = cache
        /\ UNCHANGED messages
     \/ /\ ~Is("put")
        /\ server_pc' = "send_response"
        /\ input' = <<>>
        /\ messages' = IF Is("reset") THEN <<>> ELSE messages
        /\ UNCHANGED length
  /\ UNCHANGED <<client_pc, current, taint>>

GetRequest ==
  /\ server_pc = "get_request"
  /\ \E n \in 1..Len(up[current]) :
       LET request == input \o SubSeq(up[current], 1, n)
           rest == SubSeq(up[current], n + 1, Len(up[current])) IN
       IF ~HasNewline(request)
       THEN /\ input' = request
            /\ up' = [up EXCEPT ![current] = rest]
            /\ UNCHANGED <<client_pc, server_pc, current, cache_, length,
                           messages, taint>>
       ELSE IF LineOf(request) = <<>>
            THEN EndSession(cache_ \o RestOf(request))
            ELSE StartRequest(LineOf(request), cache_ \o RestOf(request), rest)
  /\ UNCHANGED <<backlog, typed, others>>

\* A variant that calls recv again when it returned 0.
RecvAgain ==
  /\ server_pc = "get_request"
  /\ client_pc[current] = "left" /\ up[current] = <<>>
  /\ UNCHANGED vars

ClientIsDone ==
  /\ server_pc = "get_request"
  /\ client_pc[current] = "left" /\ up[current] = <<>>
  /\ EndSession(cache_)
  /\ UNCHANGED <<backlog, typed, others>>

ReceiveMessage ==
  /\ server_pc = "receive_message"
  /\ Len(input) < length
  /\ \E n \in 1..Len(up[current]) :
       /\ input' = input \o SubSeq(up[current], 1, n)
       /\ up' = [up EXCEPT ![current] = SubSeq(@, n + 1, Len(@))]
  /\ UNCHANGED <<backlog, client_pc, typed, others, server_pc, current, cache_,
                 length, messages, taint>>

\* A stored message: by whom, its contents, and whether bytes of an earlier
\* session had a part in its reading.
Stored(contents) ==
  [by |-> current, contents |-> contents, tainted |-> taint # "none"]

\* A variant that counts a newline for the end of the message, too.
StoreEarly ==
  /\ server_pc = "receive_message"
  /\ Len(input) + 1 >= length
  /\ messages' = Append(messages, Stored(StripMessage(input)))
  /\ server_pc' = "send_response"
  /\ input' = <<>>
  /\ taint' = IF taint = "cache" THEN "stream" ELSE taint
  /\ UNCHANGED <<environment, current, cache_, length>>

StoreMessage ==
  /\ server_pc = "receive_message"
  /\ \/ /\ Len(input) >= length
        /\ messages' = Append(messages, Stored(StripMessage(input)))
     \/ /\ Len(input) < length
        /\ client_pc[current] = "left" /\ up[current] = <<>>
        /\ messages' = Append(messages, Stored(<<>>))
  /\ server_pc' = "send_response"
  /\ input' = <<>>
  /\ taint' = IF taint = "cache" THEN "stream" ELSE taint
  /\ UNCHANGED <<environment, current, cache_, length>>

\* A variant that does not empty cache_.
SendKeepsCache ==
  /\ server_pc = "send_response"
  /\ IF client_pc[current] = "left"
     THEN /\ server_pc' \in {"get_request", "killed"}
          /\ UNCHANGED client_pc
     ELSE /\ server_pc' = "get_request"
          /\ client_pc' = [client_pc EXCEPT ![current] = "idle"]
  /\ UNCHANGED <<backlog, up, typed, others, current, cache_, input, length,
                 messages, taint>>

\* send_response() empties cache_.  To a client that has left, the kernel
\* takes the bytes, or SIGPIPE ends the server.
SendResponse ==
  /\ server_pc = "send_response"
  /\ cache_' = <<>>
  /\ taint' = IF taint = "cache" THEN "none" ELSE taint
  /\ IF client_pc[current] = "left"
     THEN /\ server_pc' \in {"get_request", "killed"}
          /\ UNCHANGED client_pc
     ELSE /\ server_pc' = "get_request"
          /\ client_pc' = [client_pc EXCEPT ![current] = "idle"]
  /\ UNCHANGED <<backlog, up, typed, others, current, input, length, messages>>

-----------------------------------------------------------------------------
ServerStep ==
  \/ Accept \/ GetRequest \/ ClientIsDone \/ ReceiveMessage \/ StoreMessage
  \/ SendResponse

Next ==
  \/ \E c \in Clients :
       \/ Connect(c)
       \/ \E lines \in 1..MaxLines : AskPut(c, lines)
       \/ \E header \in OtherHeaders : AskOther(c, header)
       \/ Leave(c)
  \/ ServerStep

Spec == Init /\ [][Next]_vars
FairSpec == Spec /\ WF_vars(ServerStep)

-----------------------------------------------------------------------------
\* The buffers hold symbols, and a session is open exactly while the server is
\* past accept.
TypeOK ==
  /\ backlog \in Seq(Clients)
  /\ client_pc \in [Clients -> {"new", "idle", "waiting", "closed", "left"}]
  /\ up \in [Clients -> Seq(Symbols)]
  /\ server_pc \in {"accept", "get_request", "receive_message",
                    "send_response", "killed"}
  /\ current \in Clients \cup {NoClient}
  /\ server_pc = "accept" <=> current = NoClient
  /\ cache_ \in Seq(Symbols) /\ input \in Seq(Symbols)
  /\ length \in Nat
  /\ taint \in {"none", "cache", "stream"}

\* Whenever a request is awaited cache_ is empty, unless an earlier session
\* ended on an empty line; a session that ends any other way leaves nothing to
\* the next (server.cc:270, 304, 315).
CacheBetweenRequests ==
  server_pc \in {"accept", "get_request"} /\ cache_ # <<>> => taint = "cache"

\* A message is stored under the client that put it and as it was typed, or
\* empty when the client left before all of it had arrived, unless bytes that
\* an earlier session left in the shared cache_ had a part in its reading.
Whole(k) == WithoutLastNewline(Body(k, typed[k].lines))
StoredUnlessTainted ==
  \A i \in DOMAIN messages :
    \/ messages[i].tainted
    \/ messages[i].contents = <<>> /\ client_pc[messages[i].by] = "left"
    \/ \E k \in DOMAIN typed :
         typed[k].by = messages[i].by /\ messages[i].contents = Whole(k)

\* The server answers a client only what that client has asked and waits for,
\* and nothing twice: no part of a message is taken for a request of its own,
\* unless bytes of an earlier session had a part in the reading of this one.
AnswersAreAsked ==
  server_pc = "send_response" =>
    client_pc[current] \in {"waiting", "left"} \/ taint = "stream"

\* One session at a time: if every client that is being served leaves some
\* day, every client that has connected is accepted, unless the server was
\* killed by SIGPIPE before.
InBacklog(c) == \E i \in DOMAIN backlog : backlog[i] = c
EveryoneLeaves ==
  \A c \in Clients : (current = c) ~> (client_pc[c] = "left" \/ current # c)
ConnectedIsAccepted ==
  EveryoneLeaves =>
    \A c \in Clients :
      InBacklog(c) ~> (~InBacklog(c) \/ server_pc = "killed")
=============================================================================
