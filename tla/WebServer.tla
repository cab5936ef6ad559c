----------------------------- MODULE WebServer -----------------------------
(***************************************************************************)
(* The event loop of the web server, lab4-webserver/server.py: one thread  *)
(* polls the listening socket and those of the clients, accepts, receives  *)
(* requests into a cache for each descriptor, and answers.                 *)
(*                                                                         *)
(* A request is three symbols: its lines, and the two halves of the blank  *)
(* line that ends it; between them it may be cut anywhere on its way.  What *)
(* the answer says is the matter of HttpExchange: here it is the message   *)
(* that processHTTP() was given, and its length.                           *)
(*                                                                         *)
(* Clients send when they like, several requests ahead if they like, and   *)
(* close their connections or break them at any moment.                    *)
(***************************************************************************)
EXTENDS Naturals, Sequences, FiniteSets

CONSTANTS
  Conns,          \* connections that clients make
  MaxRequests,    \* MaxRequests[c]: how many requests c may send
  Descriptors,    \* numbers left for the sockets of clients
  Listener,       \* the number of the listening socket: self.server.fileno()
  Size,           \* symbols that one recv takes: self.size
  ResponseSize,   \* units of an answer
  SendSpace,      \* units that the kernel keeps for a client that does not read
  Nobody          \* no descriptor

ASSUME DescriptorsAssumption ==
  Descriptors \subseteq Nat /\ Listener \in Nat \ Descriptors /\ Nobody \notin Nat
ASSUME SizesAssumption ==
  MaxRequests \in [Conns -> Nat] /\ {Size, ResponseSize, SendSpace} \subseteq Nat \ {0}

VARIABLES
  \* clients and network
  peer,           \* peer[c]: "new", "open", "closed" or "reset"
  sent,           \* sent[c]: symbols of its requests that have arrived
  inbox,          \* inbox[c]: of these, the ones that were not received
  unread,         \* unread[c]: units of answers the client has not read
  backlog,        \* connections made and not yet accepted
  listener,       \* the listening socket is "up" or has "failed"
  \* the server
  pc,             \* where run() is
  clients,        \* self.clients, by descriptor
  poller,         \* descriptors of clients registered with the poller
  cache,          \* self.cache, by descriptor
  last_event,     \* descriptors that have an entry in self.last_event
  idle,           \* in the sweep: clients whose entry is older than the timeout
  events,         \* what is left of the loop over the events
  fd,             \* the client in handleClient()
  left,           \* units of the answer to be sent
  \* history
  answered,       \* answered[c]: the messages processed
  torn            \* connections of which some recv was not just one request

environment == <<peer, sent, inbox, unread, backlog, listener>>
tables == <<clients, poller, cache, last_event, idle>>
history == <<answered, torn>>
vars == <<environment, pc, tables, events, fd, left, history>>

Init ==
  /\ peer = [c \in Conns |-> "new"]
  /\ sent = [c \in Conns |-> 0]
  /\ inbox = [c \in Conns |-> <<>>]
  /\ unread = [c \in Conns |-> 0]
  /\ backlog = <<>>
  /\ listener = "up"
  /\ pc = "top"
  /\ clients = <<>>
  /\ poller = {}
  /\ cache = [d \in Descriptors |-> <<>>]
  /\ last_event = {}
  /\ idle = {}
  /\ events = {}
  /\ fd = Nobody
  /\ left = 0
  /\ answered = [c \in Conns |-> <<>>]
  /\ torn = {}

-----------------------------------------------------------------------------
(* Requests.                                                               *)

HalfBlankLine == [half |-> "CRLF"]
Lines(c, k) == [of |-> c, number |-> k]

\* The requests of a client, one after the other.
AllRequests(c) ==
  [i \in 1..(3 * MaxRequests[c]) |->
     IF i % 3 = 1 THEN Lines(c, (i + 2) \div 3) ELSE HalfBlankLine]
Request(c, k) == SubSeq(AllRequests(c), 3 * k - 2, 3 * k)

\* A variant that finds the end of a line.
LineEnds(data) ==
  {i \in 0..(Len(data) - 1) : data[i + 1] = HalfBlankLine}

\* data.find('\r\n\r\n') is the least of these: how many symbols stand before
\* it.
BlankLines(data) ==
  {i \in 0..(Len(data) - 2) :
     data[i + 1] = HalfBlankLine /\ data[i + 2] = HalfBlankLine}
Least(S) == {i \in S : \A j \in S : i <= j}

-----------------------------------------------------------------------------
(* The clients and the network.                                            *)

Connect(c) ==
  /\ peer[c] = "new"
  /\ peer' = [peer EXCEPT ![c] = "open"]
  /\ backlog' = Append(backlog, c)
  /\ UNCHANGED <<sent, inbox, unread, listener, pc, tables, events, fd,
                 left, history>>

\* Some more of the requests of the client arrives.
Ask(c) ==
  /\ peer[c] = "open"
  /\ \E n \in (sent[c] + 1)..(3 * MaxRequests[c]) :
       /\ sent' = [sent EXCEPT ![c] = n]
       /\ inbox' = [inbox EXCEPT ![c] = @ \o SubSeq(AllRequests(c), sent[c] + 1, n)]
  /\ UNCHANGED <<peer, unread, backlog, listener, pc, tables, events, fd, left,
                 history>>

Read(c) ==
  /\ unread[c] > 0
  /\ unread' = [unread EXCEPT ![c] = 0]
  /\ UNCHANGED <<peer, sent, inbox, backlog, listener, pc, tables,
                 events, fd, left, history>>

\* What has arrived of a connection that is closed can still be received; of
\* one that is broken it cannot.
Leave(c) ==
  /\ \/ /\ peer[c] = "open"
        /\ peer' = [peer EXCEPT ![c] = "closed"]
        /\ UNCHANGED inbox
     \/ /\ peer[c] \in {"open", "closed"}
        /\ peer' = [peer EXCEPT ![c] = "reset"]
        /\ inbox' = [inbox EXCEPT ![c] = <<>>]
  /\ unread' = [unread EXCEPT ![c] = 0]
  /\ UNCHANGED <<sent, backlog, listener, pc, tables, events, fd, left, history>>

ListenerFails ==
  /\ listener = "up"
  /\ listener' = "failed"
  /\ UNCHANGED <<peer, sent, inbox, unread, backlog, pc, tables, events,
                 fd, left, history>>

-----------------------------------------------------------------------------
(* run().                                                                  *)

Goes(from, to) == pc = from /\ pc' = to

\* An exception that nobody catches: the process ends.
Raises(from) ==
  /\ Goes(from, "raised")
  /\ UNCHANGED <<environment, tables, events, fd, left, history>>

\* Every three seconds the sockets are swept.
Top ==
  /\ \/ Goes("top", "sweep") /\ idle' \in SUBSET (last_event \cap DOMAIN clients)
     \/ Goes("top", "poll") /\ UNCHANGED idle
  /\ UNCHANGED <<environment, clients, poller, cache, last_event, events, fd,
                 left, history>>

\* markAndSweepIdleSockets(): the timeout is the string of web.conf, and a
\* number never exceeds a string; were it to, what is closed is a number, and
\* the exception is caught.
Sweep ==
  /\ Goes("sweep", "poll")
  /\ idle' = {}
  /\ UNCHANGED <<environment, clients, poller, cache, last_event, events, fd,
                 left, history>>

ListenerEvent == [of |-> Listener, error |-> listener = "failed"]
ClientEvent(d) == [of |-> d, error |-> peer[clients[d]] = "reset"]
Ready(d) == inbox[clients[d]] # <<>> \/ peer[clients[d]] # "open"

Poll ==
  /\ Goes("poll", "events")
  /\ events' = {ClientEvent(d) : d \in {e \in poller : Ready(e)}}
                 \cup (IF backlog # <<>> \/ listener = "failed"
                       THEN {ListenerEvent} ELSE {})
  /\ UNCHANGED <<environment, tables, fd, left, history>>

\* poll() is interrupted: run() returns.
PollFails ==
  /\ Goes("poll", "returned")
  /\ UNCHANGED <<environment, tables, events, fd, left, history>>

NoMoreEvents ==
  /\ Goes("events", "top")
  /\ events = {}
  /\ UNCHANGED <<environment, tables, events, fd, left, history>>

\* Line 88, for an event of a client.
Noted(d) == last_event' = last_event \cup {d}

-----------------------------------------------------------------------------
(* handleError(), handleServer().                                          *)

Without(f, d) == [e \in DOMAIN f \ {d} |-> f[e]]

\* A variant that forgets to take the client out of self.clients.
ErrorKeepsClient(e) ==
  /\ e.error /\ e.of # Listener
  /\ Goes("events", "events")
  /\ events' = events \ {e}
  /\ Noted(e.of)
  /\ poller' = poller \ {e.of}
  /\ UNCHANGED <<environment, idle, clients, cache, fd, left, history>>

ClientError(e) ==
  /\ e.error /\ e.of # Listener
  /\ Goes("events", "events")
  /\ events' = events \ {e}
  /\ Noted(e.of)
  /\ poller' = poller \ {e.of}
  /\ clients' = Without(clients, e.of)
  /\ UNCHANGED <<environment, idle, cache, fd, left, history>>

\* The listening socket is closed and made anew, with the same number, which
\* is the lowest that is free: who waited to be accepted is turned away.
ListenerError(e) ==
  /\ e.error /\ e.of = Listener
  /\ Goes("events", "events")
  /\ events' = events \ {e}
  /\ listener' = "up"
  /\ backlog' = <<>>
  /\ LET waiting == {backlog[i] : i \in DOMAIN backlog} IN
     /\ peer' = [c \in Conns |-> IF c \in waiting THEN "reset" ELSE peer[c]]
     /\ inbox' = [c \in Conns |-> IF c \in waiting THEN <<>> ELSE inbox[c]]
  /\ UNCHANGED <<sent, unread, tables, fd, left, history>>

\* open_socket() cannot bind or listen: the process ends.
ListenerLost(e) ==
  /\ e.error /\ e.of = Listener
  /\ Raises("events")

Free == Descriptors \ DOMAIN clients

\* Variants: one does not empty the cache of the descriptor, one does not
\* register the client.
AcceptKeepsCache(e) ==
  /\ ~e.error /\ e.of = Listener
  /\ listener = "up" /\ backlog # <<>>
  /\ Goes("events", "events")
  /\ events' = events \ {e}
  /\ \E d \in Least(Free) :
       /\ clients' = [c \in DOMAIN clients \cup {d} |->
                        IF c = d THEN Head(backlog) ELSE clients[c]]
       /\ poller' = poller \cup {d}
  /\ backlog' = Tail(backlog)
  /\ UNCHANGED <<peer, sent, inbox, unread, listener, last_event, idle, cache, fd,
                 left, history>>

AcceptUnregistered(e) ==
  /\ ~e.error /\ e.of = Listener
  /\ listener = "up" /\ backlog # <<>>
  /\ Goes("events", "events")
  /\ events' = events \ {e}
  /\ \E d \in Least(Free) :
       /\ clients' = [c \in DOMAIN clients \cup {d} |->
                        IF c = d THEN Head(backlog) ELSE clients[c]]
       /\ cache' = [cache EXCEPT ![d] = <<>>]
  /\ backlog' = Tail(backlog)
  /\ UNCHANGED <<peer, sent, inbox, unread, listener, last_event, idle, poller, fd,
                 left, history>>

Accept(e) ==
  /\ ~e.error /\ e.of = Listener
  /\ listener = "up" /\ backlog # <<>>
  /\ Goes("events", "events")
  /\ events' = events \ {e}
  /\ \E d \in Least(Free) :
       /\ clients' = [c \in DOMAIN clients \cup {d} |->
                        IF c = d THEN Head(backlog) ELSE clients[c]]
       /\ cache' = [cache EXCEPT ![d] = <<>>]
       /\ poller' = poller \cup {d}
  /\ backlog' = Tail(backlog)
  /\ UNCHANGED <<peer, sent, inbox, unread, listener, last_event, idle, fd,
                 left, history>>

\* Every descriptor is taken, or the socket has failed since poll().
AcceptFails(e) ==
  /\ ~e.error /\ e.of = Listener
  /\ listener = "failed" \/ Free = {}
  /\ Raises("events")

-----------------------------------------------------------------------------
(* handleClient().                                                         *)

Begin(e) ==
  /\ ~e.error /\ e.of # Listener
  /\ Goes("events", "recv")
  /\ events' = events \ {e}
  /\ Noted(e.of)
  /\ fd' = e.of
  /\ UNCHANGED <<environment, idle, clients, poller, cache, left, history>>

\* What recv() takes, and what is then in the cache.
Conn == clients[fd]
Taken == IF Len(inbox[Conn]) <= Size THEN Len(inbox[Conn]) ELSE Size
Data == SubSeq(inbox[Conn], 1, Taken)
AllData == cache[fd] \o Data

Receive ==
  /\ inbox[Conn] # <<>>
  /\ inbox' = [inbox EXCEPT ![Conn] = SubSeq(@, Taken + 1, Len(@))]
  /\ UNCHANGED <<peer, sent, unread, backlog, listener, clients, poller,
                 last_event, idle, events, fd>>

\* No blank line in the data: once more around the loop.
ReceivePart ==
  /\ Goes("recv", "recv")
  /\ Receive
  /\ BlankLines(Data) = {}
  /\ cache' = [cache EXCEPT ![fd] = AllData]
  /\ torn' = torn \cup {Conn}
  /\ UNCHANGED <<left, answered>>

\* The place of the blank line in the data is used as its place in the cache.
ReceiveRequest ==
  /\ Goes("recv", "send")
  /\ Receive
  /\ \E i \in Least(BlankLines(Data)) :
       /\ cache' = [cache EXCEPT ![fd] = SubSeq(AllData, i + 1, Len(AllData))]
       /\ answered' = [answered EXCEPT ![Conn] = Append(@, SubSeq(AllData, 1, i))]
  /\ torn' = IF \E k \in 1..MaxRequests[Conn] : Data = Request(Conn, k)
             THEN torn ELSE torn \cup {Conn}
  /\ left' = ResponseSize

\* A variant that goes on with a client that it has closed.
EndGoesOn ==
  /\ Goes("recv", "recv")
  /\ inbox[Conn] = <<>> /\ peer[Conn] = "closed"
  /\ poller' = poller \ {fd}
  /\ clients' = Without(clients, fd)
  /\ UNCHANGED <<environment, cache, last_event, idle, events, fd, left, history>>

\* recv() returns nothing: the client has closed the connection.
EndOfClient ==
  /\ Goes("recv", "events")
  /\ inbox[Conn] = <<>> /\ peer[Conn] = "closed"
  /\ poller' = poller \ {fd}
  /\ clients' = Without(clients, fd)
  /\ fd' = Nobody
  /\ UNCHANGED <<environment, cache, last_event, idle, events, left, history>>

\* There is nothing to receive yet: recv() does not return EAGAIN but raises.
WouldBlock ==
  /\ Raises("recv")
  /\ inbox[Conn] = <<>> /\ peer[Conn] = "open"

ReceiveFails ==
  /\ Raises("recv")
  /\ peer[Conn] = "reset"

\* processHTTP() raises an exception that is not among those it catches.
ProcessFails ==
  /\ Raises("recv")
  /\ BlankLines(Data) # {}

\* What is done when the whole answer is sent, and before.
Sent(n) ==
  /\ left' = left - n
  /\ IF n = left
     THEN /\ pc' = "events"
          /\ fd' = Nobody
          /\ cache' = [cache EXCEPT ![fd] = <<>>]
     ELSE UNCHANGED <<pc, fd, cache>>
  /\ UNCHANGED <<sent, backlog, listener, clients, poller, last_event, idle, events,
                 history>>

\* Variants: one leaves what it had of the answered request in the cache, one
\* stops at an error.
SendKeepsCache ==
  /\ pc = "send" /\ peer[Conn] = "open"
  /\ \E n \in 1..left :
       /\ unread[Conn] + n <= SendSpace
       /\ unread' = [unread EXCEPT ![Conn] = @ + n]
       /\ left' = left - n
       /\ IF n = left THEN pc' = "events" /\ fd' = Nobody ELSE UNCHANGED <<pc, fd>>
  /\ UNCHANGED <<peer, inbox, sent, backlog, listener, tables, events,
                 history>>
SendStopsAtError ==
  /\ pc = "send"
  /\ \/ /\ peer[Conn] = "open"
        /\ \E n \in 1..left :
             /\ unread[Conn] + n <= SendSpace
             /\ unread' = [unread EXCEPT ![Conn] = @ + n]
             /\ Sent(n)
     \/ /\ peer[Conn] = "reset"
        /\ Sent(left)
        /\ UNCHANGED unread
  /\ UNCHANGED <<peer, inbox>>

\* send() to a client that is there takes what the kernel has space for; when
\* it has none, and when the connection is broken, send() raises and is tried
\* again at once, which is no step.
Send ==
  /\ pc = "send" /\ peer[Conn] = "open"
  /\ \E n \in 1..left :
       /\ unread[Conn] + n <= SendSpace
       /\ unread' = [unread EXCEPT ![Conn] = @ + n]
       /\ Sent(n)
  /\ UNCHANGED <<peer, inbox>>

\* A variant that sends the answer from its beginning each time.
SendWhole ==
  /\ pc = "send" /\ peer[Conn] = "closed"
  /\ \E n \in 1..ResponseSize : Sent(n)
  /\ peer' = [peer EXCEPT ![Conn] = "reset"]
  /\ inbox' = [inbox EXCEPT ![Conn] = <<>>]
  /\ UNCHANGED unread

\* To a client that has closed the connection the kernel sends, and learns
\* from its answer that the connection is broken.
SendToClosed ==
  /\ pc = "send" /\ peer[Conn] = "closed"
  /\ \E n \in 1..left : Sent(n)
  /\ peer' = [peer EXCEPT ![Conn] = "reset"]
  /\ inbox' = [inbox EXCEPT ![Conn] = <<>>]
  /\ UNCHANGED unread

-----------------------------------------------------------------------------
Handle(e) ==
  \/ ClientError(e) \/ ListenerError(e) \/ ListenerLost(e)
  \/ Accept(e) \/ AcceptFails(e) \/ Begin(e)
HandleClient ==
  \/ ReceivePart \/ ReceiveRequest \/ EndOfClient
  \/ WouldBlock \/ ReceiveFails \/ ProcessFails
  \/ Send \/ SendToClosed

Server ==
  \/ Top \/ Sweep \/ Poll \/ PollFails \/ NoMoreEvents
  \/ \E e \in events : Handle(e)
  \/ HandleClient
Environment ==
  \/ \E c \in Conns : Connect(c) \/ Ask(c) \/ Read(c) \/ Leave(c)
  \/ ListenerFails

Next == Server \/ Environment

Spec == Init /\ [][Next]_vars

\* The server is run.  What has been written need not arrive soon, and clients
\* need not read.
FairSpec == Spec /\ WF_vars(Server)
-----------------------------------------------------------------------------
(* Properties.                                                             *)

Symbols == {HalfBlankLine} \cup [of : Conns, number : Nat]

\* The variables keep their types.
TypeOK ==
  /\ peer \in [Conns -> {"new", "open", "closed", "reset"}]
  /\ sent \in [Conns -> Nat] /\ (\A c \in Conns : sent[c] <= 3 * MaxRequests[c])
  /\ inbox \in [Conns -> Seq(Symbols)]
  /\ unread \in [Conns -> 0..SendSpace]
  /\ backlog \in Seq(Conns) /\ listener \in {"up", "failed"}
  /\ pc \in {"top", "sweep", "poll", "events", "recv", "send", "returned", "raised"}
  /\ clients \in [DOMAIN clients -> Conns] /\ DOMAIN clients \subseteq Descriptors
  /\ poller \subseteq Descriptors
  /\ cache \in [Descriptors -> Seq(Symbols)]
  /\ last_event \subseteq Descriptors /\ idle \subseteq Descriptors
  /\ events \subseteq [of : Descriptors \cup {Listener}, error : BOOLEAN]
  /\ fd \in Descriptors \cup {Nobody}
  /\ left \in 0..ResponseSize
  /\ answered \in [Conns -> Seq(Seq(Symbols))]
  /\ torn \subseteq Conns

\* While a batch of events is handled, clients are closed and their numbers
\* given to others; no event that is left, and not the client in hand, ever
\* names a number that is not in self.clients (which would be a KeyError), and
\* accept(), which blocks, is only called when somebody waits.
EventsAreLive ==
  /\ \A e \in events :
       \/ e.of \in DOMAIN clients
       \/ e.of = Listener /\ (e.error \/ listener = "failed" \/ backlog # <<>>)
  /\ \A e, f \in events : e.of = f.of => e = f
  /\ pc \in {"recv", "send"} => fd \in DOMAIN clients /\ \A e \in events : e.of # fd

\* Each open connection has one descriptor, is registered, and is no longer
\* in the backlog: self.clients and the poller agree through errors, ends,
\* and the reuse of descriptors.
DescriptorsAreDistinct ==
  /\ poller = DOMAIN clients
  /\ \A d, e \in DOMAIN clients : clients[d] = clients[e] => d = e
  /\ \A i \in DOMAIN backlog : \A d \in DOMAIN clients : clients[d] # backlog[i]
  /\ \A i, j \in DOMAIN backlog : backlog[i] = backlog[j] => i = j

\* What is cached for a client, and what is processed for it, was sent by it:
\* nothing of a connection is left for the next one with its descriptor, or
\* comes from one that is served in the same batch.
By(c, s) == s = HalfBlankLine \/ s.of = c
AllBy(c, data) == \A i \in DOMAIN data : By(c, data[i])
AnswersAreOwn ==
  /\ \A d \in DOMAIN clients : AllBy(clients[d], cache[d])
  /\ \A c \in Conns : \A i \in DOMAIN answered[c] : AllBy(c, answered[c][i])

\* As long as each recv of a connection takes just one request, the requests
\* are processed whole, in order, and once.
WholeUnlessTorn ==
  \A c \in Conns \ torn :
    answered[c] = [k \in 1..Len(answered[c]) |-> <<Lines(c, k)>>]

\* However the requests are cut and run together, none gives two answers:
\* the cache is given up together with the rest of the data.
NoAnswerWithoutRequest ==
  \A c \in Conns : 3 * Len(answered[c]) <= sent[c]

\* Data that has arrived is received, or its connection ends, or the server
\* does.  It is supposed of the clients that they read their answers and do not
\* break connections, and of the network that the backlog stays.
EveryoneReads == \A c \in Conns : []<>(unread[c] = 0)
NobodyBreaks == \A c \in Conns : [](peer[c] # "reset")
Ended == pc \in {"returned", "raised"}
ArrivedIsReceived ==
  EveryoneReads /\ NobodyBreaks =>
    \A c \in Conns : inbox[c] # <<>> ~> (inbox[c] = <<>> \/ Ended)

\* Once the client that is being answered has broken its connection, the
\* server never again does anything for anybody: every error of send() is
\* answered by the same send().
GoneInHand == pc = "send" /\ peer[Conn] = "reset"
GoneClientStopsServer ==
  [][GoneInHand => GoneInHand' /\ UNCHANGED <<clients, poller, cache, events, answered>>]_vars

\* notes.txt: "For recv(), store whatever the client has sent previously in a
\* cache, and then stop handling that client and move on to the next one."
\* The exception that recv() raises when nothing has come ends the server.
MovesOn ==
  [][pc = "recv" /\ inbox[Conn] = <<>> /\ peer[Conn] = "open" /\ pc' # "recv"
       => pc' = "events"]_vars

\* README: "mark and sweep each socket, checking to see if it hasn't had an
\* event on it in the last 'timeout' seconds [...] If it has, [line 157], it is
\* closed."
SweepClosesIdle ==
  [][pc = "sweep" /\ pc' = "poll"
       => idle \cap DOMAIN clients' = {}]_vars
=============================================================================
