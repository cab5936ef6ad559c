---------------------------- MODULE SharedStore ----------------------------
(***************************************************************************)
(* The workers of the threaded messaging server on the shared message map  *)
(* (lab2-threaded-ms/client-handler.cc).  Each worker runs handle() for    *)
(* its client: it reads a request, for a put it reads the message as well, *)
(* and it works on the map between sem_wait and sem_post of the semaphore  *)
(* message_map_lock.  The find of a name, the access through the iterator  *)
(* it returned and every clear() of a reset are steps of their own.        *)
(*                                                                         *)
(* How bytes make up requests is the matter of other modules; here a       *)
(* request and a message arrive whole, or the client is gone.              *)
(***************************************************************************)
EXTENDS MessageStore

CONSTANTS
  Workers,
  NoRequest,
  NoReply

ASSUME NoRequestAssumption == NoRequest \notin Requests
ASSUME NoReplyAssumption ==
  /\ NoReply \notin {OK, NoSuchUser, NoSuchMessage, MalformedNumber,
                     TooFewArguments, InvalidCommand}
  /\ NoReply \notin [kind : {"list"}, ids : Seq(Messages)]
  /\ NoReply \notin [kind : {"message"}, entry : Entry]

VARIABLES
  message_map,
  message_map_lock,
  pc,          \* pc[w]: where worker w is in handle()
  request,     \* request[w]: the request it handles
  contents,    \* contents[w]: receive_message returned the message, not ""
  found,       \* found[w]: the iterator of find() is not end()
  walk,        \* walk[w]: names a reset still has to clear
  response,    \* response[w]: its local variable response
  gone,        \* workers whose client has closed the connection or died
  sent         \* messages put so far: every put carries a message of its own

environment == <<gone, sent>>
locals == <<request, contents, found, walk, response>>
vars == <<message_map, message_map_lock, pc, locals, environment>>

Init ==
  /\ message_map = EmptyStore
  /\ message_map_lock = 1
  /\ pc = [w \in Workers |-> "get_request"]
  /\ request = [w \in Workers |-> NoRequest]
  /\ contents = [w \in Workers |-> FALSE]
  /\ found = [w \in Workers |-> FALSE]
  /\ walk = [w \in Workers |-> {}]
  /\ response = [w \in Workers |-> NoReply]
  /\ gone = {}
  /\ sent = {}

Goes(w, from, to) ==
  /\ pc[w] = from
  /\ pc' = [pc EXCEPT ![w] = to]

-----------------------------------------------------------------------------
(* The client.                                                             *)

PeerLeaves(w) ==
  /\ pc[w] # "get_request"
  /\ gone' = gone \cup {w}
  /\ UNCHANGED <<message_map, message_map_lock, pc, locals, sent>>

-----------------------------------------------------------------------------
(* handle() and handle_request(), up to the critical section.              *)

\* A put is read to its end and a number in it is checked before the lock is
\* taken; the others go for the lock at once, or are refused.
Dispatch(r) ==
  CASE r.op = "put" -> IF Malformed(r.length) THEN "refuse" ELSE "receive"
    [] r.op \in {"list", "get", "reset"} -> "sem_wait"
    [] OTHER -> "refuse"

GetRequest(w, r) ==
  /\ Goes(w, "get_request", Dispatch(r))
  /\ request' = [request EXCEPT ![w] = r]
  /\ r.op = "put" => r.id \notin sent
  /\ sent' = IF r.op = "put" THEN sent \cup {r.id} ELSE sent
  /\ UNCHANGED <<message_map, message_map_lock, contents, found, walk,
                 response, gone>>

Refuse(w) ==
  /\ Goes(w, "refuse", "send_response")
  /\ response' =
       [response EXCEPT ![w] =
          IF request[w].op = "put" THEN MalformedNumber ELSE Refusal(request[w])]
  /\ UNCHANGED <<message_map, message_map_lock, request, contents, found,
                 walk, environment>>

\* receive_message() returns the message, or "" when recv finds the
\* connection closed or broken before the message is complete.
Receive(w) ==
  /\ Goes(w, "receive", "sem_wait")
  /\ \E whole \in BOOLEAN :
       /\ whole \/ w \in gone
       /\ contents' = [contents EXCEPT ![w] = whole]
  /\ UNCHANGED <<message_map, message_map_lock, request, found, walk,
                 response, environment>>

-----------------------------------------------------------------------------
(* The critical section.                                                   *)

\* A variant in which only those who change the map wait for the lock.
OnlyWritersWait(w) ==
  /\ pc[w] = "sem_wait"
  /\ request[w].op \in {"put", "reset"} => message_map_lock > 0
  /\ message_map_lock' =
       IF message_map_lock > 0 THEN message_map_lock - 1 ELSE 0
  /\ Goes(w, "sem_wait", IF request[w].op = "reset" THEN "begin" ELSE "find")
  /\ UNCHANGED <<message_map, locals, environment>>

SemWait(w) ==
  /\ pc[w] = "sem_wait"
  /\ message_map_lock > 0
  /\ message_map_lock' = message_map_lock - 1
  /\ Goes(w, "sem_wait", IF request[w].op = "reset" THEN "begin" ELSE "find")
  /\ UNCHANGED <<message_map, locals, environment>>

Find(w) ==
  /\ Goes(w, "find", "access")
  /\ found' = [found EXCEPT ![w] = message_map[request[w].name] # NoUser]
  /\ UNCHANGED <<message_map, message_map_lock, request, contents, walk,
                 response, environment>>

NewEntry(w) == EntryOf(request[w], contents[w])

\* A variant without the else: a new name gets its message twice.
PutFallsThrough(w) ==
  /\ Goes(w, "access", "sem_post")
  /\ request[w].op = "put"
  /\ message_map' =
       push_back(insert(message_map, request[w].name, NewEntry(w)),
                 request[w].name, NewEntry(w))
  /\ UNCHANGED <<message_map_lock, locals, environment>>

\* push_back through the iterator if the name was found, else an insert.
Put(w) ==
  /\ Goes(w, "access", "sem_post")
  /\ request[w].op = "put"
  /\ message_map' =
       IF found[w] THEN push_back(message_map, request[w].name, NewEntry(w))
       ELSE insert(message_map, request[w].name, NewEntry(w))
  /\ UNCHANGED <<message_map_lock, locals, environment>>

List(w) ==
  /\ Goes(w, "access", "sem_post")
  /\ request[w].op = "list"
  /\ response' =
       [response EXCEPT ![w] =
          IF found[w] THEN ListReply(message_map, request[w].name)
          ELSE NoSuchUser]
  /\ UNCHANGED <<message_map, message_map_lock, request, contents, found,
                 walk, environment>>

\* Variants of the path of the exception: one returns before sem_post, one
\* posts on its own account and then with the others.
ThrowKeepsLock(w) ==
  /\ pc[w] = "access"
  /\ request[w].op = "get"
  /\ response' =
       [response EXCEPT ![w] =
          IF found[w]
          THEN GetReply(message_map, request[w].name, request[w].index)
          ELSE NoSuchUser]
  /\ Goes(w, "access", IF response'[w] = NoSuchMessage
                       THEN "send_response" ELSE "sem_post")
  /\ UNCHANGED <<message_map, message_map_lock, request, contents, found,
                 walk, environment>>
ThrowPostsTwice(w) ==
  /\ Goes(w, "access", "sem_post")
  /\ request[w].op = "get"
  /\ response' =
       [response EXCEPT ![w] =
          IF found[w]
          THEN GetReply(message_map, request[w].name, request[w].index)
          ELSE NoSuchUser]
  /\ message_map_lock' =
       message_map_lock + (IF response'[w] = NoSuchMessage THEN 1 ELSE 0)
  /\ UNCHANGED <<message_map, request, contents, found, walk, environment>>

\* The exception of at() is caught, so sem_post is reached in every case.
Retrieve(w) ==
  /\ Goes(w, "access", "sem_post")
  /\ request[w].op = "get"
  /\ response' =
       [response EXCEPT ![w] =
          IF found[w]
          THEN GetReply(message_map, request[w].name, request[w].index)
          ELSE NoSuchUser]
  /\ UNCHANGED <<message_map, message_map_lock, request, contents, found,
                 walk, environment>>

\* begin() of the walk over the keys; with no key there is nothing to clear.
BeginReset(w) ==
  /\ walk' = [walk EXCEPT ![w] = {n \in Names : message_map[n] # NoUser}]
  /\ Goes(w, "begin", IF walk'[w] = {} THEN "sem_post" ELSE "clear")
  /\ UNCHANGED <<message_map, message_map_lock, request, contents, found,
                 response, environment>>

\* One turn of the loop.  The keys are walked in their order in the map; any
\* order is allowed here.
Clear(w) ==
  \E n \in walk[w] :
    /\ message_map' = ClearName(message_map, n)
    /\ walk' = [walk EXCEPT ![w] = @ \ {n}]
    /\ Goes(w, "clear", IF walk'[w] = {} THEN "sem_post" ELSE "clear")
    /\ UNCHANGED <<message_map_lock, request, contents, found, response,
                   environment>>

SemPost(w) ==
  /\ Goes(w, "sem_post", "send_response")
  /\ message_map_lock' = message_map_lock + 1
  /\ response' =
       IF request[w].op \in {"put", "reset"}
       THEN [response EXCEPT ![w] = OK] ELSE response
  /\ UNCHANGED <<message_map, request, contents, found, walk, environment>>

-----------------------------------------------------------------------------
\* The answer goes to the client, or the client is gone and the worker takes
\* the next one.  The local variables of this turn of the loop die.
SendResponse(w) ==
  /\ Goes(w, "send_response", "get_request")
  /\ request' = [request EXCEPT ![w] = NoRequest]
  /\ contents' = [contents EXCEPT ![w] = FALSE]
  /\ found' = [found EXCEPT ![w] = FALSE]
  /\ response' = [response EXCEPT ![w] = NoReply]
  /\ gone' = gone \ {w}
  /\ UNCHANGED <<message_map, message_map_lock, walk, sent>>

InLock(w) ==
  \/ Find(w) \/ Put(w) \/ List(w) \/ Retrieve(w)
  \/ BeginReset(w) \/ Clear(w) \/ SemPost(w)

Next ==
  \E w \in Workers :
    \/ \E r \in Requests : GetRequest(w, r)
    \/ PeerLeaves(w)
    \/ Refuse(w) \/ Receive(w) \/ SemWait(w)
    \/ InLock(w)
    \/ SendResponse(w)

Spec == Init /\ [][Next]_vars

\* A thread that can run is run.  No client is obliged to send anything, and
\* sem_wait may be overtaken for ever.
FairSpec == Spec /\ \A w \in Workers : WF_vars(SemWait(w)) /\ WF_vars(InLock(w))

-----------------------------------------------------------------------------
Pc == {"get_request", "refuse", "receive", "sem_wait", "find", "access",
       "begin", "clear", "sem_post", "send_response"}

Replies ==
  {NoReply, OK, NoSuchUser, NoSuchMessage, MalformedNumber, TooFewArguments,
   InvalidCommand}
    \cup [kind : {"list"}, ids : Seq(Messages)]
    \cup [kind : {"message"}, entry : Entry]

\* The lock is a binary semaphore, and a worker has a request exactly while it
\* is past get_request.
TypeOK ==
  /\ message_map \in Stores
  /\ message_map_lock \in {0, 1}
  /\ pc \in [Workers -> Pc]
  /\ request \in [Workers -> Requests \cup {NoRequest}]
  /\ contents \in [Workers -> BOOLEAN]
  /\ found \in [Workers -> BOOLEAN]
  /\ walk \in [Workers -> SUBSET Names]
  /\ response \in [Workers -> Replies]
  /\ gone \subseteq Workers
  /\ sent \subseteq Messages
  /\ \A w \in Workers : request[w] = NoRequest <=> pc[w] = "get_request"

Inside(w) == pc[w] \in {"find", "access", "begin", "clear", "sem_post"}

\* README of lab2, message_map_lock_: one thread at a time works on the map,
\* and the semaphore is down exactly while one does.
MapExclusive ==
  /\ \A v, w \in Workers : Inside(v) /\ Inside(w) => v = w
  /\ message_map_lock = 0 <=> \E w \in Workers : Inside(w)

\* What find() said still holds when the iterator is used, and what begin()
\* of a reset saw is what the walk still goes over: no other request changes
\* the map in between (client-handler.cc:81-90, 102-111, 124-134, 154-158).
IteratorValid ==
  \A w \in Workers :
    /\ pc[w] = "access" =>
         (found[w] <=> message_map[request[w].name] # NoUser)
    /\ \A n \in walk[w] : message_map[n] # NoUser

\* A message is stored at most once, however puts of several clients for a
\* new name race between find() and insert().
Places(n) == IF message_map[n] = NoUser THEN {} ELSE DOMAIN message_map[n]
StoredOnce ==
  \A n, o \in Names : \A i \in Places(n), j \in Places(o) :
    message_map[n][i].id = message_map[o][j].id => n = o /\ i = j

\* A number that list showed stays good: a step removes no name and moves no
\* message, except that a reset empties an entry.
Extends(s, t) == Len(s) <= Len(t) /\ \A i \in DOMAIN s : t[i] = s[i]
IndexStable ==
  [][\A n \in Names :
       message_map[n] # NoUser =>
         /\ message_map'[n] # NoUser
         /\ \/ Extends(message_map[n], message_map'[n])
            \/ message_map'[n] = <<>> /\ \E w \in Workers : n \in walk[w]]_vars

\* The map is never locked for good: a worker inside leaves whatever its
\* request and its client do, and no worker waits for a client inside.
LockReleased == (message_map_lock = 0) ~> (message_map_lock = 1)

-----------------------------------------------------------------------------
(* The code implements the atomic store.  A put takes effect at push_back  *)
(* or insert, a list or get when it copies the entry, a refused request    *)
(* when its answer is made, and a reset all at once at begin(): the names  *)
(* it has not cleared yet already count as empty.                          *)

AbstractMap ==
  [n \in Names |-> IF \E w \in Workers : n \in walk[w]
                   THEN <<>> ELSE message_map[n]]
AbstractReply ==
  [w \in Workers |->
     CASE pc[w] = "clear" -> OK
       [] pc[w] = "sem_post" ->
            IF request[w].op \in {"put", "reset"} THEN OK ELSE response[w]
       [] pc[w] = "send_response" -> response[w]
       [] OTHER -> NoReply]

Atomic == INSTANCE AtomicStore
            WITH store <- AbstractMap, reply <- AbstractReply
ImplementsAtomicStore == Atomic!Spec
=============================================================================
