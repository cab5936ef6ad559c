---------------------------- MODULE AtomicStore ----------------------------
(***************************************************************************)
(* What the threads of the messaging server promise their clients: a       *)
(* linearizable message store.  Between the moment a worker has a request  *)
(* and the moment it answers, the whole request takes effect at one        *)
(* instant.  No lock and no iterator appears here.                         *)
(*                                                                         *)
(* Only a client that is gone before its message was read can leave an     *)
(* empty message behind.                                                   *)
(***************************************************************************)
EXTENDS MessageStore

CONSTANTS
  Workers,
  NoRequest,   \* a worker between two requests
  NoReply      \* a request that has not taken effect

VARIABLES
  store,
  request,     \* request[w]: the request worker w handles
  reply,       \* reply[w]: the answer, once the request has taken effect
  gone         \* the workers whose client has left

vars == <<store, request, reply, gone>>

Init ==
  /\ store = EmptyStore
  /\ request = [w \in Workers |-> NoRequest]
  /\ reply = [w \in Workers |-> NoReply]
  /\ gone = {}

Invoke(w, r) ==
  /\ request[w] = NoRequest
  /\ request' = [request EXCEPT ![w] = r]
  /\ UNCHANGED <<store, reply, gone>>

Leave(w) ==
  /\ gone' = gone \cup {w}
  /\ UNCHANGED <<store, request, reply>>

Execute(w, whole) ==
  /\ request[w] # NoRequest
  /\ reply[w] = NoReply
  /\ whole \/ w \in gone
  /\ store' = StoreAfter(store, request[w], whole)
  /\ reply' = [reply EXCEPT ![w] = ReplyTo(store, request[w])]
  /\ UNCHANGED <<request, gone>>

Respond(w) ==
  /\ reply[w] # NoReply
  /\ request' = [request EXCEPT ![w] = NoRequest]
  /\ reply' = [reply EXCEPT ![w] = NoReply]
  /\ gone' = gone \ {w}
  /\ UNCHANGED store

Next ==
  \E w \in Workers :
    \/ \E r \in Requests : Invoke(w, r)
    \/ Leave(w)
    \/ \E whole \in BOOLEAN : Execute(w, whole)
    \/ Respond(w)

Spec == Init /\ [][Next]_vars
=============================================================================
