--------------------------- MODULE ClientBuffer ---------------------------
(***************************************************************************)
(* What the producer and the consumers of the threaded messaging server    *)
(* (lab2-threaded-ms/server.cc) promise one another: a bounded first-in    *)
(* first-out buffer of accepted connections.  No semaphore appears here.   *)
(* A connection enters once, leaves once, to one idle worker, and in the   *)
(* order of entry; at most QueueSize connections wait.                     *)
(***************************************************************************)
EXTENDS Naturals, Sequences

CONSTANTS
  Workers,     \* the worker threads
  Clients,     \* the connections
  QueueSize,   \* the greatest number of waiting connections
  NoClient     \* what an idle worker holds

VARIABLES
  waiting,     \* the connections in the buffer, oldest first
  entered,     \* every connection that has ever entered the buffer
  held         \* held[w]: the connection worker w serves, or NoClient

vars == <<waiting, entered, held>>

Init ==
  /\ waiting = <<>>
  /\ entered = {}
  /\ held = [w \in Workers |-> NoClient]

Enqueue(c) ==
  /\ c \notin entered
  /\ Len(waiting) < QueueSize
  /\ waiting' = Append(waiting, c)
  /\ entered' = entered \cup {c}
  /\ UNCHANGED held

Dequeue(w) ==
  /\ held[w] = NoClient
  /\ waiting # <<>>
  /\ held' = [held EXCEPT ![w] = Head(waiting)]
  /\ waiting' = Tail(waiting)
  /\ UNCHANGED entered

Release(w) ==
  /\ held[w] # NoClient
  /\ held' = [held EXCEPT ![w] = NoClient]
  /\ UNCHANGED <<waiting, entered>>

Next ==
  \/ \E c \in Clients : Enqueue(c)
  \/ \E w \in Workers : Dequeue(w) \/ Release(w)

Spec == Init /\ [][Next]_vars
=============================================================================
