---------------------------- MODULE ClientQueue ----------------------------
(***************************************************************************)
(* The producer and the consumers of the threaded messaging server,        *)
(* lab2-threaded-ms/server.cc: one thread runs serve(), which accepts      *)
(* connections and pushes them on the shared queue; each worker runs       *)
(* work(), which takes a connection from the queue and serves it until its *)
(* session ends.  Three counting semaphores coordinate them.               *)
(*                                                                         *)
(* A connection is identified with its descriptor.  That is sound because  *)
(* work() never closes a descriptor, so none is reused while the process   *)
(* lives; the descriptor table of the process, of which the server may     *)
(* still use FdLimit entries, therefore only fills up.                     *)
(***************************************************************************)
EXTENDS Naturals, Sequences, FiniteSets

CONSTANTS
  Workers,     \* the threads that run work()
  Clients,     \* the connections that may be made
  QueueSize,   \* client_queue_size_
  FdLimit,     \* descriptors the process can still open
  NoClient     \* an int that holds no descriptor yet

ASSUME WorkersAssumption == IsFiniteSet(Workers)
ASSUME QueueSizeAssumption == QueueSize \in Nat \ {0}
ASSUME FdLimitAssumption == FdLimit \in Nat
ASSUME NoClientAssumption == NoClient \notin Clients

VARIABLES
  backlog,        \* kernel: connections made and not yet accepted
  open,           \* kernel: connections the server holds a descriptor for
  client_queue,
  num_clients_in_queue,
  empty_spots_in_client_queue,
  client_queue_lock,
  serve_pc,       \* the next statement of serve()
  serve_client,   \* its local variable client
  work_pc,        \* work_pc[w]: the next statement of work() in thread w
  work_client,    \* work_client[w]: its local variable client
  process         \* "running", or "ended" when main has returned

kernel == <<backlog, open>>
semaphores ==
  <<num_clients_in_queue, empty_spots_in_client_queue, client_queue_lock>>
serving == <<serve_pc, serve_client>>
working == <<work_pc, work_client>>
vars == <<kernel, client_queue, semaphores, serving, working, process>>

Init ==
  /\ backlog = <<>>
  /\ open = {}
  /\ client_queue = <<>>
  /\ num_clients_in_queue = 0
  /\ empty_spots_in_client_queue = QueueSize
  /\ client_queue_lock = 1
  /\ serve_pc = "accept"
  /\ serve_client = NoClient
  /\ work_pc = [w \in Workers |-> "wait_num"]
  /\ work_client = [w \in Workers |-> NoClient]
  /\ process = "running"

-----------------------------------------------------------------------------
(* The environment: a connection completes in the kernel while the server  *)
(* socket listens, and waits in the kernel until it is accepted.           *)
Connect(c) ==
  /\ serve_pc # "returned"
  /\ c \notin open
  /\ \A i \in 1..Len(backlog) : backlog[i] # c
  /\ backlog' = Append(backlog, c)
  /\ UNCHANGED <<open, client_queue, semaphores, serving, working, process>>

-----------------------------------------------------------------------------
(* serve(), the producer.                                                  *)

Accept ==
  /\ serve_pc = "accept"
  /\ backlog # <<>>
  /\ Cardinality(open) < FdLimit
  /\ serve_client' = Head(backlog)
  /\ backlog' = Tail(backlog)
  /\ open' = open \cup {Head(backlog)}
  /\ serve_pc' = "wait_spot"
  /\ UNCHANGED <<client_queue, semaphores, working, process>>

\* A variant in which the loop goes on after a failed accept().
AcceptRetries ==
  /\ serve_pc = "accept"
  /\ Cardinality(open) >= FdLimit
  /\ serve_client' = NoClient
  /\ UNCHANGED <<kernel, client_queue, semaphores, serve_pc, working, process>>

\* accept() fails when no descriptor is left.  The loop of serve() ends on
\* the first failure, and closes the server socket.
AcceptFails ==
  /\ serve_pc = "accept"
  /\ Cardinality(open) >= FdLimit
  /\ serve_client' = NoClient
  /\ backlog' = <<>>
  /\ serve_pc' = "returned"
  /\ UNCHANGED <<open, client_queue, semaphores, working, process>>

ServeWaitSpot ==
  /\ serve_pc = "wait_spot"
  /\ empty_spots_in_client_queue > 0
  /\ empty_spots_in_client_queue' = empty_spots_in_client_queue - 1
  /\ serve_pc' = "wait_lock"
  /\ UNCHANGED <<kernel, client_queue, num_clients_in_queue,
                 client_queue_lock, serve_client, working, process>>

ServeWaitLock ==
  /\ serve_pc = "wait_lock"
  /\ client_queue_lock > 0
  /\ client_queue_lock' = client_queue_lock - 1
  /\ serve_pc' = "push"
  /\ UNCHANGED <<kernel, client_queue, num_clients_in_queue,
                 empty_spots_in_client_queue, serve_client, working, process>>

\* A variant that pushes at the front, as a stack does.
PushFront ==
  /\ serve_pc = "push"
  /\ client_queue' = <<serve_client>> \o client_queue
  /\ serve_pc' = "post_lock"
  /\ UNCHANGED <<kernel, semaphores, serve_client, working, process>>

Push ==
  /\ serve_pc = "push"
  /\ client_queue' = Append(client_queue, serve_client)
  /\ serve_pc' = "post_lock"
  /\ UNCHANGED <<kernel, semaphores, serve_client, working, process>>

ServePostLock ==
  /\ serve_pc = "post_lock"
  /\ client_queue_lock' = client_queue_lock + 1
  /\ serve_pc' = "post_num"
  /\ UNCHANGED <<kernel, client_queue, num_clients_in_queue,
                 empty_spots_in_client_queue, serve_client, working, process>>

\* A variant that tells no worker.
ServeTellsNobody ==
  /\ serve_pc = "post_num"
  /\ serve_pc' = "accept"
  /\ UNCHANGED <<kernel, client_queue, semaphores, serve_client, working,
                 process>>

ServePostNum ==
  /\ serve_pc = "post_num"
  /\ num_clients_in_queue' = num_clients_in_queue + 1
  /\ serve_pc' = "accept"
  /\ UNCHANGED <<kernel, client_queue, empty_spots_in_client_queue,
                 client_queue_lock, serve_client, working, process>>

Serve ==
  /\ process = "running"
  /\ \/ Accept \/ AcceptFails \/ ServeWaitSpot \/ ServeWaitLock
     \/ Push \/ ServePostLock \/ ServePostNum

\* The constructor joins serve() and returns, then main does: every worker
\* stops where it is.
ProcessEnds ==
  /\ process = "running"
  /\ serve_pc = "returned"
  /\ process' = "ended"
  /\ UNCHANGED <<kernel, client_queue, semaphores, serving, working>>

-----------------------------------------------------------------------------
(* work(), a consumer.                                                     *)

WorkerGoes(w, from, to) ==
  /\ work_pc[w] = from
  /\ work_pc' = [work_pc EXCEPT ![w] = to]
  /\ UNCHANGED <<kernel, serving, process>>

\* A variant that goes for the queue without waiting for a client in it.
WorkDoesNotWait(w) ==
  /\ WorkerGoes(w, "wait_num", "wait_lock")
  /\ UNCHANGED <<client_queue, semaphores, work_client>>

WorkWaitNum(w) ==
  /\ num_clients_in_queue > 0
  /\ num_clients_in_queue' = num_clients_in_queue - 1
  /\ WorkerGoes(w, "wait_num", "wait_lock")
  /\ UNCHANGED <<client_queue, empty_spots_in_client_queue,
                 client_queue_lock, work_client>>

\* A variant that goes into the critical section without the lock.
WorkTakesNoLock(w) ==
  /\ WorkerGoes(w, "wait_lock", "front")
  /\ UNCHANGED <<client_queue, semaphores, work_client>>

WorkWaitLock(w) ==
  /\ client_queue_lock > 0
  /\ client_queue_lock' = client_queue_lock - 1
  /\ WorkerGoes(w, "wait_lock", "front")
  /\ UNCHANGED <<client_queue, num_clients_in_queue,
                 empty_spots_in_client_queue, work_client>>

\* front() and pop() of an empty std::queue are undefined; NeverPopsEmpty
\* says that neither is ever called on one.
Front(w) ==
  /\ client_queue # <<>>
  /\ work_client' = [work_client EXCEPT ![w] = Head(client_queue)]
  /\ WorkerGoes(w, "front", "pop")
  /\ UNCHANGED <<client_queue, semaphores>>

Pop(w) ==
  /\ client_queue # <<>>
  /\ client_queue' = Tail(client_queue)
  /\ WorkerGoes(w, "pop", "post_lock")
  /\ UNCHANGED <<semaphores, work_client>>

\* A variant that leaves the critical section without giving the lock back.
WorkKeepsLock(w) ==
  /\ WorkerGoes(w, "post_lock", "post_spot")
  /\ UNCHANGED <<client_queue, semaphores, work_client>>

WorkPostLock(w) ==
  /\ client_queue_lock' = client_queue_lock + 1
  /\ WorkerGoes(w, "post_lock", "post_spot")
  /\ UNCHANGED <<client_queue, num_clients_in_queue,
                 empty_spots_in_client_queue, work_client>>

\* A variant that posts the wrong semaphore.
WorkPostsLockTwice(w) ==
  /\ client_queue_lock' = client_queue_lock + 1
  /\ WorkerGoes(w, "post_spot", "handle")
  /\ UNCHANGED <<client_queue, num_clients_in_queue,
                 empty_spots_in_client_queue, work_client>>

WorkPostSpot(w) ==
  /\ empty_spots_in_client_queue' = empty_spots_in_client_queue + 1
  /\ WorkerGoes(w, "post_spot", "handle")
  /\ UNCHANGED <<client_queue, num_clients_in_queue, client_queue_lock,
                 work_client>>

\* handle_client() returns: the session is over.  The descriptor stays open.
SessionEnds(w) ==
  /\ WorkerGoes(w, "handle", "wait_num")
  /\ UNCHANGED <<client_queue, semaphores, work_client>>

\* handle_client() sends to a connection whose peer is gone: SIGPIPE, which
\* nothing in the program handles, ends the whole process.
KilledBySignal(w) ==
  /\ process = "running"
  /\ work_pc[w] = "handle"
  /\ process' = "ended"
  /\ UNCHANGED <<kernel, client_queue, semaphores, serving, working>>

Take(w) ==
  /\ process = "running"
  /\ \/ WorkWaitNum(w) \/ WorkWaitLock(w) \/ Front(w) \/ Pop(w)
     \/ WorkPostLock(w) \/ WorkPostSpot(w)

EndSession(w) == process = "running" /\ SessionEnds(w)

-----------------------------------------------------------------------------
Next ==
  \/ \E c \in Clients : Connect(c)
  \/ Serve
  \/ ProcessEnds
  \/ \E w \in Workers : Take(w) \/ EndSession(w) \/ KilledBySignal(w)

\* The scheduler runs every thread that can run.  Nothing makes a client end
\* its session, so SessionEnds has no fairness; nor has KilledBySignal.
Fairness ==
  /\ WF_vars(Serve)
  /\ WF_vars(ProcessEnds)
  /\ \A w \in Workers : WF_vars(Take(w))

Spec == Init /\ [][Next]_vars
FairSpec == Spec /\ Fairness

-----------------------------------------------------------------------------
ServePc == {"accept", "wait_spot", "wait_lock", "push", "post_lock",
            "post_num", "returned"}
WorkPc == {"wait_num", "wait_lock", "front", "pop", "post_lock",
           "post_spot", "handle"}

\* The lock is a binary semaphore, the counters never go below zero, and
\* every descriptor in the queue or in a worker is one that accept() returned.
TypeOK ==
  /\ backlog \in Seq(Clients)
  /\ open \in SUBSET Clients
  /\ client_queue \in Seq(Clients)
  /\ num_clients_in_queue \in Nat
  /\ empty_spots_in_client_queue \in Nat
  /\ client_queue_lock \in {0, 1}
  /\ serve_pc \in ServePc
  /\ serve_client \in Clients \cup {NoClient}
  /\ serve_pc \in {"wait_spot", "wait_lock", "push"} => serve_client \in Clients
  /\ work_pc \in [Workers -> WorkPc]
  /\ work_client \in [Workers -> Clients \cup {NoClient}]
  /\ process \in {"running", "ended"}

\* What the semaphores count.  A spot is reserved once serve() has waited for
\* it, a client is unannounced between push and the post that tells the
\* workers; a worker claims a client from its wait to its pop, and owes a spot
\* from its pop to its post.
Reserved == IF serve_pc \in {"wait_lock", "push"} THEN 1 ELSE 0
Unannounced == IF serve_pc \in {"post_lock", "post_num"} THEN 1 ELSE 0
Claiming == {w \in Workers : work_pc[w] \in {"wait_lock", "front", "pop"}}
Owing == {w \in Workers : work_pc[w] \in {"post_lock", "post_spot"}}

SpotsAccounted ==
  empty_spots_in_client_queue + Len(client_queue) + Reserved
    + Cardinality(Owing) = QueueSize

ClientsAccounted ==
  num_clients_in_queue + Cardinality(Claiming) + Unannounced
    = Len(client_queue)

\* serve() or a worker is inside the critical section of client_queue_lock.
ServeInside == serve_pc \in {"push", "post_lock"}
Inside == {w \in Workers : work_pc[w] \in {"front", "pop", "post_lock"}}

\* The lock excludes: it is free when nobody is inside, and otherwise exactly
\* one thread is.
LockExcludes ==
  \/ /\ client_queue_lock = 1
     /\ ~ServeInside
     /\ Inside = {}
  \/ /\ client_queue_lock = 0
     /\ ServeInside
     /\ Inside = {}
  \/ /\ client_queue_lock = 0
     /\ ~ServeInside
     /\ \E w \in Workers : Inside = {w}

\* Between front() and pop() the element a worker has read stays the first.
FrontIsStable ==
  \A w \in Workers :
    work_pc[w] = "pop" =>
      client_queue # <<>> /\ work_client[w] = Head(client_queue)

\* The semaphores count what they stand for: the inductive core of the
\* module, from which the two properties below follow.
SemaphoresCount ==
  SpotsAccounted /\ ClientsAccounted /\ LockExcludes /\ FrontIsStable

\* README of lab2: the queue never holds more than the limit, because serve()
\* waits for a spot (server.cc:67) and a worker gives one back (93).
QueueBounded == Len(client_queue) <= QueueSize

\* No worker calls front() or pop() on an empty queue (server.cc:90-91), which
\* would be undefined, however many workers race for the announced clients.
NeverPopsEmpty ==
  \A w \in Workers : work_pc[w] \in {"front", "pop"} => client_queue # <<>>

\* A connection is in one place only: waiting in the kernel, in serve()'s
\* hands, in the queue once, or with one worker.
Holding(w) ==
  IF work_pc[w] \in {"post_lock", "post_spot", "handle"}
  THEN {work_client[w]} ELSE {}
Pushing ==
  IF serve_pc \in {"wait_spot", "wait_lock", "push"}
  THEN {serve_client} ELSE {}
Queued == {client_queue[i] : i \in DOMAIN client_queue}
HandedOnce ==
  /\ \A i, j \in DOMAIN client_queue :
       i # j => client_queue[i] # client_queue[j]
  /\ Queued \cap Pushing = {}
  /\ \A w \in Workers : Holding(w) \cap (Queued \cup Pushing) = {}
  /\ \A v, w \in Workers : v # w => Holding(v) \cap Holding(w) = {}

\* Every connection the threads hold was accepted, and the kernel still queues
\* only connections that were not.
OpenOrPending ==
  /\ Queued \cup Pushing \subseteq open
  /\ \A w \in Workers : Holding(w) \subseteq open
  /\ \A i \in DOMAIN backlog : backlog[i] \notin open
  /\ \A i, j \in DOMAIN backlog : i # j => backlog[i] # backlog[j]

\* The code implements the bounded FIFO buffer.
Held == [w \in Workers |->
           IF work_pc[w] \in {"post_lock", "post_spot", "handle"}
           THEN work_client[w] ELSE NoClient]
Entered == open \ Pushing
Buffer == INSTANCE ClientBuffer
            WITH waiting <- client_queue, entered <- Entered, held <- Held
ImplementsBuffer == Buffer!Spec

-----------------------------------------------------------------------------
\* If every session ends, every accepted connection is eventually served by a
\* worker, or the process ends.
EverySessionEnds == \A w \in Workers : []<>(work_pc[w] # "handle")
Served(c) == \E w \in Workers : work_pc[w] = "handle" /\ work_client[w] = c
AcceptedIsServed ==
  EverySessionEnds =>
    \A c \in Clients : (serve_client = c /\ serve_pc = "wait_spot")
                         ~> (Served(c) \/ process = "ended")

\* Because no descriptor is ever closed (work() has no close, server.cc:84-98),
\* a server whose sessions end stops for good once it has accepted FdLimit
\* connections, though serve() is written as an endless loop.
FullTableEndsServer ==
  EverySessionEnds =>
    ((Cardinality(open) = FdLimit) ~> (process = "ended"))
=============================================================================
