------------------------- MODULE ClientQueueProofs -------------------------
(***************************************************************************)
(* Proofs about ClientQueue for any number of workers, connections and     *)
(* queue positions.  Each invariant is proved from the ones before it:     *)
(*   TypeOK and LockExcludes, then the two accounts of the counting        *)
(*   semaphores, then FrontIsStable, then the ownership of connections,    *)
(*   and from all of these that the code implements ClientBuffer.          *)
(***************************************************************************)
EXTENDS ClientQueue, FiniteSetTheorems, SequenceTheorems, TLAPS

WorkerStep(w) ==
  WorkWaitNum(w) \/ WorkWaitLock(w) \/ Front(w) \/ Pop(w)
    \/ WorkPostLock(w) \/ WorkPostSpot(w) \/ SessionEnds(w)

-----------------------------------------------------------------------------
(* A step is one of the actions below; this splits Next once for all the   *)
(* proofs that follow.                                                     *)
LEMMA NextCases ==
  ASSUME Next
  PROVE  \/ \E c \in Clients : Connect(c)
         \/ Accept \/ AcceptFails \/ ServeWaitSpot \/ ServeWaitLock
         \/ Push \/ ServePostLock \/ ServePostNum
         \/ ProcessEnds \/ \E w \in Workers : KilledBySignal(w)
         \/ \E w \in Workers : WorkerStep(w)
  BY DEF Next, Serve, Take, EndSession, WorkerStep

(* A worker's step moves only its own program counter.                     *)
LEMMA WorkerMoves ==
  ASSUME TypeOK, NEW w \in Workers, NEW from, NEW to,
         WorkerGoes(w, from, to)
  PROVE  /\ work_pc[w] = from
         /\ work_pc'[w] = to
         /\ \A v \in Workers \ {w} : work_pc'[v] = work_pc[v]
  BY DEF WorkerGoes, TypeOK

-----------------------------------------------------------------------------
(* The types, and the mutual exclusion of client_queue_lock.               *)
TypeAndLock == TypeOK /\ LockExcludes

LEMMA TypeInit == Init => TypeAndLock
  BY QueueSizeAssumption DEF Init, TypeAndLock, TypeOK, LockExcludes, ServeInside, Inside, ServePc, WorkPc

LEMMA TypeStep == TypeAndLock /\ [Next]_vars => TypeAndLock'
<1> SUFFICES ASSUME TypeOK, LockExcludes, [Next]_vars
             PROVE  TypeOK' /\ LockExcludes'
  BY DEF TypeAndLock
<1> USE DEF ServeInside, ServePc, WorkPc
<1> DEFINE Quiet == /\ UNCHANGED <<serve_pc, client_queue_lock, work_pc>>
<1>0. Quiet => LockExcludes'
  BY DEF LockExcludes, Inside
<1>1. ASSUME NEW c \in Clients, Connect(c) PROVE TypeOK' /\ LockExcludes'
  BY <1>0, <1>1 DEF Connect, TypeOK, semaphores, serving, working
<1>2. CASE Accept
  <2>1. Head(backlog) \in Clients /\ Tail(backlog) \in Seq(Clients)
    BY <1>2, HeadTailProperties DEF Accept, TypeOK
  <2>2. TypeOK'
    BY <1>2, <2>1 DEF Accept, TypeOK, semaphores, working
  <2>3. LockExcludes'
    BY <1>2 DEF Accept, LockExcludes, Inside, semaphores, working
  <2> QED BY <2>2, <2>3
<1>3. CASE AcceptFails
  <2>1. TypeOK'
    BY <1>3 DEF AcceptFails, TypeOK, semaphores, working
  <2>2. LockExcludes'
    BY <1>3 DEF AcceptFails, LockExcludes, Inside, semaphores, working
  <2> QED BY <2>1, <2>2
<1>4. CASE ServeWaitSpot
  <2>1. TypeOK'
    BY <1>4 DEF ServeWaitSpot, TypeOK, kernel, working
  <2>2. LockExcludes'
    BY <1>4 DEF ServeWaitSpot, LockExcludes, Inside, working
  <2> QED BY <2>1, <2>2
<1>5. CASE ServeWaitLock
  <2>1. TypeOK'
    BY <1>5 DEF ServeWaitLock, TypeOK, kernel, working
  <2>2. LockExcludes'
    BY <1>5 DEF ServeWaitLock, LockExcludes, Inside, working, TypeOK
  <2> QED BY <2>1, <2>2
<1>6. CASE Push
  <2>1. serve_client \in Clients
    BY <1>6 DEF Push, TypeOK
  <2>2. TypeOK'
    BY <1>6, <2>1 DEF Push, TypeOK, kernel, semaphores, working
  <2>3. LockExcludes'
    BY <1>6 DEF Push, LockExcludes, Inside, semaphores, working
  <2> QED BY <2>2, <2>3
<1>7. CASE ServePostLock
  <2>1. client_queue_lock = 0 /\ Inside = {}
    BY <1>7 DEF ServePostLock, LockExcludes
  <2>2. TypeOK'
    BY <1>7, <2>1 DEF ServePostLock, TypeOK, kernel, working
  <2>3. LockExcludes'
    BY <1>7, <2>1 DEF ServePostLock, LockExcludes, Inside, working
  <2> QED BY <2>2, <2>3
<1>8. CASE ServePostNum
  <2>1. TypeOK'
    BY <1>8 DEF ServePostNum, TypeOK, kernel, working
  <2>2. LockExcludes'
    BY <1>8 DEF ServePostNum, LockExcludes, Inside, working
  <2> QED BY <2>1, <2>2
<1>9. ASSUME ProcessEnds \/ \E w \in Workers : KilledBySignal(w)
      PROVE  TypeOK' /\ LockExcludes'
  BY <1>0, <1>9
  DEF ProcessEnds, KilledBySignal, TypeOK, kernel, semaphores, serving, working
<1>10. ASSUME NEW w \in Workers, WorkerStep(w) PROVE TypeOK' /\ LockExcludes'
  <2>1. CASE WorkWaitNum(w)
    <3>1. TypeOK'
      BY <2>1 DEF WorkWaitNum, WorkerGoes, TypeOK, kernel, serving
    <3>2. Inside' = Inside
      BY <2>1 DEF WorkWaitNum, WorkerGoes, Inside, TypeOK
    <3> QED BY <2>1, <3>1, <3>2 DEF WorkWaitNum, WorkerGoes, LockExcludes, serving
  <2>2. CASE WorkWaitLock(w)
    <3>1. TypeOK'
      BY <2>2 DEF WorkWaitLock, WorkerGoes, TypeOK, kernel, serving
    <3>2. Inside = {} /\ ~ServeInside /\ client_queue_lock = 1
      BY <2>2 DEF WorkWaitLock, LockExcludes
    <3>3. Inside' = {w}
      BY <2>2, <3>2 DEF WorkWaitLock, WorkerGoes, Inside, TypeOK
    <3> QED BY <2>2, <3>1, <3>2, <3>3 DEF WorkWaitLock, WorkerGoes, LockExcludes, serving
  <2>3. CASE Front(w)
    <3>1. Head(client_queue) \in Clients
      BY <2>3, HeadTailProperties DEF Front, TypeOK
    <3>2. TypeOK'
      BY <2>3, <3>1 DEF Front, WorkerGoes, TypeOK, kernel, serving, semaphores
    <3>3. Inside' = Inside
      BY <2>3 DEF Front, WorkerGoes, Inside, TypeOK
    <3> QED BY <2>3, <3>2, <3>3 DEF Front, WorkerGoes, LockExcludes, serving, semaphores
  <2>4. CASE Pop(w)
    <3>1. Tail(client_queue) \in Seq(Clients)
      BY <2>4, HeadTailProperties DEF Pop, TypeOK
    <3>2. TypeOK'
      BY <2>4, <3>1 DEF Pop, WorkerGoes, TypeOK, kernel, serving, semaphores
    <3>3. Inside' = Inside
      BY <2>4 DEF Pop, WorkerGoes, Inside, TypeOK
    <3> QED BY <2>4, <3>2, <3>3 DEF Pop, WorkerGoes, LockExcludes, serving, semaphores
  <2>5. CASE WorkPostLock(w)
    <3>1. client_queue_lock = 0 /\ ~ServeInside /\ Inside = {w}
      BY <2>5 DEF WorkPostLock, WorkerGoes, LockExcludes, Inside
    <3>2. TypeOK'
      BY <2>5, <3>1 DEF WorkPostLock, WorkerGoes, TypeOK, kernel, serving
    <3>3. Inside' = {}
      BY <2>5, <3>1 DEF WorkPostLock, WorkerGoes, Inside, TypeOK
    <3> QED BY <2>5, <3>1, <3>2, <3>3 DEF WorkPostLock, WorkerGoes, LockExcludes, serving
  <2>6. CASE WorkPostSpot(w)
    <3>1. TypeOK'
      BY <2>6 DEF WorkPostSpot, WorkerGoes, TypeOK, kernel, serving
    <3>2. Inside' = Inside
      BY <2>6 DEF WorkPostSpot, WorkerGoes, Inside, TypeOK
    <3> QED BY <2>6, <3>1, <3>2 DEF WorkPostSpot, WorkerGoes, LockExcludes, serving
  <2>7. CASE SessionEnds(w)
    <3>1. TypeOK'
      BY <2>7 DEF SessionEnds, WorkerGoes, TypeOK, kernel, serving, semaphores
    <3>2. Inside' = Inside
      BY <2>7 DEF SessionEnds, WorkerGoes, Inside, TypeOK
    <3> QED BY <2>7, <3>1, <3>2 DEF SessionEnds, WorkerGoes, LockExcludes, serving, semaphores
  <2> QED BY <1>10, <2>1, <2>2, <2>3, <2>4, <2>5, <2>6, <2>7 DEF WorkerStep
<1>11. CASE UNCHANGED vars
  BY <1>0, <1>11 DEF vars, TypeOK, kernel, semaphores, serving, working
<1> QED
  BY <1>1, <1>2, <1>3, <1>4, <1>5, <1>6, <1>7, <1>8, <1>9, <1>10, <1>11, NextCases

\* The state of serve() and of every worker is well typed in every reachable
\* state; in particular client_queue_lock never exceeds one.
THEOREM TypeCorrect == Spec => []TypeOK
<1>1. TypeAndLock => TypeOK
  BY DEF TypeAndLock
<1> QED BY <1>1, TypeInit, TypeStep, PTL DEF Spec

-----------------------------------------------------------------------------
(* The accounts of the two counting semaphores.                            *)
Accounts == SpotsAccounted /\ ClientsAccounted

LEMMA AccountsFinite ==
  /\ IsFiniteSet(Claiming) /\ Cardinality(Claiming) \in Nat
  /\ IsFiniteSet(Owing) /\ Cardinality(Owing) \in Nat
<1>1. Claiming \in SUBSET Workers /\ Owing \in SUBSET Workers
  BY DEF Claiming, Owing
<1> QED BY <1>1, WorkersAssumption, FS_Subset, FS_CardinalityType

LEMMA AccountsInit == Init => Accounts
<1> SUFFICES ASSUME Init PROVE Accounts
  OBVIOUS
<1>1. Claiming = {} /\ Owing = {} /\ Reserved = 0 /\ Unannounced = 0
  BY DEF Init, Claiming, Owing, Reserved, Unannounced
<1>2. Len(client_queue) = 0
  BY DEF Init
<1> QED
  BY <1>1, <1>2, FS_EmptySet, QueueSizeAssumption
  DEF Init, Accounts, SpotsAccounted, ClientsAccounted

LEMMA AccountsStep == TypeAndLock /\ Accounts /\ [Next]_vars => Accounts'
<1> SUFFICES ASSUME TypeOK, LockExcludes, SpotsAccounted, ClientsAccounted,
                    [Next]_vars
             PROVE  SpotsAccounted' /\ ClientsAccounted'
  BY DEF TypeAndLock, Accounts
<1> USE DEF Reserved, Unannounced
<1>t. /\ Len(client_queue) \in Nat
      /\ num_clients_in_queue \in Nat
      /\ empty_spots_in_client_queue \in Nat
  BY LenProperties DEF TypeOK
<1>f. /\ IsFiniteSet(Claiming) /\ Cardinality(Claiming) \in Nat
      /\ IsFiniteSet(Owing) /\ Cardinality(Owing) \in Nat
  BY AccountsFinite
<1>i. QueueSize \in Nat
  BY QueueSizeAssumption
<1> DEFINE SameSets == Claiming' = Claiming /\ Owing' = Owing
<1>k. work_pc' = work_pc => SameSets
  BY DEF Claiming, Owing
<1>1. ASSUME NEW c \in Clients, Connect(c)
      PROVE SpotsAccounted' /\ ClientsAccounted'
  BY <1>1, <1>k DEF Connect, SpotsAccounted, ClientsAccounted, semaphores, serving, working
<1>2. CASE Accept
  BY <1>2, <1>k DEF Accept, SpotsAccounted, ClientsAccounted, semaphores, working
<1>3. CASE AcceptFails
  BY <1>3, <1>k DEF AcceptFails, SpotsAccounted, ClientsAccounted, semaphores, working
<1>4. CASE ServeWaitSpot
  <2>1. SameSets
    BY <1>4, <1>k DEF ServeWaitSpot, working
  <2> HIDE DEF SameSets
  <2> QED
    BY <1>4, <1>t, <1>f, <1>i, <2>1
    DEF ServeWaitSpot, SpotsAccounted, ClientsAccounted, SameSets
<1>5. CASE ServeWaitLock
  BY <1>5, <1>k DEF ServeWaitLock, SpotsAccounted, ClientsAccounted, working
<1>6. CASE Push
  <2>1. SameSets
    BY <1>6, <1>k DEF Push, working
  <2>2. Len(client_queue') = Len(client_queue) + 1
    BY <1>6 DEF Push, TypeOK
  <2> HIDE DEF SameSets
  <2> QED
    BY <1>6, <1>t, <1>f, <1>i, <2>1, <2>2
    DEF Push, SpotsAccounted, ClientsAccounted, SameSets, semaphores
<1>7. CASE ServePostLock
  BY <1>7, <1>k DEF ServePostLock, SpotsAccounted, ClientsAccounted, working
<1>8. CASE ServePostNum
  <2>1. SameSets
    BY <1>8, <1>k DEF ServePostNum, working
  <2> HIDE DEF SameSets
  <2> QED
    BY <1>8, <1>t, <1>f, <1>i, <2>1
    DEF ServePostNum, SpotsAccounted, ClientsAccounted, SameSets
<1>9. ASSUME ProcessEnds \/ \E w \in Workers : KilledBySignal(w)
      PROVE  SpotsAccounted' /\ ClientsAccounted'
  BY <1>9, <1>k
  DEF ProcessEnds, KilledBySignal, SpotsAccounted, ClientsAccounted,
      semaphores, serving, working
<1>10. ASSUME NEW w \in Workers, WorkerStep(w)
       PROVE SpotsAccounted' /\ ClientsAccounted'
  <2>1. CASE WorkWaitNum(w)
    <3>1. Claiming' = Claiming \cup {w} /\ w \notin Claiming /\ Owing' = Owing
      BY <2>1 DEF WorkWaitNum, WorkerGoes, TypeOK, Claiming, Owing
    <3>2. Cardinality(Claiming') = Cardinality(Claiming) + 1
      BY <3>1, <1>f, FS_AddElement
    <3>3. /\ num_clients_in_queue > 0
          /\ num_clients_in_queue' = num_clients_in_queue - 1
          /\ UNCHANGED <<serve_pc, client_queue, empty_spots_in_client_queue>>
      BY <2>1 DEF WorkWaitNum, WorkerGoes, serving
    <3> QED
      BY <1>t, <1>f, <1>i, <3>1, <3>2, <3>3 DEF SpotsAccounted, ClientsAccounted
  <2>2. CASE WorkWaitLock(w)
    <3>1. SameSets
      BY <2>2 DEF WorkWaitLock, WorkerGoes, TypeOK, Claiming, Owing
    <3> QED
      BY <2>2, <3>1
      DEF WorkWaitLock, WorkerGoes, SpotsAccounted, ClientsAccounted, serving
  <2>3. CASE Front(w)
    <3>1. SameSets
      BY <2>3 DEF Front, WorkerGoes, TypeOK, Claiming, Owing
    <3> QED
      BY <2>3, <3>1
      DEF Front, WorkerGoes, SpotsAccounted, ClientsAccounted, serving, semaphores
  <2>4. CASE Pop(w)
    <3>1. /\ Claiming' = Claiming \ {w} /\ w \in Claiming
          /\ Owing' = Owing \cup {w} /\ w \notin Owing
      BY <2>4 DEF Pop, WorkerGoes, TypeOK, Claiming, Owing
    <3>2. /\ Cardinality(Claiming') = Cardinality(Claiming) - 1
          /\ Cardinality(Owing') = Cardinality(Owing) + 1
      BY <3>1, <1>f, FS_AddElement, FS_RemoveElement
    <3>3. Len(client_queue') = Len(client_queue) - 1
      BY <2>4, HeadTailProperties DEF Pop, TypeOK
    <3>4. UNCHANGED <<serve_pc, num_clients_in_queue,
                      empty_spots_in_client_queue>>
      BY <2>4 DEF Pop, WorkerGoes, serving, semaphores
    <3>5. ClientsAccounted'
      BY <1>t, <1>f, <1>i, <3>2, <3>3, <3>4 DEF ClientsAccounted
    <3>6. SpotsAccounted'
      BY <1>t, <1>f, <1>i, <3>2, <3>3, <3>4 DEF SpotsAccounted
    <3> QED BY <3>5, <3>6
  <2>5. CASE WorkPostLock(w)
    <3>1. SameSets
      BY <2>5 DEF WorkPostLock, WorkerGoes, TypeOK, Claiming, Owing
    <3> QED
      BY <2>5, <3>1
      DEF WorkPostLock, WorkerGoes, SpotsAccounted, ClientsAccounted, serving
  <2>6. CASE WorkPostSpot(w)
    <3>1. Claiming' = Claiming /\ Owing' = Owing \ {w} /\ w \in Owing
      BY <2>6 DEF WorkPostSpot, WorkerGoes, TypeOK, Claiming, Owing
    <3>2. Cardinality(Owing') = Cardinality(Owing) - 1
      BY <3>1, <1>f, FS_RemoveElement
    <3> QED
      BY <2>6, <1>t, <1>f, <1>i, <3>1, <3>2
      DEF WorkPostSpot, WorkerGoes, SpotsAccounted, ClientsAccounted, serving
  <2>7. CASE SessionEnds(w)
    <3>1. SameSets
      BY <2>7 DEF SessionEnds, WorkerGoes, TypeOK, Claiming, Owing
    <3> QED
      BY <2>7, <3>1
      DEF SessionEnds, WorkerGoes, SpotsAccounted, ClientsAccounted, serving, semaphores
  <2> QED BY <1>10, <2>1, <2>2, <2>3, <2>4, <2>5, <2>6, <2>7 DEF WorkerStep
<1>11. CASE UNCHANGED vars
  BY <1>11, <1>k DEF vars, SpotsAccounted, ClientsAccounted, semaphores, serving, working
<1> QED
  BY <1>1, <1>2, <1>3, <1>4, <1>5, <1>6, <1>7, <1>8, <1>9, <1>10, <1>11, NextCases

(* The queue never holds more connections than its limit: the spots it     *)
(* occupies are among the QueueSize that empty_spots_in_client_queue       *)
(* started with (server.cc:23, 67, 93).                                    *)
LEMMA AccountsBound == TypeOK /\ Accounts => QueueBounded
<1> SUFFICES ASSUME TypeOK, Accounts PROVE QueueBounded
  OBVIOUS
<1>1. Len(client_queue) \in Nat /\ empty_spots_in_client_queue \in Nat
  BY LenProperties DEF TypeOK
<1> QED
  BY <1>1, AccountsFinite, QueueSizeAssumption
  DEF Accounts, SpotsAccounted, Reserved, QueueBounded

(* A worker that has been let through to front() or pop() is one of those  *)
(* that claim a client, so the queue holds at least one.                   *)
LEMMA AccountsNonEmpty == TypeOK /\ Accounts => NeverPopsEmpty
<1> SUFFICES ASSUME TypeOK, Accounts,
                    NEW w \in Workers, work_pc[w] \in {"front", "pop"}
             PROVE  client_queue # <<>>
  BY DEF NeverPopsEmpty
<1>1. w \in Claiming
  BY DEF Claiming
<1>2. Cardinality(Claiming) # 0
  BY <1>1, AccountsFinite, FS_EmptySet
<1>3. num_clients_in_queue \in Nat
  BY DEF TypeOK
<1>4. Len(client_queue) # 0
  BY <1>2, <1>3, AccountsFinite DEF Accounts, ClientsAccounted, Unannounced
<1> QED BY <1>4

-----------------------------------------------------------------------------
\* lab2's README: the number of clients in the queue does not exceed the limit.
THEOREM QueueIsBounded == Spec => []QueueBounded
<1>1. Init => TypeAndLock /\ Accounts
  BY TypeInit, AccountsInit
<1>2. (TypeAndLock /\ Accounts) /\ [Next]_vars => (TypeAndLock /\ Accounts)'
  BY TypeStep, AccountsStep
<1>3. TypeAndLock /\ Accounts => QueueBounded
  BY AccountsBound DEF TypeAndLock
<1> QED BY <1>1, <1>2, <1>3, PTL DEF Spec

\* No worker ever calls front() or pop() on an empty queue.
THEOREM NoPopOfEmptyQueue == Spec => []NeverPopsEmpty
<1>1. Init => TypeAndLock /\ Accounts
  BY TypeInit, AccountsInit
<1>2. (TypeAndLock /\ Accounts) /\ [Next]_vars => (TypeAndLock /\ Accounts)'
  BY TypeStep, AccountsStep
<1>3. TypeAndLock /\ Accounts => NeverPopsEmpty
  BY AccountsNonEmpty DEF TypeAndLock
<1> QED BY <1>1, <1>2, <1>3, PTL DEF Spec

-----------------------------------------------------------------------------
(* What a worker has read with front() is what its pop() removes, and every  *)
(* connection has one owner.                                               *)

(* Appending to a queue, in terms of its elements.                         *)
LEMMA AppendElements ==
  ASSUME NEW S, NEW q \in Seq(S), NEW e \in S
  PROVE  \A i \in DOMAIN Append(q, e) :
           \/ i = Len(q) + 1 /\ Append(q, e)[i] = e
           \/ i \in DOMAIN q /\ Append(q, e)[i] = q[i]
<1>1. DOMAIN Append(q, e) = 1..(Len(q) + 1) /\ DOMAIN q = 1..Len(q)
  BY AppendProperties, LenProperties
<1>2. Append(q, e)[Len(q) + 1] = e
  BY AppendProperties
<1>3. \A i \in 1..Len(q) : Append(q, e)[i] = q[i]
  BY AppendProperties
<1>4. Len(q) \in Nat
  BY LenProperties
<1>5. \A i \in 1..(Len(q) + 1) : i = Len(q) + 1 \/ i \in 1..Len(q)
  BY <1>4
<1> QED BY <1>1, <1>2, <1>3, <1>5

-----------------------------------------------------------------------------
(* FrontIsStable: while a worker is between front() and pop() it holds the *)
(* lock, so nobody else touches the queue.                                 *)
LEMMA FrontStep == TypeAndLock /\ FrontIsStable /\ [Next]_vars => FrontIsStable'
<1> SUFFICES ASSUME TypeOK, LockExcludes, FrontIsStable, [Next]_vars,
                    NEW v \in Workers, work_pc'[v] = "pop"
             PROVE  client_queue' # <<>> /\ work_client'[v] = Head(client_queue')
  BY DEF TypeAndLock, FrontIsStable
<1> DEFINE Same == /\ work_pc'[v] = work_pc[v]
                   /\ work_client'[v] = work_client[v]
                   /\ client_queue' = client_queue
<1>0. ASSUME Same
      PROVE  client_queue' # <<>> /\ work_client'[v] = Head(client_queue')
  BY <1>0 DEF FrontIsStable
<1>1. ASSUME NEW c \in Clients, Connect(c) PROVE Same
  BY <1>1 DEF Connect, working
<1>2. CASE Accept \/ AcceptFails \/ ServeWaitSpot \/ ServeWaitLock
             \/ ServePostLock \/ ServePostNum
  BY <1>0, <1>2 DEF Accept, AcceptFails, ServeWaitSpot, ServeWaitLock,
     ServePostLock, ServePostNum, working
<1>3. CASE Push
  <2>1. work_pc[v] = "pop"
    BY <1>3 DEF Push, working
  <2> QED BY <1>3, <2>1 DEF Push, LockExcludes, ServeInside, Inside
<1>4. CASE ProcessEnds \/ \E w \in Workers : KilledBySignal(w)
  BY <1>0, <1>4 DEF ProcessEnds, KilledBySignal, working
<1>5. ASSUME NEW w \in Workers, WorkerStep(w)
      PROVE  client_queue' # <<>> /\ work_client'[v] = Head(client_queue')
  <2>1. CASE Front(w)
    BY <1>0, <2>1 DEF Front, WorkerGoes, TypeOK
  <2>2. CASE Pop(w)
    <3>1. v # w /\ work_pc[v] = "pop" /\ work_pc[w] = "pop"
      BY <2>2 DEF Pop, WorkerGoes, TypeOK
    <3>2. v \in Inside /\ w \in Inside
      BY <3>1 DEF Inside
    <3> QED BY <3>1, <3>2 DEF LockExcludes
  <2>3. CASE WorkWaitNum(w) \/ WorkWaitLock(w) \/ WorkPostLock(w)
               \/ WorkPostSpot(w) \/ SessionEnds(w)
    BY <1>0, <2>3 DEF WorkWaitNum, WorkWaitLock, WorkPostLock, WorkPostSpot,
       SessionEnds, WorkerGoes, TypeOK
  <2> QED BY <1>5, <2>1, <2>2, <2>3 DEF WorkerStep
<1>6. CASE UNCHANGED vars
  BY <1>0, <1>6 DEF vars, working
<1> QED BY <1>0, <1>1, <1>2, <1>3, <1>4, <1>5, <1>6, NextCases

-----------------------------------------------------------------------------
(* Who owns a connection.                                                  *)
Ownership == HandedOnce /\ OpenOrPending

(* The owners of a step that moves no connection are unchanged.            *)
LEMMA OwnersSame ==
  ASSUME client_queue' = client_queue, Pushing' = Pushing,
         open' = open, backlog' = backlog,
         \A w \in Workers : Holding(w)' = Holding(w),
         Ownership
  PROVE  Ownership'
<1>1. Queued' = Queued
  BY DEF Queued
<1>2. HandedOnce'
  BY <1>1 DEF Ownership, HandedOnce
<1>3. OpenOrPending'
  BY <1>1 DEF Ownership, OpenOrPending
<1> QED BY <1>2, <1>3 DEF Ownership

LEMMA OwnershipInit == Init => Ownership /\ FrontIsStable
  BY DEF Init, Ownership, HandedOnce, OpenOrPending, FrontIsStable, Queued,
     Pushing, Holding

(* connect: a connection joins the kernel's queue, known to no thread.     *)
LEMMA OwnershipConnect ==
  ASSUME TypeOK, Ownership, NEW c \in Clients, Connect(c)
  PROVE  Ownership'
<1> USE DEF Connect
<1>1. /\ client_queue' = client_queue /\ Pushing' = Pushing /\ open' = open
      /\ \A w \in Workers : Holding(w)' = Holding(w)
  BY DEF serving, working, Pushing, Holding
<1>2. Queued' = Queued
  BY <1>1 DEF Queued
<1>3. HandedOnce'
  BY <1>1, <1>2 DEF Ownership, HandedOnce
<1>4. backlog' = Append(backlog, c) /\ c \notin open
  OBVIOUS
<1>5. \A i \in DOMAIN backlog' :
        \/ i = Len(backlog) + 1 /\ backlog'[i] = c
        \/ i \in DOMAIN backlog /\ backlog'[i] = backlog[i]
  <2>1. backlog \in Seq(Clients)
    BY DEF TypeOK
  <2>2. \A i \in DOMAIN Append(backlog, c) :
          \/ i = Len(backlog) + 1 /\ Append(backlog, c)[i] = c
          \/ i \in DOMAIN backlog /\ Append(backlog, c)[i] = backlog[i]
    BY <2>1, AppendElements
  <2> HIDE DEF Connect
  <2>3. ASSUME NEW i \in DOMAIN backlog'
        PROVE  i \in DOMAIN Append(backlog, c) /\ backlog'[i] = Append(backlog, c)[i]
    BY <1>4
  <2> QED BY <2>2, <2>3, Zenon
<1>6. \A i \in DOMAIN backlog : backlog[i] # c
  BY DEF TypeOK
<1>7. OpenOrPending'
  <2>1. \A i \in DOMAIN backlog' : backlog'[i] \notin open'
    BY <1>1, <1>4, <1>5 DEF Ownership, OpenOrPending
  <2>2. ASSUME NEW i \in DOMAIN backlog', NEW j \in DOMAIN backlog', i # j
        PROVE  backlog'[i] # backlog'[j]
    <3>1. CASE i \in DOMAIN backlog /\ j \in DOMAIN backlog
      <4>1. backlog'[i] = backlog[i] /\ backlog'[j] = backlog[j]
        BY <1>4, <3>1 DEF TypeOK
      <4> QED BY <2>2, <3>1, <4>1 DEF Ownership, OpenOrPending
    <3>2. CASE i \notin DOMAIN backlog \/ j \notin DOMAIN backlog
      BY <1>5, <1>6, <2>2, <3>2
    <3> QED BY <3>1, <3>2
  <2> QED BY <1>1, <1>2, <2>1, <2>2 DEF Ownership, OpenOrPending
<1> QED BY <1>3, <1>7 DEF Ownership

(* accept(): the first waiting connection passes into serve()'s hands.     *)
LEMMA OwnershipAccept ==
  ASSUME TypeOK, Ownership, Accept
  PROVE  Ownership'
<1> DEFINE h == Head(backlog)
<1> USE DEF Accept
<1>1. /\ client_queue' = client_queue
      /\ \A w \in Workers : Holding(w)' = Holding(w)
  BY DEF working, Holding
<1>2. Queued' = Queued
  BY <1>1 DEF Queued
<1>3. Pushing = {} /\ Pushing' = {h} /\ open' = open \cup {h}
  BY DEF Pushing
<1>4. h = backlog[1] /\ 1 \in DOMAIN backlog
  BY HeadTailProperties DEF TypeOK
<1>5. h \notin open
  BY <1>4 DEF Ownership, OpenOrPending
<1>6. HandedOnce'
  BY <1>1, <1>2, <1>3, <1>5 DEF Ownership, HandedOnce, OpenOrPending
<1>7. \A i \in DOMAIN backlog' :
        /\ i + 1 \in DOMAIN backlog /\ i + 1 # 1 /\ i \in Nat
        /\ backlog'[i] = backlog[i + 1]
  BY DEF TypeOK
<1>8. \A i \in DOMAIN backlog' : backlog'[i] \notin open'
  <2> SUFFICES ASSUME NEW i \in DOMAIN backlog'
               PROVE  backlog'[i] \notin open'
    OBVIOUS
  <2>1. backlog'[i] \notin open
    BY <1>7 DEF Ownership, OpenOrPending
  <2>2. backlog'[i] # h
    BY <1>4, <1>7 DEF Ownership, OpenOrPending
  <2> QED BY <1>3, <2>1, <2>2
<1>9. \A i, j \in DOMAIN backlog' : i # j => backlog'[i] # backlog'[j]
  <2> SUFFICES ASSUME NEW i \in DOMAIN backlog', NEW j \in DOMAIN backlog', i # j
               PROVE  backlog'[i] # backlog'[j]
    OBVIOUS
  <2>1. i + 1 # j + 1
    BY <1>7
  <2> QED BY <1>7, <2>1 DEF Ownership, OpenOrPending
<1>10. OpenOrPending'
  BY <1>1, <1>2, <1>3, <1>8, <1>9 DEF Ownership, OpenOrPending
<1> QED BY <1>6, <1>10 DEF Ownership

(* accept() fails: the kernel drops the connections it still queued.       *)
LEMMA OwnershipAcceptFails ==
  ASSUME TypeOK, Ownership, AcceptFails
  PROVE  Ownership'
<1> USE DEF AcceptFails
<1>1. /\ client_queue' = client_queue /\ open' = open
      /\ Pushing = {} /\ Pushing' = {}
      /\ \A w \in Workers : Holding(w)' = Holding(w)
  BY DEF working, Holding, Pushing
<1>2. Queued' = Queued
  BY <1>1 DEF Queued
<1>3. backlog' = <<>>
  OBVIOUS
<1>4. HandedOnce'
  BY <1>1, <1>2 DEF Ownership, HandedOnce
<1>5. OpenOrPending'
  BY <1>1, <1>2, <1>3 DEF Ownership, OpenOrPending
<1> QED BY <1>4, <1>5 DEF Ownership

(* push: the connection passes from serve() to the end of the queue.       *)
LEMMA OwnershipPush ==
  ASSUME TypeOK, Ownership, Push
  PROVE  Ownership'
<1> DEFINE n == Len(client_queue)
<1> USE DEF Push
<1>1. /\ open' = open /\ backlog' = backlog
      /\ Pushing = {serve_client} /\ Pushing' = {}
      /\ \A w \in Workers : Holding(w)' = Holding(w)
  BY DEF kernel, working, Holding, Pushing
<1>2. \A i \in DOMAIN client_queue' :
        \/ i = n + 1 /\ client_queue'[i] = serve_client
        \/ i \in DOMAIN client_queue /\ client_queue'[i] = client_queue[i]
  <2>1. client_queue \in Seq(Clients) /\ serve_client \in Clients
    BY DEF TypeOK
  <2>2. \A i \in DOMAIN Append(client_queue, serve_client) :
          \/ i = n + 1 /\ Append(client_queue, serve_client)[i] = serve_client
          \/ /\ i \in DOMAIN client_queue
             /\ Append(client_queue, serve_client)[i] = client_queue[i]
    BY <2>1, AppendElements
  <2>3. client_queue' = Append(client_queue, serve_client)
    OBVIOUS
  <2> HIDE DEF Push
  <2>4. ASSUME NEW i \in DOMAIN client_queue'
        PROVE  /\ i \in DOMAIN Append(client_queue, serve_client)
               /\ client_queue'[i] = Append(client_queue, serve_client)[i]
    BY <2>3
  <2> QED BY <2>2, <2>4, Zenon
<1>3. Queued' \subseteq Queued \cup {serve_client}
  BY <1>2 DEF Queued
<1>4. serve_client \notin Queued
  BY <1>1 DEF Ownership, HandedOnce
<1>5. ASSUME NEW i \in DOMAIN client_queue', NEW j \in DOMAIN client_queue', i # j
      PROVE  client_queue'[i] # client_queue'[j]
  <2>1. \A k \in DOMAIN client_queue : client_queue[k] # serve_client
    BY <1>4 DEF Queued
  <2>2. CASE i \in DOMAIN client_queue /\ j \in DOMAIN client_queue
    <3>1. /\ client_queue'[i] = client_queue[i]
          /\ client_queue'[j] = client_queue[j]
      BY <2>2 DEF TypeOK
    <3> QED BY <1>5, <2>2, <3>1 DEF Ownership, HandedOnce
  <2>3. CASE i \notin DOMAIN client_queue \/ j \notin DOMAIN client_queue
    BY <1>2, <1>5, <2>1, <2>3
  <2> QED BY <2>2, <2>3
<1>6. \A w \in Workers : Holding(w)' \cap (Queued' \cup Pushing') = {}
  BY <1>1, <1>3 DEF Ownership, HandedOnce
<1>7. HandedOnce'
  BY <1>1, <1>5, <1>6 DEF Ownership, HandedOnce
<1>8. OpenOrPending'
  BY <1>1, <1>3 DEF Ownership, OpenOrPending
<1> QED BY <1>7, <1>8 DEF Ownership

(* pop: the head of the queue, which front() read, passes to the worker.   *)
LEMMA OwnershipPop ==
  ASSUME TypeOK, FrontIsStable, Ownership, NEW w \in Workers, Pop(w)
  PROVE  Ownership'
<1> DEFINE h == Head(client_queue)
<1> USE DEF Pop, WorkerGoes
<1>1. /\ open' = open /\ backlog' = backlog /\ Pushing' = Pushing
      /\ Holding(w)' = {h}
      /\ \A v \in Workers \ {w} : Holding(v)' = Holding(v)
  BY DEF kernel, serving, Holding, Pushing, TypeOK, FrontIsStable
<1>2. h = client_queue[1] /\ 1 \in DOMAIN client_queue
  BY HeadTailProperties DEF TypeOK
<1>3. \A i \in DOMAIN client_queue' :
        /\ i + 1 \in DOMAIN client_queue /\ i + 1 # 1 /\ i \in Nat
        /\ client_queue'[i] = client_queue[i + 1]
  BY DEF TypeOK
<1>4. h \in Queued
  BY <1>2 DEF Queued
<1>5. Queued' \subseteq Queued /\ h \notin Queued'
  BY <1>2, <1>3 DEF Ownership, HandedOnce, Queued
<1>6. \A i, j \in DOMAIN client_queue' :
        i # j => client_queue'[i] # client_queue'[j]
  <2> SUFFICES ASSUME NEW i \in DOMAIN client_queue',
                      NEW j \in DOMAIN client_queue', i # j
               PROVE  client_queue'[i] # client_queue'[j]
    OBVIOUS
  <2>1. i + 1 # j + 1
    BY <1>3
  <2> QED BY <1>3, <2>1 DEF Ownership, HandedOnce
<1>7. \A v \in Workers : Holding(v)' \cap (Queued' \cup Pushing') = {}
  BY <1>1, <1>4, <1>5 DEF Ownership, HandedOnce
<1>8. \A u, v \in Workers : u # v => Holding(u)' \cap Holding(v)' = {}
  BY <1>1, <1>4 DEF Ownership, HandedOnce
<1>9. HandedOnce'
  BY <1>1, <1>5, <1>6, <1>7, <1>8 DEF Ownership, HandedOnce
<1>10. OpenOrPending'
  BY <1>1, <1>4, <1>5 DEF Ownership, OpenOrPending
<1> QED BY <1>9, <1>10 DEF Ownership

(* handle_client() returns: the worker lets the connection go, open.       *)
LEMMA OwnershipSessionEnds ==
  ASSUME TypeOK, Ownership, NEW w \in Workers, SessionEnds(w)
  PROVE  Ownership'
<1> USE DEF SessionEnds, WorkerGoes
<1>1. /\ open' = open /\ backlog' = backlog /\ Pushing' = Pushing
      /\ client_queue' = client_queue
      /\ Holding(w)' = {}
      /\ \A v \in Workers \ {w} : Holding(v)' = Holding(v)
  BY DEF kernel, serving, Holding, Pushing, TypeOK
<1>2. Queued' = Queued
  BY <1>1 DEF Queued
<1>3. HandedOnce'
  BY <1>1, <1>2 DEF Ownership, HandedOnce
<1>4. OpenOrPending'
  BY <1>1, <1>2 DEF Ownership, OpenOrPending
<1> QED BY <1>3, <1>4 DEF Ownership

LEMMA OwnershipStep ==
  TypeAndLock /\ FrontIsStable /\ Ownership /\ [Next]_vars => Ownership'
<1> SUFFICES ASSUME TypeOK, LockExcludes, FrontIsStable, Ownership, [Next]_vars
             PROVE  Ownership'
  BY DEF TypeAndLock
<1> DEFINE Still == /\ UNCHANGED <<client_queue, open, backlog>>
                    /\ Pushing' = Pushing
                    /\ \A w \in Workers : Holding(w)' = Holding(w)
<1>0. Still => Ownership'
  BY OwnersSame
<1>1. CASE ServeWaitSpot \/ ServeWaitLock \/ ServePostLock \/ ServePostNum
  <2>1. Still
    BY <1>1 DEF ServeWaitSpot, ServeWaitLock, ServePostLock, ServePostNum,
       Pushing, Holding, kernel, working
  <2> QED BY <1>0, <2>1
<1>2. CASE ProcessEnds \/ \E w \in Workers : KilledBySignal(w)
  <2>1. Still
    BY <1>2 DEF ProcessEnds, KilledBySignal, Pushing, Holding, kernel,
       serving, working
  <2> QED BY <1>0, <2>1
<1>3. ASSUME NEW w \in Workers, WorkerStep(w) PROVE Ownership'
  <2>1. CASE WorkWaitNum(w) \/ WorkWaitLock(w) \/ Front(w)
               \/ WorkPostLock(w) \/ WorkPostSpot(w)
    <3>1. UNCHANGED <<client_queue, open, backlog>> /\ Pushing' = Pushing
      BY <2>1 DEF WorkWaitNum, WorkWaitLock, Front, WorkPostLock,
         WorkPostSpot, WorkerGoes, Pushing, kernel, serving
    <3>2. \A v \in Workers : Holding(v)' = Holding(v)
      BY <2>1 DEF WorkWaitNum, WorkWaitLock, Front, WorkPostLock,
         WorkPostSpot, WorkerGoes, Holding, TypeOK
    <3> QED BY <1>0, <3>1, <3>2
  <2> QED
    BY <1>3, <2>1, OwnershipPop, OwnershipSessionEnds DEF WorkerStep
<1>4. CASE UNCHANGED vars
  <2>1. Still
    BY <1>4 DEF vars, Pushing, Holding, kernel, serving, working
  <2> QED BY <1>0, <2>1
<1> QED
  BY <1>1, <1>2, <1>3, <1>4, NextCases, OwnershipConnect, OwnershipAccept,
     OwnershipAcceptFails, OwnershipPush

-----------------------------------------------------------------------------
(* The inductive invariant: every part of it is needed by the parts after  *)
(* it, and by the refinement.                                              *)
IInv == TypeAndLock /\ Accounts /\ FrontIsStable /\ Ownership

LEMMA IInvInit == Init => IInv
  BY TypeInit, AccountsInit, OwnershipInit DEF IInv

LEMMA IInvStep == IInv /\ [Next]_vars => IInv'
  BY TypeStep, AccountsStep, FrontStep, OwnershipStep DEF IInv

\* In every reachable state the semaphores count what they stand for, and
\* client_queue_lock excludes (server.cc:67-71, 87-93).
THEOREM SemaphoresAlwaysCount == Spec => []SemaphoresCount
<1>1. IInv => SemaphoresCount
  BY DEF IInv, TypeAndLock, Accounts, SemaphoresCount
<1> QED BY <1>1, IInvInit, IInvStep, PTL DEF Spec

\* No connection is served by two workers, or queued twice, or served while it
\* is still queued.
THEOREM ConnectionHandedOnce == Spec => []HandedOnce
<1>1. IInv => HandedOnce
  BY DEF IInv, Ownership
<1> QED BY <1>1, IInvInit, IInvStep, PTL DEF Spec

\* Whatever serve() and the workers hold is an open descriptor that accept()
\* has returned, and accept() returns no connection twice.
THEOREM HeldIsOpen == Spec => []OpenOrPending
<1>1. IInv => OpenOrPending
  BY DEF IInv, Ownership
<1> QED BY <1>1, IInvInit, IInvStep, PTL DEF Spec

-----------------------------------------------------------------------------
(* The refinement.                                                         *)
LEMMA BufferInit == Init => Buffer!Init
  BY DEF Init, Buffer!Init, Entered, Held, Pushing

(* Steps that the buffer does not see.                                     *)
LEMMA BufferStutters ==
  ASSUME client_queue' = client_queue, Entered' = Entered, Held' = Held
  PROVE  UNCHANGED Buffer!vars
  BY DEF Buffer!vars

LEMMA BufferStep == IInv /\ [Next]_vars => [Buffer!Next]_(Buffer!vars)
<1> SUFFICES ASSUME IInv, [Next]_vars
             PROVE  Buffer!Next \/ UNCHANGED Buffer!vars
  OBVIOUS
<1>t. TypeOK /\ LockExcludes /\ Accounts /\ FrontIsStable /\ HandedOnce /\ OpenOrPending
  BY DEF IInv, TypeAndLock, Ownership
<1>1. ASSUME NEW c \in Clients, Connect(c) PROVE UNCHANGED Buffer!vars
  BY <1>1, BufferStutters DEF Connect, Entered, Held, Pushing, serving, working
<1>2. CASE Accept
  <2>1. Head(backlog) \notin open
    BY <1>2, <1>t, HeadTailProperties DEF Accept, TypeOK, OpenOrPending
  <2>2. Entered' = Entered
    BY <1>2, <2>1 DEF Accept, Entered, Pushing
  <2> QED BY <1>2, <2>2, BufferStutters DEF Accept, Held, working
<1>3. CASE AcceptFails \/ ServeWaitSpot \/ ServeWaitLock \/ ServePostLock
             \/ ServePostNum \/ ProcessEnds
  <2>1. client_queue' = client_queue /\ Held' = Held
    BY <1>3 DEF AcceptFails, ServeWaitSpot, ServeWaitLock, ServePostLock,
       ServePostNum, ProcessEnds, Held, working
  <2>2. Entered' = Entered
    BY <1>3 DEF AcceptFails, ServeWaitSpot, ServeWaitLock, ServePostLock,
       ServePostNum, ProcessEnds, Entered, Pushing, kernel, serving
  <2> QED BY <2>1, <2>2, BufferStutters
<1>4. ASSUME NEW w \in Workers, KilledBySignal(w) PROVE UNCHANGED Buffer!vars
  BY <1>4, BufferStutters
  DEF KilledBySignal, Entered, Held, Pushing, kernel, serving, working
<1>5. CASE Push
  <2>1. serve_client \in Clients /\ serve_client \in open
    BY <1>5, <1>t DEF Push, TypeOK, OpenOrPending, Pushing
  <2>2. Entered = open \ {serve_client} /\ Entered' = open
    BY <1>5 DEF Push, Entered, Pushing, kernel
  <2>3. Len(client_queue) < QueueSize
    <3>1. Len(client_queue) \in Nat /\ empty_spots_in_client_queue \in Nat
      BY <1>t, LenProperties DEF TypeOK
    <3>2. Reserved = 1
      BY <1>5 DEF Push, Reserved
    <3> QED
      BY <1>t, <3>1, <3>2, AccountsFinite, QueueSizeAssumption
      DEF Accounts, SpotsAccounted
  <2>4. Held' = Held
    BY <1>5 DEF Push, Held, working
  <2>5. Buffer!Enqueue(serve_client)
    BY <1>5, <2>1, <2>2, <2>3, <2>4 DEF Push, Buffer!Enqueue
  <2> QED BY <2>1, <2>5 DEF Buffer!Next
<1>6. ASSUME NEW w \in Workers, WorkerStep(w)
      PROVE  Buffer!Next \/ UNCHANGED Buffer!vars
  <2>1. CASE Pop(w)
    <3>1. client_queue # <<>> /\ client_queue' = Tail(client_queue)
      BY <2>1 DEF Pop
    <3>2. Held[w] = NoClient /\ Held' = [Held EXCEPT ![w] = Head(client_queue)]
      BY <2>1, <1>t DEF Pop, WorkerGoes, Held, TypeOK, FrontIsStable
    <3>3. Entered' = Entered
      BY <2>1 DEF Pop, WorkerGoes, Entered, Pushing, kernel, serving
    <3>4. Buffer!Dequeue(w)
      BY <3>1, <3>2, <3>3 DEF Buffer!Dequeue
    <3> QED BY <3>4 DEF Buffer!Next
  <2>2. CASE SessionEnds(w)
    <3>1. work_pc[w] = "handle" /\ work_client[w] \in Clients
      BY <2>2, <1>t DEF SessionEnds, WorkerGoes, Holding, OpenOrPending, TypeOK
    <3>2. Held[w] # NoClient
      BY <3>1, NoClientAssumption DEF Held
    <3>3. Held' = [Held EXCEPT ![w] = NoClient]
      BY <2>2, <1>t DEF SessionEnds, WorkerGoes, Held, TypeOK
    <3>4. client_queue' = client_queue /\ Entered' = Entered
      BY <2>2 DEF SessionEnds, WorkerGoes, Entered, Pushing, kernel, serving
    <3>5. Buffer!Release(w)
      BY <3>2, <3>3, <3>4 DEF Buffer!Release
    <3> QED BY <3>5 DEF Buffer!Next
  <2>3. CASE WorkWaitNum(w) \/ WorkWaitLock(w) \/ Front(w)
               \/ WorkPostLock(w) \/ WorkPostSpot(w)
    <3>1. client_queue' = client_queue /\ Entered' = Entered
      BY <2>3 DEF WorkWaitNum, WorkWaitLock, Front, WorkPostLock,
         WorkPostSpot, WorkerGoes, Entered, Pushing, kernel, serving
    <3>2. Held' = Held
      BY <2>3, <1>t DEF WorkWaitNum, WorkWaitLock, Front, WorkPostLock,
         WorkPostSpot, WorkerGoes, Held, TypeOK
    <3> QED BY <3>1, <3>2, BufferStutters
  <2> QED BY <1>6, <2>1, <2>2, <2>3 DEF WorkerStep
<1>7. CASE UNCHANGED vars
  BY <1>7, BufferStutters DEF vars, Entered, Held, Pushing, kernel, serving, working
<1> QED BY <1>1, <1>2, <1>3, <1>4, <1>5, <1>6, <1>7, NextCases

\* serve() and work() implement the bounded first-in first-out buffer.
THEOREM QueueImplementsBuffer == Spec => ImplementsBuffer
  BY BufferInit, BufferStep, IInvInit, IInvStep, PTL
  DEF Spec, ImplementsBuffer, Buffer!Spec
=============================================================================
