------------------------- MODULE SharedStoreProofs -------------------------
(***************************************************************************)
(* Proofs about SharedStore for any number of workers, names and messages: *)
(* the map is used by one thread at a time, an iterator is still valid     *)
(* when it is used, and the store is linearizable.                         *)
(***************************************************************************)
EXTENDS SharedStore, SequenceTheorems, TLAPS

-----------------------------------------------------------------------------
(* The operations keep the map a map.                                      *)
LEMMA StoreOperations ==
  ASSUME NEW s \in Stores, NEW n \in Names, NEW e \in Entry
  PROVE  /\ s[n] # NoUser => push_back(s, n, e) \in Stores
         /\ insert(s, n, e) \in Stores
         /\ ClearName(s, n) \in Stores
  BY NoUserAssumption DEF Stores, push_back, insert, ClearName

LEMMA ListReplyType ==
  ASSUME NEW s \in Stores, NEW n \in Names
  PROVE  ListReply(s, n) \in Replies \ {NoReply}
<1>1. CASE s[n] = NoUser
  BY <1>1, NoReplyAssumption DEF ListReply, Replies
<1>2. CASE s[n] # NoUser
  <2>1. s[n] \in Seq(Entry)
    BY <1>2 DEF Stores
  <2>2. Len(s[n]) \in Nat /\ DOMAIN s[n] = 1..Len(s[n])
    BY <2>1
  <2>3. ASSUME NEW j \in 1..Len(s[n])
        PROVE  s[n][j].id \in Messages
    <3>1. s[n][j] \in Entry
      BY <2>1, ElementOfSeq
    <3> QED BY <3>1 DEF Entry
  <2>4. [j \in DOMAIN s[n] |-> s[n][j].id] \in [1..Len(s[n]) -> Messages]
    BY <2>2, <2>3
  <2>5. [j \in DOMAIN s[n] |-> s[n][j].id] \in Seq(Messages)
    BY <2>2, <2>4, SeqDef
  <2>6. ListReply(s, n) \in [kind : {"list"}, ids : Seq(Messages)]
    BY <1>2, <2>5 DEF ListReply
  <2> QED BY <2>6, NoReplyAssumption DEF Replies
<1> QED BY <1>1, <1>2

LEMMA GetReplyType ==
  ASSUME NEW s \in Stores, NEW n \in Names, NEW i \in Indices
  PROVE  GetReply(s, n, i) \in Replies \ {NoReply}
<1>1. CASE s[n] = NoUser
  BY <1>1, NoReplyAssumption DEF GetReply, Replies
<1>2. CASE s[n] # NoUser
  <2>1. s[n] \in Seq(Entry)
    BY <1>2 DEF Stores
  <2>2. ASSUME Number(i) \in DOMAIN s[n]
        PROVE  s[n][Number(i)] \in Entry
    BY <2>1, <2>2
  <2>3. GetReply(s, n, i) \in {MalformedNumber, NoSuchMessage}
                                 \cup [kind : {"message"}, entry : Entry]
    BY <1>2, <2>2 DEF GetReply
  <2> QED BY <2>3, NoReplyAssumption DEF Replies
<1> QED BY <1>1, <1>2

-----------------------------------------------------------------------------
(* The inductive invariant.                                                *)

\* Where a worker is fits the request it handles.
PlaceFits ==
  \A w \in Workers :
    LET r == request[w] IN
    /\ pc[w] = "refuse" => \/ r.op = "put" /\ Malformed(r.length)
                           \/ r.op \in {"short", "unknown"}
    /\ pc[w] = "receive" => r.op = "put" /\ ~Malformed(r.length)
    /\ pc[w] \in {"sem_wait", "sem_post"} =>
         r.op \in {"put", "list", "get", "reset"}
    /\ pc[w] \in {"find", "access"} => r.op \in {"put", "list", "get"}
    /\ pc[w] \in {"begin", "clear"} => r.op = "reset"
    /\ pc[w] \in {"sem_wait", "find", "access", "sem_post"} /\ r.op = "put" =>
         ~Malformed(r.length)

\* A reset is clearing exactly while it has names left.
WalkFits == \A w \in Workers : walk[w] # {} <=> pc[w] = "clear"

\* An answer exists from the moment it is made, and not before.
ResponseFits ==
  \A w \in Workers :
    /\ pc[w] = "send_response" => response[w] # NoReply
    /\ pc[w] = "sem_post" /\ request[w].op \in {"list", "get"} =>
         response[w] # NoReply

\* Only a client that is gone leaves a message without its contents.
CutMeansGone ==
  \A w \in Workers :
    pc[w] \in {"sem_wait", "find", "access"} /\ request[w].op = "put" =>
      contents[w] \/ w \in gone

Shape == PlaceFits /\ WalkFits /\ ResponseFits /\ CutMeansGone
IInv == TypeOK /\ MapExclusive /\ IteratorValid /\ Shape

LEMMA Goes_ ==
  ASSUME pc \in [Workers -> Pc], NEW w \in Workers, NEW from, NEW to,
         Goes(w, from, to)
  PROVE  /\ pc[w] = from /\ pc'[w] = to
         /\ \A v \in Workers \ {w} : pc'[v] = pc[v]
  BY DEF Goes

LEMMA IInvInit == Init => IInv
  BY NoUserAssumption
  DEF Init, IInv, TypeOK, MapExclusive, IteratorValid, Shape, PlaceFits,
      WalkFits, ResponseFits, CutMeansGone, Inside, Pc, Replies, Stores,
      EmptyStore

-----------------------------------------------------------------------------
LEMMA TypeStep == TypeOK /\ PlaceFits /\ IteratorValid /\ MapExclusive /\ [Next]_vars => TypeOK'
<1> SUFFICES ASSUME TypeOK, PlaceFits, IteratorValid, MapExclusive, [Next]_vars
             PROVE  TypeOK'
  OBVIOUS
<1> USE DEF Pc
<1>1. ASSUME NEW w \in Workers, NEW r \in Requests, GetRequest(w, r) PROVE TypeOK'
  <2>1. Dispatch(r) \in Pc \ {"get_request"}
    BY DEF Dispatch
  <2>2. r.op = "put" => r.id \in Messages
    BY DEF Requests
  <2> QED
    BY <1>1, <2>1, <2>2, NoRequestAssumption DEF GetRequest, Goes, TypeOK
<1>2. ASSUME NEW w \in Workers, PeerLeaves(w) PROVE TypeOK'
  BY <1>2 DEF PeerLeaves, TypeOK, locals
<1>3. ASSUME NEW w \in Workers, Refuse(w) PROVE TypeOK'
  <2>1. MalformedNumber \in Replies /\ Refusal(request[w]) \in Replies
    BY DEF Replies, Refusal
  <2> QED BY <1>3, <2>1 DEF Refuse, Goes, TypeOK, environment
<1>4. ASSUME NEW w \in Workers, Receive(w) PROVE TypeOK'
  BY <1>4 DEF Receive, Goes, TypeOK, environment
<1>5. ASSUME NEW w \in Workers, SemWait(w) PROVE TypeOK'
  BY <1>5 DEF SemWait, Goes, TypeOK, environment, locals
<1>6. ASSUME NEW w \in Workers, Find(w) PROVE TypeOK'
  BY <1>6 DEF Find, Goes, TypeOK, environment
<1>7. ASSUME NEW w \in Workers, Put(w) PROVE TypeOK'
  <2>1. /\ request[w] \in Requests /\ pc[w] = "access"
        /\ request[w].op = "put"
    BY <1>7 DEF Put, Goes, TypeOK
  <2>2. request[w].name \in Names /\ request[w].id \in Messages
    BY <2>1 DEF Requests
  <2>3. NewEntry(w) \in Entry
    BY <2>2 DEF NewEntry, EntryOf, Entry, TypeOK
  <2>4. found[w] => message_map[request[w].name] # NoUser
    BY <2>1 DEF IteratorValid
  <2>5. message_map' \in Stores
    BY <1>7, <2>2, <2>3, <2>4, StoreOperations DEF Put, TypeOK
  <2> QED BY <1>7, <2>5 DEF Put, Goes, TypeOK, environment, locals
<1>8. ASSUME NEW w \in Workers, List(w) PROVE TypeOK'
  <2>1. request[w] \in Requests /\ request[w].op = "list"
    BY <1>8 DEF List, Goes, TypeOK
  <2>2. request[w].name \in Names
    BY <2>1 DEF Requests
  <2>3. ListReply(message_map, request[w].name) \in Replies /\ NoSuchUser \in Replies
    BY <2>2, ListReplyType DEF Replies, TypeOK
  <2> QED BY <1>8, <2>3 DEF List, Goes, TypeOK, environment
<1>9. ASSUME NEW w \in Workers, Retrieve(w) PROVE TypeOK'
  <2>1. request[w] \in Requests /\ request[w].op = "get"
    BY <1>9 DEF Retrieve, Goes, TypeOK
  <2>2. request[w].name \in Names /\ request[w].index \in Indices
    BY <2>1 DEF Requests
  <2>3. /\ GetReply(message_map, request[w].name, request[w].index) \in Replies
        /\ NoSuchUser \in Replies
    BY <2>2, GetReplyType DEF Replies, TypeOK
  <2> QED BY <1>9, <2>3 DEF Retrieve, Goes, TypeOK, environment
<1>10. ASSUME NEW w \in Workers, BeginReset(w) PROVE TypeOK'
  BY <1>10 DEF BeginReset, Goes, TypeOK, environment
<1>11. ASSUME NEW w \in Workers, Clear(w) PROVE TypeOK'
  <2> PICK n \in walk[w] :
        /\ message_map' = ClearName(message_map, n)
        /\ walk' = [walk EXCEPT ![w] = @ \ {n}]
        /\ Goes(w, "clear", IF walk'[w] = {} THEN "sem_post" ELSE "clear")
        /\ UNCHANGED <<message_map_lock, request, contents, found, response,
                       environment>>
    BY <1>11 DEF Clear
  <2>1. n \in Names
    BY DEF TypeOK
  <2>2. message_map' \in Stores
    BY <2>1 DEF TypeOK, Stores, ClearName
  <2> QED BY <2>1, <2>2 DEF Goes, TypeOK, environment
<1>12. ASSUME NEW w \in Workers, SemPost(w) PROVE TypeOK'
  <2>1. message_map_lock = 0
    BY <1>12 DEF SemPost, Goes, MapExclusive, Inside
  <2> QED BY <1>12, <2>1 DEF SemPost, Goes, TypeOK, Replies, environment
<1>13. ASSUME NEW w \in Workers, SendResponse(w) PROVE TypeOK'
  BY <1>13 DEF SendResponse, Goes, TypeOK, Replies
<1>14. CASE UNCHANGED vars
  BY <1>14 DEF vars, TypeOK, locals, environment
<1> QED
  BY <1>1, <1>2, <1>3, <1>4, <1>5, <1>6, <1>7, <1>8, <1>9, <1>10, <1>11,
     <1>12, <1>13, <1>14 DEF Next, InLock

-----------------------------------------------------------------------------
(* The lock.  Every step of a worker that is not sem_wait or sem_post      *)
(* leaves the lock alone and stays on its side of it.                      *)
StepOf(w) ==
  \/ \E r \in Requests : GetRequest(w, r)
  \/ PeerLeaves(w)
  \/ Refuse(w) \/ Receive(w) \/ SemWait(w)
  \/ InLock(w)
  \/ SendResponse(w)

LEMMA StaysOnSide ==
  ASSUME TypeOK, NEW w \in Workers, StepOf(w), ~SemWait(w), ~SemPost(w)
  PROVE  /\ message_map_lock' = message_map_lock
         /\ \A v \in Workers : Inside(v)' <=> Inside(v)
<1> USE DEF Inside, Goes, TypeOK
<1>1. ASSUME NEW r \in Requests, GetRequest(w, r)
      PROVE  /\ message_map_lock' = message_map_lock
             /\ \A v \in Workers : Inside(v)' <=> Inside(v)
  BY <1>1 DEF GetRequest, Dispatch
<1>2. CASE PeerLeaves(w) \/ Refuse(w) \/ Receive(w)
  BY <1>2 DEF PeerLeaves, Refuse, Receive
<1>3. CASE Find(w) \/ Put(w) \/ List(w) \/ Retrieve(w)
  BY <1>3 DEF Find, Put, List, Retrieve
<1>4. CASE BeginReset(w)
  BY <1>4 DEF BeginReset
<1>5. CASE Clear(w)
  BY <1>5 DEF Clear
<1>6. CASE SendResponse(w)
  BY <1>6 DEF SendResponse
<1> QED BY <1>1, <1>2, <1>3, <1>4, <1>5, <1>6 DEF StepOf, InLock

LEMMA LockStep == TypeOK /\ MapExclusive /\ [Next]_vars => MapExclusive'
<1> SUFFICES ASSUME TypeOK, MapExclusive, [Next]_vars PROVE MapExclusive'
  OBVIOUS
<1>1. CASE UNCHANGED vars
  BY <1>1 DEF vars, MapExclusive, Inside
<1>2. ASSUME NEW w \in Workers, StepOf(w) PROVE MapExclusive'
  <2>1. CASE SemWait(w)
    <3>1. message_map_lock = 1 /\ message_map_lock' = 0
      BY <2>1 DEF SemWait, TypeOK
    <3>2. \A v \in Workers : ~Inside(v)
      BY <3>1 DEF MapExclusive
    <3>3. \A v \in Workers : Inside(v)' <=> v = w
      BY <2>1, <3>2 DEF SemWait, Goes, Inside, TypeOK
    <3> QED BY <3>1, <3>3 DEF MapExclusive
  <2>2. CASE SemPost(w)
    <3>1. Inside(w)
      BY <2>2 DEF SemPost, Goes, Inside
    <3>2. message_map_lock = 0 /\ \A v \in Workers : Inside(v) => v = w
      BY <3>1 DEF MapExclusive
    <3>3. \A v \in Workers : ~Inside(v)'
      BY <2>2, <3>2 DEF SemPost, Goes, Inside, TypeOK
    <3>4. message_map_lock' = 1
      BY <2>2, <3>2 DEF SemPost
    <3> QED BY <3>3, <3>4 DEF MapExclusive
  <2>3. CASE ~SemWait(w) /\ ~SemPost(w)
    BY <1>2, <2>3, StaysOnSide DEF MapExclusive
  <2> QED BY <2>1, <2>2, <2>3
<1> QED BY <1>1, <1>2 DEF Next, StepOf

-----------------------------------------------------------------------------
(* The map changes only in the hands of a worker inside, so what another   *)
(* worker inside knew of it would be stale; but there is no other.         *)
LEMMA IteratorStep ==
  IInv /\ [Next]_vars => IteratorValid'
<1> SUFFICES ASSUME TypeOK, MapExclusive, IteratorValid, WalkFits, PlaceFits,
                    [Next]_vars, NEW v \in Workers
             PROVE  /\ pc'[v] = "access" =>
                         (found'[v] <=> message_map'[request'[v].name] # NoUser)
                    /\ \A n \in walk'[v] : message_map'[n] # NoUser
  BY DEF IInv, Shape, IteratorValid
<1> DEFINE Good == /\ pc'[v] = "access" =>
                        (found'[v] <=> message_map'[request'[v].name] # NoUser)
                   /\ \A n \in walk'[v] : message_map'[n] # NoUser
<1> DEFINE Same == /\ pc'[v] = "access" => pc[v] = "access"
                   /\ pc'[v] = "access" => /\ found'[v] = found[v]
                                           /\ request'[v] = request[v]
                   /\ message_map' = message_map
                   /\ walk'[v] = walk[v]
<1>0. Same => Good
  BY DEF IteratorValid
<1>1. ASSUME NEW w \in Workers, NEW r \in Requests, GetRequest(w, r) PROVE Good
  <2>1. Same
    BY <1>1 DEF GetRequest, Goes, Dispatch, TypeOK
  <2> QED BY <1>0, <2>1
<1>2. ASSUME NEW w \in Workers,
             \/ PeerLeaves(w) \/ Refuse(w) \/ Receive(w) \/ SemWait(w)
             \/ List(w) \/ Retrieve(w) \/ SemPost(w) \/ SendResponse(w)
      PROVE  Good
  <2>1. Same
    BY <1>2 DEF PeerLeaves, Refuse, Receive, SemWait, List, Retrieve, SemPost,
       SendResponse, Goes, TypeOK, locals, environment
  <2> QED BY <1>0, <2>1
<1>3. ASSUME NEW w \in Workers, Find(w) PROVE Good
  <2>1. CASE v # w
    <3>1. Same
      BY <1>3, <2>1 DEF Find, Goes, TypeOK
    <3> QED BY <1>0, <3>1
  <2>2. CASE v = w
    BY <1>3, <2>2 DEF Find, Goes, TypeOK, IteratorValid
  <2> QED BY <2>1, <2>2
<1>4. ASSUME NEW w \in Workers, BeginReset(w) PROVE Good
  <2>1. CASE v # w
    <3>1. Same
      BY <1>4, <2>1 DEF BeginReset, Goes, TypeOK
    <3> QED BY <1>0, <3>1
  <2>2. CASE v = w
    BY <1>4, <2>2 DEF BeginReset, Goes, TypeOK
  <2> QED BY <2>1, <2>2
<1>5. ASSUME NEW w \in Workers, Put(w) PROVE Good
  <2>1. v # w => pc[v] # "access" /\ pc[v] # "clear"
    BY <1>5 DEF Put, Goes, MapExclusive, Inside
  <2>2. pc'[v] # "access"
    BY <1>5, <2>1 DEF Put, Goes, TypeOK
  <2>3. walk'[v] = {}
    BY <1>5, <2>1 DEF Put, Goes, WalkFits, locals
  <2> QED BY <2>2, <2>3
<1>6. ASSUME NEW w \in Workers, Clear(w) PROVE Good
  <2> PICK n \in walk[w] :
        /\ message_map' = ClearName(message_map, n)
        /\ walk' = [walk EXCEPT ![w] = @ \ {n}]
        /\ Goes(w, "clear", IF walk'[w] = {} THEN "sem_post" ELSE "clear")
        /\ UNCHANGED <<message_map_lock, request, contents, found, response,
                       environment>>
    BY <1>6 DEF Clear
  <2>1. v # w => pc[v] # "access" /\ pc[v] # "clear"
    BY DEF Goes, MapExclusive, Inside
  <2>2. pc'[v] # "access"
    BY <2>1 DEF Goes, TypeOK
  <2>3. \A m \in walk'[v] : message_map[m] # NoUser /\ m \in Names
    BY DEF IteratorValid, TypeOK
  <2>4. \A m \in Names : message_map[m] # NoUser => message_map'[m] # NoUser
    <3>1. <<>> # NoUser
      <4>1. <<>> \in Seq(Entry)
        OBVIOUS
      <4> QED BY <4>1, NoUserAssumption, Zenon
    <3>2. message_map' = [message_map EXCEPT ![n] = <<>>]
      BY DEF ClearName
    <3>3. message_map \in [Names -> Seq(Entry) \cup {NoUser}]
      BY DEF TypeOK, Stores
    <3> QED BY <3>1, <3>2, <3>3
  <2> QED BY <2>2, <2>3, <2>4
<1>7. CASE UNCHANGED vars
  BY <1>0, <1>7 DEF vars, locals
<1> QED BY <1>1, <1>2, <1>3, <1>4, <1>5, <1>6, <1>7 DEF Next, InLock

-----------------------------------------------------------------------------
(* The rest of the inductive invariant: each step leaves every worker where *)
(* its request belongs.                                                    *)
LEMMA ShapeStep == IInv /\ [Next]_vars => Shape'
<1> SUFFICES ASSUME TypeOK, MapExclusive, IteratorValid,
                    PlaceFits, WalkFits, ResponseFits, CutMeansGone, [Next]_vars
             PROVE  PlaceFits' /\ WalkFits' /\ ResponseFits' /\ CutMeansGone'
  BY DEF IInv, Shape
<1> DEFINE Goal == PlaceFits' /\ WalkFits' /\ ResponseFits' /\ CutMeansGone'
<1>1. ASSUME NEW w \in Workers, NEW r \in Requests, GetRequest(w, r) PROVE Goal
  <2>1. r.op \in {"put", "list", "get", "reset", "short", "unknown"}
    BY DEF Requests
  <2>2. PlaceFits'
    BY <1>1, <2>1 DEF GetRequest, Goes, Dispatch, TypeOK, PlaceFits
  <2>3. WalkFits'
    BY <1>1 DEF GetRequest, Goes, Dispatch, TypeOK, WalkFits
  <2>4. ResponseFits'
    BY <1>1 DEF GetRequest, Goes, Dispatch, TypeOK, ResponseFits
  <2>5. CutMeansGone'
    BY <1>1 DEF GetRequest, Goes, Dispatch, TypeOK, CutMeansGone
  <2> QED BY <2>2, <2>3, <2>4, <2>5
<1>2. ASSUME NEW w \in Workers, PeerLeaves(w) PROVE Goal
  BY <1>2 DEF PeerLeaves, PlaceFits, WalkFits, ResponseFits, CutMeansGone, locals
<1>3. ASSUME NEW w \in Workers, Refuse(w) PROVE Goal
  <2>1. PlaceFits'
    BY <1>3 DEF Refuse, Goes, TypeOK, PlaceFits
  <2>2. WalkFits'
    BY <1>3 DEF Refuse, Goes, TypeOK, WalkFits
  <2>3. ResponseFits'
    BY <1>3, NoReplyAssumption DEF Refuse, Goes, TypeOK, ResponseFits, Refusal
  <2>4. CutMeansGone'
    BY <1>3 DEF Refuse, Goes, TypeOK, CutMeansGone, environment
  <2> QED BY <2>1, <2>2, <2>3, <2>4
<1>4. ASSUME NEW w \in Workers, Receive(w) PROVE Goal
  <2>1. PlaceFits' /\ WalkFits' /\ ResponseFits'
    BY <1>4 DEF Receive, Goes, TypeOK, PlaceFits, WalkFits, ResponseFits
  <2>2. CutMeansGone'
    BY <1>4 DEF Receive, Goes, TypeOK, CutMeansGone, environment
  <2> QED BY <2>1, <2>2
<1>5. ASSUME NEW w \in Workers, SemWait(w) PROVE Goal
  <2>1. PlaceFits'
    BY <1>5 DEF SemWait, Goes, TypeOK, PlaceFits, locals
  <2>2. WalkFits' /\ ResponseFits' /\ CutMeansGone'
    BY <1>5 DEF SemWait, Goes, TypeOK, WalkFits, ResponseFits, CutMeansGone,
       locals, environment
  <2> QED BY <2>1, <2>2
<1>6. ASSUME NEW w \in Workers, Find(w) PROVE Goal
  <2>1. PlaceFits' /\ WalkFits'
    BY <1>6 DEF Find, Goes, TypeOK, PlaceFits, WalkFits
  <2>2. ResponseFits' /\ CutMeansGone'
    BY <1>6 DEF Find, Goes, TypeOK, ResponseFits, CutMeansGone, environment
  <2> QED BY <2>1, <2>2
<1>7. ASSUME NEW w \in Workers, Put(w) PROVE Goal
  <2>1. PlaceFits' /\ WalkFits'
    BY <1>7 DEF Put, Goes, TypeOK, PlaceFits, WalkFits, locals
  <2>2. ResponseFits' /\ CutMeansGone'
    BY <1>7 DEF Put, Goes, TypeOK, ResponseFits, CutMeansGone, locals, environment
  <2> QED BY <2>1, <2>2
<1>8. ASSUME NEW w \in Workers, List(w) PROVE Goal
  <2>1. request[w] \in Requests /\ request[w].op = "list"
    BY <1>8 DEF List, Goes, TypeOK
  <2>2. request[w].name \in Names
    BY <2>1 DEF Requests
  <2>3. response'[w] # NoReply
    BY <1>8, <2>2, ListReplyType, NoReplyAssumption DEF List, TypeOK
  <2>4. PlaceFits' /\ WalkFits'
    BY <1>8 DEF List, Goes, TypeOK, PlaceFits, WalkFits
  <2>5. ResponseFits' /\ CutMeansGone'
    BY <1>8, <2>3 DEF List, Goes, TypeOK, ResponseFits, CutMeansGone, environment
  <2> QED BY <2>4, <2>5
<1>9. ASSUME NEW w \in Workers, Retrieve(w) PROVE Goal
  <2>1. request[w] \in Requests /\ request[w].op = "get"
    BY <1>9 DEF Retrieve, Goes, TypeOK
  <2>2. request[w].name \in Names /\ request[w].index \in Indices
    BY <2>1 DEF Requests
  <2>3. response'[w] # NoReply
    BY <1>9, <2>2, GetReplyType, NoReplyAssumption DEF Retrieve, TypeOK
  <2>4. PlaceFits' /\ WalkFits'
    BY <1>9 DEF Retrieve, Goes, TypeOK, PlaceFits, WalkFits
  <2>5. ResponseFits' /\ CutMeansGone'
    BY <1>9, <2>3 DEF Retrieve, Goes, TypeOK, ResponseFits, CutMeansGone, environment
  <2> QED BY <2>4, <2>5
<1>10. ASSUME NEW w \in Workers, BeginReset(w) PROVE Goal
  <2>1. request[w].op = "reset"
    BY <1>10 DEF BeginReset, Goes, PlaceFits
  <2>2. PlaceFits' /\ WalkFits'
    BY <1>10, <2>1 DEF BeginReset, Goes, TypeOK, PlaceFits, WalkFits
  <2>3. ResponseFits' /\ CutMeansGone'
    BY <1>10, <2>1 DEF BeginReset, Goes, TypeOK, ResponseFits, CutMeansGone, environment
  <2> QED BY <2>2, <2>3
<1>11. ASSUME NEW w \in Workers, Clear(w) PROVE Goal
  <2> PICK n \in walk[w] :
        /\ message_map' = ClearName(message_map, n)
        /\ walk' = [walk EXCEPT ![w] = @ \ {n}]
        /\ Goes(w, "clear", IF walk'[w] = {} THEN "sem_post" ELSE "clear")
        /\ UNCHANGED <<message_map_lock, request, contents, found, response,
                       environment>>
    BY <1>11 DEF Clear
  <2>1. request[w].op = "reset"
    BY DEF Goes, PlaceFits
  <2>2. PlaceFits' /\ WalkFits'
    BY <2>1 DEF Goes, TypeOK, PlaceFits, WalkFits
  <2>3. ResponseFits' /\ CutMeansGone'
    BY <2>1 DEF Goes, TypeOK, ResponseFits, CutMeansGone, environment
  <2> QED BY <2>2, <2>3
<1>12. ASSUME NEW w \in Workers, SemPost(w) PROVE Goal
  <2>1. request[w].op \in {"put", "list", "get", "reset"}
    BY <1>12 DEF SemPost, Goes, PlaceFits
  <2>2. PlaceFits' /\ WalkFits'
    BY <1>12 DEF SemPost, Goes, TypeOK, PlaceFits, WalkFits
  <2>3. response'[w] # NoReply
    BY <1>12, <2>1, NoReplyAssumption DEF SemPost, Goes, TypeOK, ResponseFits
  <2>4. \A v \in Workers \ {w} : response'[v] = response[v]
    BY <1>12 DEF SemPost, TypeOK
  <2>5. ResponseFits' /\ CutMeansGone'
    BY <1>12, <2>3, <2>4
    DEF SemPost, Goes, TypeOK, ResponseFits, CutMeansGone, environment
  <2> QED BY <2>2, <2>5
<1>13. ASSUME NEW w \in Workers, SendResponse(w) PROVE Goal
  <2>1. PlaceFits' /\ WalkFits'
    BY <1>13 DEF SendResponse, Goes, TypeOK, PlaceFits, WalkFits
  <2>2. ResponseFits' /\ CutMeansGone'
    BY <1>13 DEF SendResponse, Goes, TypeOK, ResponseFits, CutMeansGone
  <2> QED BY <2>1, <2>2
<1>14. CASE UNCHANGED vars
  BY <1>14 DEF vars, PlaceFits, WalkFits, ResponseFits, CutMeansGone, locals, environment
<1> QED
  BY <1>1, <1>2, <1>3, <1>4, <1>5, <1>6, <1>7, <1>8, <1>9, <1>10, <1>11,
     <1>12, <1>13, <1>14 DEF Next, InLock

LEMMA IInvStep == IInv /\ [Next]_vars => IInv'
  BY TypeStep, LockStep, IteratorStep, ShapeStep DEF IInv, Shape

-----------------------------------------------------------------------------
\* Every variable keeps its type; in particular sem_post never raises the
\* semaphore above one.
THEOREM StoreTypeCorrect == Spec => []TypeOK
  BY IInvInit, IInvStep, PTL DEF Spec, IInv

\* README of lab2, message_map_lock_: the critical sections exclude each other.
THEOREM MapIsExclusive == Spec => []MapExclusive
  BY IInvInit, IInvStep, PTL DEF Spec, IInv

\* The result of find(), and the position of a reset in the map, are never
\* stale when they are used.
THEOREM IteratorsStayValid == Spec => []IteratorValid
  BY IInvInit, IInvStep, PTL DEF Spec, IInv

-----------------------------------------------------------------------------
(* Only Put and Clear change the map.  Put extends the sequence of a name  *)
(* that find() has found, or gives one to a name that had none; Clear      *)
(* empties one that its worker is still to walk.                           *)
NumbersStay ==
  \A n \in Names :
    message_map[n] # NoUser =>
      /\ message_map'[n] # NoUser
      /\ \/ Extends(message_map[n], message_map'[n])
         \/ message_map'[n] = <<>> /\ \E w \in Workers : n \in walk[w]

LEMMA ExtendsItself ==
  ASSUME NEW s \in Seq(Entry) PROVE s # NoUser /\ Extends(s, s)
<1>1. Len(s) \in Nat
  OBVIOUS
<1> QED BY <1>1, NoUserAssumption DEF Extends

LEMMA AppendExtends ==
  ASSUME NEW s \in Seq(Entry), NEW e \in Entry
  PROVE  Append(s, e) # NoUser /\ Extends(s, Append(s, e))
<1>1. Append(s, e) \in Seq(Entry)
  OBVIOUS
<1>2. Len(s) \in Nat /\ Len(Append(s, e)) = Len(s) + 1
  OBVIOUS
<1>3. \A i \in DOMAIN s : Append(s, e)[i] = s[i]
  OBVIOUS
<1> QED BY <1>1, <1>2, <1>3, NoUserAssumption DEF Extends

LEMMA MapStays ==
  ASSUME TypeOK, message_map' = message_map PROVE NumbersStay
<1> SUFFICES ASSUME NEW n \in Names, message_map[n] # NoUser
             PROVE  /\ message_map[n] # NoUser
                    /\ Extends(message_map[n], message_map[n])
  BY DEF NumbersStay
<1>1. message_map[n] \in Seq(Entry)
  BY DEF TypeOK, Stores
<1> QED BY <1>1, ExtendsItself

LEMMA PutNumbers ==
  ASSUME IInv, NEW w \in Workers, Put(w) PROVE NumbersStay
<1> USE DEF IInv
<1>1. request[w] \in Requests /\ request[w].op = "put" /\ pc[w] = "access"
  BY DEF Put, Goes, TypeOK
<1>2. request[w].name \in Names /\ request[w].id \in Messages
  BY <1>1 DEF Requests
<1>3. NewEntry(w) \in Entry
  BY <1>2 DEF NewEntry, EntryOf, Entry, TypeOK
<1>4. message_map \in [Names -> Seq(Entry) \cup {NoUser}]
  BY DEF TypeOK, Stores
<1> SUFFICES ASSUME NEW n \in Names, message_map[n] # NoUser
             PROVE  /\ message_map'[n] # NoUser
                    /\ Extends(message_map[n], message_map'[n])
  BY DEF NumbersStay
<1>5. message_map[n] \in Seq(Entry)
  BY <1>4
<1>6. CASE n = request[w].name
  <2>1. found[w]
    BY <1>1, <1>6 DEF IteratorValid
  <2>2. message_map'[n] = Append(message_map[n], NewEntry(w))
    BY <2>1, <1>4, <1>6 DEF Put, push_back
  <2> QED BY <2>2, <1>3, <1>5, AppendExtends
<1>7. CASE n # request[w].name
  <2>1. message_map'[n] = message_map[n]
    BY <1>4, <1>7 DEF Put, push_back, insert
  <2> QED BY <2>1, <1>5, ExtendsItself
<1> QED BY <1>6, <1>7

LEMMA ClearNumbers ==
  ASSUME IInv, NEW w \in Workers, Clear(w) PROVE NumbersStay
<1>1. PICK k \in walk[w] : message_map' = ClearName(message_map, k)
  BY DEF Clear
<1>2. message_map \in [Names -> Seq(Entry) \cup {NoUser}]
  BY DEF IInv, TypeOK, Stores
<1> SUFFICES ASSUME NEW n \in Names, message_map[n] # NoUser
             PROVE  /\ message_map'[n] # NoUser
                    /\ \/ Extends(message_map[n], message_map'[n])
                       \/ message_map'[n] = <<>> /\ \E v \in Workers : n \in walk[v]
  BY DEF NumbersStay
<1>3. CASE n = k
  <2>1. message_map'[n] = <<>> /\ <<>> \in Seq(Entry)
    BY <1>1, <1>2, <1>3 DEF ClearName
  <2> QED BY <2>1, <1>1, <1>3, NoUserAssumption
<1>4. CASE n # k
  <2>1. message_map'[n] = message_map[n] /\ message_map[n] \in Seq(Entry)
    BY <1>1, <1>2, <1>4 DEF ClearName
  <2> QED BY <2>1, ExtendsItself
<1> QED BY <1>3, <1>4

LEMMA NumbersStep == IInv /\ [Next]_vars => NumbersStay
<1> SUFFICES ASSUME IInv, [Next]_vars PROVE NumbersStay
  OBVIOUS
<1>1. ASSUME NEW w \in Workers, StepOf(w) PROVE NumbersStay
  <2>1. CASE Put(w)
    BY <2>1, PutNumbers
  <2>2. CASE Clear(w)
    BY <2>2, ClearNumbers
  <2>3. CASE ~Put(w) /\ ~Clear(w)
    <3>1. message_map' = message_map
      BY <1>1, <2>3 DEF StepOf, InLock, GetRequest, PeerLeaves, Refuse, Receive,
         SemWait, Find, List, Retrieve, BeginReset, SemPost, SendResponse
    <3> QED BY <3>1, MapStays DEF IInv
  <2> QED BY <2>1, <2>2, <2>3
<1>2. CASE UNCHANGED vars
  BY <1>2, MapStays DEF vars, IInv
<1> QED BY <1>1, <1>2 DEF Next, StepOf

\* No request but a reset changes what is behind a number that list showed
\* (client-handler.cc:84, 89, 156).
THEOREM NumbersAreStable == Spec => IndexStable
<1>1. IInv /\ [Next]_vars => [NumbersStay]_vars
  BY NumbersStep
<1> QED BY <1>1, IInvInit, IInvStep, PTL DEF Spec, IndexStable, NumbersStay

-----------------------------------------------------------------------------
(* A put brings a message of its own; until it is in the map no place has  *)
(* it, and no other put brings it.                                         *)
Pending(w) ==
  pc[w] \in {"receive", "sem_wait", "find", "access"} /\ request[w].op = "put"

Fresh ==
  /\ \A n \in Names : \A i \in Places(n) : message_map[n][i].id \in sent
  /\ \A w \in Workers : Pending(w) =>
       /\ request[w].id \in sent
       /\ \A n \in Names : \A i \in Places(n) : message_map[n][i].id # request[w].id
  /\ \A v, w \in Workers :
       Pending(v) /\ Pending(w) /\ request[v].id = request[w].id => v = w

LEMMA FreshInit == Init => StoredOnce /\ Fresh
<1> SUFFICES ASSUME Init PROVE StoredOnce /\ Fresh
  OBVIOUS
<1>1. \A n \in Names : Places(n) = {}
  BY DEF Init, EmptyStore, Places
<1>2. \A w \in Workers : ~Pending(w)
  BY DEF Init, Pending
<1> QED BY <1>1, <1>2 DEF StoredOnce, Fresh

\* A step that brings no message and only takes some away.
LEMMA NothingNew ==
  ASSUME StoredOnce, Fresh, sent' = sent,
         \A n \in Names : \A i \in Places(n)' :
           i \in Places(n) /\ message_map'[n][i] = message_map[n][i],
         \A w \in Workers : Pending(w)' => Pending(w) /\ request'[w] = request[w]
  PROVE  StoredOnce' /\ Fresh'
<1>1. StoredOnce'
  BY DEF StoredOnce
<1>2. \A n \in Names : \A i \in Places(n)' : message_map'[n][i].id \in sent'
  BY DEF Fresh
<1>3. ASSUME NEW w \in Workers, Pending(w)'
      PROVE  /\ request'[w].id \in sent'
             /\ \A n \in Names : \A i \in Places(n)' : message_map'[n][i].id # request'[w].id
  BY <1>3 DEF Fresh
<1>4. \A v, w \in Workers :
        Pending(v)' /\ Pending(w)' /\ request'[v].id = request'[w].id => v = w
  BY DEF Fresh
<1>5. Fresh'
  BY <1>2, <1>3, <1>4 DEF Fresh
<1> QED BY <1>1, <1>5

LEMMA FreshRequest ==
  ASSUME IInv, StoredOnce, Fresh, NEW w \in Workers, NEW r \in Requests, GetRequest(w, r)
  PROVE  StoredOnce' /\ Fresh'
<1>1. /\ message_map' = message_map /\ request' = [request EXCEPT ![w] = r]
      /\ r.op = "put" => r.id \notin sent
      /\ sent' = IF r.op = "put" THEN sent \cup {r.id} ELSE sent
      /\ pc' = [pc EXCEPT ![w] = Dispatch(r)]
  BY DEF GetRequest, Goes
<1>2. pc \in [Workers -> Pc] /\ DOMAIN request = Workers
  BY DEF IInv, TypeOK
<1>3. request'[w] = r /\ \A v \in Workers \ {w} : request'[v] = request[v] /\ pc'[v] = pc[v]
  BY <1>1, <1>2
<1>4. \A v \in Workers \ {w} : Pending(v)' <=> Pending(v)
  BY <1>3 DEF Pending
<1>5. Pending(w)' => r.op = "put"
  BY <1>3 DEF Pending
<1>6. \A n : Places(n)' = Places(n)
  BY <1>1 DEF Places
<1>7. StoredOnce'
  BY <1>1, <1>6 DEF StoredOnce
<1>8. \A n \in Names : \A i \in Places(n)' : message_map'[n][i].id \in sent'
  BY <1>1, <1>6 DEF Fresh
<1>9. ASSUME NEW v \in Workers, Pending(v)'
      PROVE  /\ request'[v].id \in sent'
             /\ \A n \in Names : \A i \in Places(n)' : message_map'[n][i].id # request'[v].id
  <2>1. CASE v = w
    BY <1>1, <1>3, <1>5, <1>6, <1>9, <2>1 DEF Fresh
  <2>2. CASE v # w
    BY <1>1, <1>3, <1>4, <1>6, <1>9, <2>2 DEF Fresh
  <2> QED BY <2>1, <2>2
<1>10. ASSUME NEW u \in Workers, NEW v \in Workers, Pending(u)', Pending(v)',
              request'[u].id = request'[v].id
       PROVE  u = v
  <2>1. CASE u # w /\ v # w
    BY <1>3, <1>4, <1>10, <2>1 DEF Fresh
  <2>2. CASE u = w /\ v # w
    BY <1>1, <1>3, <1>4, <1>5, <1>10, <2>2 DEF Fresh
  <2>3. CASE u # w /\ v = w
    BY <1>1, <1>3, <1>4, <1>5, <1>10, <2>3 DEF Fresh
  <2> QED BY <2>1, <2>2, <2>3
<1>11. Fresh'
  BY <1>8, <1>9, <1>10 DEF Fresh
<1> QED BY <1>7, <1>11

\* A put adds its message at one place, the end of its name's sequence.
LEMMA FreshPut ==
  ASSUME IInv, StoredOnce, Fresh, NEW w \in Workers, Put(w)
  PROVE  StoredOnce' /\ Fresh'
<1> DEFINE r == request[w]
<1>1. /\ pc[w] = "access" /\ r.op = "put" /\ pc' = [pc EXCEPT ![w] = "sem_post"]
      /\ request' = request /\ sent' = sent
  BY DEF Put, Goes, locals, environment
<1>2. r.name \in Names /\ NewEntry(w).id = r.id
  <2>1. r \in Requests
    BY <1>1 DEF IInv, TypeOK
  <2> QED BY <1>1, <2>1 DEF Requests, NewEntry, EntryOf
<1>3. message_map \in [Names -> Seq(Entry) \cup {NoUser}] /\ pc \in [Workers -> Pc]
  BY DEF IInv, TypeOK, Stores
<1>4. found[w] <=> message_map[r.name] # NoUser
  BY <1>1 DEF IInv, IteratorValid
<1> DEFINE old == IF message_map[r.name] = NoUser THEN <<>> ELSE message_map[r.name]
           k == Len(old) + 1
<1>5. old \in Seq(Entry) /\ Len(old) \in Nat /\ DOMAIN old = 1..Len(old)
      /\ DOMAIN old = Places(r.name)
  BY <1>2, <1>3 DEF Places
<1>6. message_map'[r.name] = Append(old, NewEntry(w))
  <2>1. CASE message_map[r.name] = NoUser
    BY <1>2, <1>3, <1>4, <2>1 DEF Put, insert
  <2>2. CASE message_map[r.name] # NoUser
    BY <1>2, <1>3, <1>4, <2>2 DEF Put, push_back
  <2> QED BY <2>1, <2>2
<1>7. \A n \in Names \ {r.name} : message_map'[n] = message_map[n]
  BY <1>3 DEF Put, insert, push_back
<1>8. ASSUME NEW n \in Names, NEW i \in Places(n)'
      PROVE  \/ i \in Places(n) /\ message_map'[n][i] = message_map[n][i]
             \/ n = r.name /\ i = k /\ message_map'[n][i].id = r.id
  <2>1. CASE n = r.name
    <3> DEFINE new == Append(old, NewEntry(w))
    <3>1. i \in DOMAIN new
      BY <1>6, <1>8, <2>1 DEF Places
    <3>2. DOMAIN new = 1..k /\ new[k] = NewEntry(w)
          /\ \A j \in 1..Len(old) : new[j] = old[j]
      BY <1>5
    <3>3. i = k \/ i \in 1..Len(old)
      BY <1>5, <3>1, <3>2
    <3>4. CASE i = k
      BY <1>2, <1>6, <2>1, <3>2, <3>4
    <3>5. CASE i \in 1..Len(old)
      <4>1. i \in Places(r.name) /\ message_map'[n][i] = old[i]
        BY <1>5, <1>6, <2>1, <3>2, <3>5
      <4>2. old = message_map[r.name]
        BY <4>1 DEF Places
      <4> QED BY <2>1, <4>1, <4>2
    <3> QED BY <3>3, <3>4, <3>5
  <2>2. CASE n # r.name
    BY <1>7, <1>8, <2>2 DEF Places
  <2> QED BY <2>1, <2>2
<1>9. Pending(w) /\ ~Pending(w)' /\ \A v \in Workers : Pending(v)' => Pending(v) /\ v # w
  BY <1>1, <1>3 DEF Pending
<1>10. /\ \A n \in Names : \A i \in Places(n) : message_map[n][i].id # r.id
       /\ r.id \in sent
       /\ \A v \in Workers : Pending(v) /\ v # w => request[v].id # r.id
  BY <1>9 DEF Fresh
<1> HIDE DEF r, k, old
<1>11. StoredOnce'
  BY <1>8, <1>10 DEF StoredOnce
<1>12. \A n \in Names : \A i \in Places(n)' : message_map'[n][i].id \in sent'
  BY <1>1, <1>8, <1>10 DEF Fresh
<1>13. ASSUME NEW v \in Workers, Pending(v)'
       PROVE  /\ request'[v].id \in sent'
              /\ \A n \in Names : \A i \in Places(n)' : message_map'[n][i].id # request'[v].id
  BY <1>1, <1>8, <1>9, <1>10, <1>13 DEF Fresh
<1>14. \A u, v \in Workers :
         Pending(u)' /\ Pending(v)' /\ request'[u].id = request'[v].id => u = v
  BY <1>1, <1>9 DEF Fresh
<1>15. Fresh'
  BY <1>12, <1>13, <1>14 DEF Fresh
<1> QED BY <1>11, <1>15

LEMMA FreshStep == IInv /\ StoredOnce /\ Fresh /\ [Next]_vars => StoredOnce' /\ Fresh'
<1> SUFFICES ASSUME IInv, StoredOnce, Fresh, [Next]_vars PROVE StoredOnce' /\ Fresh'
  OBVIOUS
<1>1. ASSUME message_map' = message_map, sent' = sent,
             \A w \in Workers : Pending(w)' => Pending(w) /\ request'[w] = request[w]
      PROVE  StoredOnce' /\ Fresh'
  <2>1. \A n : Places(n)' = Places(n)
    BY <1>1 DEF Places
  <2> QED BY <1>1, <2>1, NothingNew
<1>2. ASSUME NEW w \in Workers, StepOf(w) PROVE StoredOnce' /\ Fresh'
  <2>1. CASE \E r \in Requests : GetRequest(w, r)
    BY <2>1, FreshRequest
  <2>2. CASE Put(w)
    BY <2>2, FreshPut
  <2>3. CASE Clear(w)
    <3>1. PICK n \in walk[w] : message_map' = ClearName(message_map, n)
      BY <2>3 DEF Clear
    <3>2. message_map \in [Names -> Seq(Entry) \cup {NoUser}] /\ pc \in [Workers -> Pc]
      BY DEF IInv, TypeOK, Stores
    <3>3. \A m \in Names : \A i \in Places(m)' :
            i \in Places(m) /\ message_map'[m][i] = message_map[m][i]
      BY <3>1, <3>2 DEF ClearName, Places
    <3>4. sent' = sent /\ request' = request
      BY <2>3 DEF Clear, environment
    <3>5. \A v \in Workers : Pending(v)' => Pending(v)
      BY <2>3, <3>2, <3>4 DEF Clear, Goes, Pending
    <3> QED BY <3>3, <3>4, <3>5, NothingNew
  <2>4. ASSUME PeerLeaves(w) \/ Refuse(w) \/ Receive(w) \/ SemWait(w) \/ Find(w) \/ List(w)
                 \/ Retrieve(w) \/ BeginReset(w) \/ SemPost(w)
        PROVE  StoredOnce' /\ Fresh'
    <3>1. message_map' = message_map /\ sent' = sent /\ request' = request
      BY <2>4 DEF PeerLeaves, Refuse, Receive, SemWait, Find, List, Retrieve, BeginReset,
                  SemPost, locals, environment
    <3>2. \A v \in Workers : Pending(v)' => Pending(v)
      <4>1. pc \in [Workers -> Pc]
        BY DEF IInv, TypeOK
      <4>2. \A v \in Workers \ {w} : pc'[v] = pc[v]
        BY <2>4, <4>1 DEF PeerLeaves, Refuse, Receive, SemWait, Find, List, Retrieve,
                          BeginReset, SemPost, Goes
      <4>3. pc'[w] \in {"receive", "sem_wait", "find", "access"} =>
              pc[w] \in {"receive", "sem_wait", "find", "access"}
        BY <2>4, <4>1 DEF PeerLeaves, Refuse, Receive, SemWait, Find, List, Retrieve,
                          BeginReset, SemPost, Goes
      <4> QED BY <3>1, <4>2, <4>3 DEF Pending
    <3> QED BY <1>1, <3>1, <3>2
  <2>5. CASE SendResponse(w)
    <3>1. message_map' = message_map /\ sent' = sent /\ request' = [request EXCEPT ![w] = NoRequest]
          /\ pc' = [pc EXCEPT ![w] = "get_request"]
      BY <2>5 DEF SendResponse, Goes
    <3>2. pc \in [Workers -> Pc] /\ DOMAIN request = Workers
      BY DEF IInv, TypeOK
    <3>3. \A v \in Workers : Pending(v)' => Pending(v) /\ request'[v] = request[v]
      BY <3>1, <3>2 DEF Pending
    <3> QED BY <1>1, <3>1, <3>3
  <2> QED BY <1>2, <2>1, <2>2, <2>3, <2>4, <2>5 DEF StepOf, InLock
<1>3. CASE UNCHANGED vars
  <2>1. message_map' = message_map /\ sent' = sent /\ request' = request /\ pc' = pc
    BY <1>3 DEF vars, locals, environment
  <2>2. \A v \in Workers : Pending(v)' => Pending(v)
    BY <2>1 DEF Pending
  <2> QED BY <1>1, <2>1, <2>2
<1> QED BY <1>2, <1>3 DEF Next, StepOf

\* However many puts for a name, new or not, race between find() and insert(),
\* each message is stored at most once.
THEOREM MessagesStoredOnce == Spec => []StoredOnce
<1>1. Init => IInv /\ StoredOnce /\ Fresh
  BY IInvInit, FreshInit
<1>2. IInv /\ StoredOnce /\ Fresh /\ [Next]_vars => (IInv /\ StoredOnce /\ Fresh)'
  BY IInvStep, FreshStep
<1> QED BY <1>1, <1>2, PTL DEF Spec

-----------------------------------------------------------------------------
(* The store is linearizable: SharedStore implements AtomicStore.          *)

(* AtomicStore has its own copy of MessageStore; the operators are equal.  *)
LEMMA SameOperators ==
  /\ Atomic!EmptyStore = EmptyStore
  /\ Atomic!Requests = Requests
  /\ \A s, r, whole : Atomic!StoreAfter(s, r, whole) = StoreAfter(s, r, whole)
  /\ \A s, r : Atomic!ReplyTo(s, r) = ReplyTo(s, r)
<1>1. Atomic!EmptyStore = EmptyStore /\ Atomic!Requests = Requests
  BY DEF Atomic!EmptyStore, EmptyStore, Atomic!Requests, Requests
<1>2. \A i : Atomic!Number(i) = Number(i) /\ Atomic!Malformed(i) = Malformed(i)
  BY DEF Atomic!Number, Number, Atomic!Malformed, Malformed, Atomic!ToInt, ToInt,
     Atomic!strtol, strtol, Atomic!LongMax, LongMax, Atomic!LongMin, LongMin
<1>3. \A s, r, whole : Atomic!StoreAfter(s, r, whole) = StoreAfter(s, r, whole)
  BY <1>2 DEF Atomic!StoreAfter, StoreAfter, Atomic!PutAll, PutAll,
     Atomic!EntryOf, EntryOf, Atomic!ResetAll, ResetAll
<1>4. \A s, n, i : /\ Atomic!ListReply(s, n) = ListReply(s, n)
                   /\ Atomic!GetReply(s, n, i) = GetReply(s, n, i)
  <2>1. \A s, n : Atomic!ListReply(s, n) = ListReply(s, n)
    BY DEF Atomic!ListReply, ListReply, Atomic!NoSuchUser, NoSuchUser
  <2>2. \A s, n, i : Atomic!GetReply(s, n, i) = GetReply(s, n, i)
    BY <1>2 DEF Atomic!GetReply, GetReply, Atomic!NoSuchUser, NoSuchUser,
       Atomic!MalformedNumber, MalformedNumber, Atomic!NoSuchMessage, NoSuchMessage
  <2> QED BY <2>1, <2>2
<1>5. \A s, r : Atomic!ReplyTo(s, r) = ReplyTo(s, r)
  BY <1>2, <1>4 DEF Atomic!ReplyTo, ReplyTo, Atomic!MalformedNumber, MalformedNumber,
     Atomic!OK, OK, Atomic!Refusal, Refusal, Atomic!TooFewArguments, TooFewArguments,
     Atomic!InvalidCommand, InvalidCommand
<1> QED BY <1>1, <1>3, <1>5

(* What one step of the atomic store does, for each kind of request.       *)
LEMMA PutEffect ==
  ASSUME NEW s, NEW r, NEW whole, r.op = "put", ~Malformed(r.length)
  PROVE  /\ StoreAfter(s, r, whole) = PutAll(s, r.name, EntryOf(r, whole))
         /\ ReplyTo(s, r) = OK
  BY DEF StoreAfter, ReplyTo

LEMMA RefusedPutEffect ==
  ASSUME NEW s, NEW r, r.op = "put", Malformed(r.length)
  PROVE  StoreAfter(s, r, TRUE) = s /\ ReplyTo(s, r) = MalformedNumber
  BY DEF StoreAfter, ReplyTo

LEMMA ListEffect ==
  ASSUME NEW s, NEW r, r.op = "list"
  PROVE  StoreAfter(s, r, TRUE) = s /\ ReplyTo(s, r) = ListReply(s, r.name)
  BY DEF StoreAfter, ReplyTo

LEMMA GetEffect ==
  ASSUME NEW s, NEW r, r.op = "get"
  PROVE  /\ StoreAfter(s, r, TRUE) = s
         /\ ReplyTo(s, r) = GetReply(s, r.name, r.index)
  BY DEF StoreAfter, ReplyTo

LEMMA ResetEffect ==
  ASSUME NEW s, NEW r, r.op = "reset"
  PROVE  StoreAfter(s, r, TRUE) = ResetAll(s) /\ ReplyTo(s, r) = OK
  BY DEF StoreAfter, ReplyTo

-----------------------------------------------------------------------------
(* The abstract map is the map itself unless a reset is under way, and     *)
(* a worker inside that is not clearing knows that none is.                *)
LEMMA MapIsAbstract ==
  ASSUME IInv, NEW w \in Workers, Inside(w), pc[w] # "clear"
  PROVE  AbstractMap = message_map
<1>1. \A v \in Workers : walk[v] = {}
  BY DEF IInv, Shape, WalkFits, MapExclusive, Inside
<1>2. message_map \in Stores
  BY DEF IInv, TypeOK
<1> QED BY <1>1, <1>2 DEF AbstractMap, Stores

LEMMA AbstractMapStays ==
  ASSUME UNCHANGED <<message_map, walk>>
  PROVE  AbstractMap' = AbstractMap
  BY DEF AbstractMap

LEMMA StutterStep ==
  ASSUME AbstractMap' = AbstractMap, AbstractReply' = AbstractReply,
         UNCHANGED <<request, gone>>
  PROVE  UNCHANGED Atomic!vars
  BY DEF Atomic!vars

(* A step is an Execute of the atomic store if it changes the abstract map *)
(* and the reply of its worker as that request should.                     *)
LEMMA ExecuteStep ==
  ASSUME IInv, NEW w \in Workers, NEW whole \in BOOLEAN,
         whole \/ w \in gone,
         pc[w] \notin {"get_request", "clear", "sem_post", "send_response"},
         UNCHANGED <<request, gone>>,
         AbstractMap' = StoreAfter(AbstractMap, request[w], whole),
         AbstractReply' =
           [AbstractReply EXCEPT ![w] = ReplyTo(AbstractMap, request[w])]
  PROVE  Atomic!Next
<1>1. request[w] # NoRequest
  BY DEF IInv, TypeOK
<1>2. AbstractReply[w] = NoReply
  BY DEF AbstractReply
<1>3. Atomic!Execute(w, whole)
  BY <1>1, <1>2, SameOperators DEF Atomic!Execute
<1> QED BY <1>3 DEF Atomic!Next

LEMMA AtomicInit == Init => Atomic!Init
  BY SameOperators
  DEF Init, Atomic!Init, AbstractMap, AbstractReply, EmptyStore

LEMMA AtomicStep == IInv /\ [Next]_vars => [Atomic!Next]_(Atomic!vars)
<1> SUFFICES ASSUME IInv, [Next]_vars
             PROVE  Atomic!Next \/ UNCHANGED Atomic!vars
  OBVIOUS
<1>t. TypeOK /\ MapExclusive /\ IteratorValid /\ PlaceFits /\ WalkFits
      /\ ResponseFits /\ CutMeansGone
  BY DEF IInv, Shape
<1>1. ASSUME NEW w \in Workers, NEW r \in Requests, GetRequest(w, r)
      PROVE  Atomic!Next
  <2>1. AbstractMap' = AbstractMap
    BY <1>1, AbstractMapStays DEF GetRequest
  <2>2. AbstractReply' = AbstractReply
    BY <1>1, <1>t DEF GetRequest, Goes, Dispatch, AbstractReply, TypeOK
  <2>3. request[w] = NoRequest
    BY <1>1, <1>t DEF GetRequest, Goes, TypeOK
  <2>4. Atomic!Invoke(w, r)
    BY <1>1, <2>1, <2>2, <2>3 DEF GetRequest, Atomic!Invoke
  <2> QED BY <2>4, SameOperators DEF Atomic!Next
<1>2. ASSUME NEW w \in Workers, PeerLeaves(w) PROVE Atomic!Next
  <2>1. AbstractMap' = AbstractMap
    BY <1>2, AbstractMapStays DEF PeerLeaves, locals
  <2>2. AbstractReply' = AbstractReply
    BY <1>2 DEF PeerLeaves, AbstractReply, locals
  <2>3. Atomic!Leave(w)
    BY <1>2, <2>1, <2>2 DEF PeerLeaves, Atomic!Leave, locals
  <2> QED BY <2>3 DEF Atomic!Next
<1>3. ASSUME NEW w \in Workers, Refuse(w) PROVE Atomic!Next
  <2> DEFINE r == request[w]
  <2>1. AbstractMap' = AbstractMap
    BY <1>3, AbstractMapStays DEF Refuse
  <2>2. pc[w] = "refuse" /\ UNCHANGED <<request, gone>>
    BY <1>3 DEF Refuse, Goes, environment
  <2>3. /\ StoreAfter(AbstractMap, r, TRUE) = AbstractMap
        /\ ReplyTo(AbstractMap, r) =
             IF r.op = "put" THEN MalformedNumber ELSE Refusal(r)
    <3>1. \/ r.op = "put" /\ Malformed(r.length)
          \/ r.op \in {"short", "unknown"}
      BY <2>2, <1>t DEF PlaceFits
    <3>2. CASE r.op = "put" /\ Malformed(r.length)
      BY <3>2, RefusedPutEffect
    <3>3. CASE r.op \in {"short", "unknown"}
      <4>1. r.op # "put"
        BY <3>3
      <4>2. StoreAfter(AbstractMap, r, TRUE) = AbstractMap
        BY <3>3 DEF StoreAfter
      <4>3. ReplyTo(AbstractMap, r) = Refusal(r)
        BY <3>3 DEF ReplyTo
      <4> QED BY <4>1, <4>2, <4>3
    <3> QED BY <3>1, <3>2, <3>3
  <2>4. AbstractReply' = [AbstractReply EXCEPT ![w] = ReplyTo(AbstractMap, r)]
    BY <1>3, <1>t, <2>3 DEF Refuse, Goes, AbstractReply, TypeOK
  <2> QED BY <2>1, <2>2, <2>3, <2>4, ExecuteStep
<1>4. ASSUME NEW w \in Workers, Receive(w) \/ SemWait(w) \/ Find(w)
      PROVE  UNCHANGED Atomic!vars
  <2>1. AbstractMap' = AbstractMap
    BY <1>4, AbstractMapStays DEF Receive, SemWait, Find, locals
  <2>2. AbstractReply' = AbstractReply
    BY <1>4, <1>t DEF Receive, SemWait, Find, Goes, AbstractReply, TypeOK, locals
  <2> QED
    BY <1>4, <2>1, <2>2, StutterStep
    DEF Receive, SemWait, Find, locals, environment
<1>5. ASSUME NEW w \in Workers, Put(w) PROVE Atomic!Next
  <2> DEFINE r == request[w]
  <2>1. /\ pc[w] = "access" /\ r.op = "put" /\ ~Malformed(r.length)
        /\ UNCHANGED <<request, gone, walk>>
    BY <1>5, <1>t DEF Put, Goes, PlaceFits, locals, environment
  <2>2. AbstractMap = message_map
    BY <2>1, MapIsAbstract DEF Inside
  <2>3. AbstractMap' = message_map'
    <3>1. message_map' \in Stores
      BY IInvStep DEF IInv, TypeOK
    <3>2. \A v \in Workers : walk'[v] = {}
      BY <2>1, <1>t DEF WalkFits, MapExclusive, Inside
    <3> QED BY <3>1, <3>2 DEF AbstractMap, Stores
  <2>4. message_map' = PutAll(message_map, r.name, NewEntry(w))
    BY <1>5, <1>t, <2>1 DEF Put, IteratorValid, PutAll, push_back, insert
  <2>5. contents[w] \in BOOLEAN /\ (contents[w] \/ w \in gone)
    BY <1>t, <2>1 DEF CutMeansGone, TypeOK
  <2>6. /\ StoreAfter(AbstractMap, r, contents[w]) = AbstractMap'
        /\ ReplyTo(AbstractMap, r) = OK
    BY <2>1, <2>2, <2>3, <2>4, PutEffect DEF NewEntry
  <2>7. AbstractReply' = [AbstractReply EXCEPT ![w] = OK]
    BY <1>5, <1>t, <2>1 DEF Put, Goes, AbstractReply, TypeOK, locals
  <2> QED BY <2>1, <2>5, <2>6, <2>7, ExecuteStep
<1>6. ASSUME NEW w \in Workers, List(w) PROVE Atomic!Next
  <2> DEFINE r == request[w]
  <2>1. /\ pc[w] = "access" /\ r.op = "list" /\ r \in Requests
        /\ UNCHANGED <<request, gone>>
    BY <1>6, <1>t DEF List, Goes, TypeOK, environment
  <2>2. AbstractMap = message_map /\ AbstractMap' = AbstractMap
    BY <1>6, <2>1, MapIsAbstract, AbstractMapStays DEF Inside, List
  <2>3. response'[w] = ListReply(message_map, r.name)
    BY <1>6, <1>t, <2>1 DEF List, IteratorValid, ListReply, TypeOK
  <2>4. AbstractReply' = [AbstractReply EXCEPT ![w] = response'[w]]
    BY <1>6, <1>t, <2>1 DEF List, Goes, AbstractReply, TypeOK
  <2> QED BY <2>1, <2>2, <2>3, <2>4, ListEffect, ExecuteStep
<1>7. ASSUME NEW w \in Workers, Retrieve(w) PROVE Atomic!Next
  <2> DEFINE r == request[w]
  <2>1. /\ pc[w] = "access" /\ r.op = "get" /\ r \in Requests
        /\ UNCHANGED <<request, gone>>
    BY <1>7, <1>t DEF Retrieve, Goes, TypeOK, environment
  <2>2. AbstractMap = message_map /\ AbstractMap' = AbstractMap
    BY <1>7, <2>1, MapIsAbstract, AbstractMapStays DEF Inside, Retrieve
  <2>3. response'[w] = GetReply(message_map, r.name, r.index)
    BY <1>7, <1>t, <2>1 DEF Retrieve, IteratorValid, GetReply, TypeOK
  <2>4. AbstractReply' = [AbstractReply EXCEPT ![w] = response'[w]]
    BY <1>7, <1>t, <2>1 DEF Retrieve, Goes, AbstractReply, TypeOK
  <2> QED BY <2>1, <2>2, <2>3, <2>4, GetEffect, ExecuteStep
<1>8. ASSUME NEW w \in Workers, BeginReset(w) PROVE Atomic!Next
  <2> DEFINE r == request[w]
  <2>1. /\ pc[w] = "begin" /\ r.op = "reset" /\ message_map \in Stores
        /\ UNCHANGED <<request, gone, message_map>>
        /\ pc' = [pc EXCEPT ![w] = IF walk'[w] = {} THEN "sem_post" ELSE "clear"]
    BY <1>8, <1>t DEF BeginReset, Goes, PlaceFits, TypeOK, environment
  <2>2. AbstractMap = message_map
    BY <2>1, MapIsAbstract DEF Inside
  <2>3. \A v \in Workers \ {w} : walk'[v] = {}
    BY <1>8, <1>t, <2>1 DEF BeginReset, WalkFits, MapExclusive, Inside, TypeOK
  <2>4. walk'[w] = {n \in Names : message_map[n] # NoUser}
    BY <1>8, <1>t DEF BeginReset, TypeOK
  <2>5. \A n \in Names :
          (\E v \in Workers : n \in walk'[v]) <=> message_map[n] # NoUser
    BY <2>3, <2>4
  <2>6. AbstractMap' = ResetAll(message_map)
    BY <2>1, <2>5 DEF AbstractMap, ResetAll
  <2>7. AbstractReply' = [AbstractReply EXCEPT ![w] = OK]
    BY <1>8, <1>t, <2>1 DEF BeginReset, AbstractReply, TypeOK
  <2> QED BY <2>1, <2>2, <2>6, <2>7, ResetEffect, ExecuteStep
<1>9. ASSUME NEW w \in Workers, Clear(w) PROVE UNCHANGED Atomic!vars
  <2> PICK n \in walk[w] :
        /\ message_map' = ClearName(message_map, n)
        /\ walk' = [walk EXCEPT ![w] = @ \ {n}]
        /\ Goes(w, "clear", IF walk'[w] = {} THEN "sem_post" ELSE "clear")
        /\ UNCHANGED <<message_map_lock, request, contents, found, response,
                       environment>>
    BY <1>9 DEF Clear
  <2>1. pc[w] = "clear" /\ request[w].op = "reset"
    BY <1>t DEF Goes, PlaceFits
  <2>2. \A v \in Workers \ {w} : walk[v] = {} /\ walk'[v] = {}
    BY <1>t, <2>1 DEF WalkFits, MapExclusive, Inside, TypeOK
  <2>3. \A m \in Names : AbstractMap'[m] = AbstractMap[m]
    <3> SUFFICES ASSUME NEW m \in Names PROVE AbstractMap'[m] = AbstractMap[m]
      OBVIOUS
    <3>1. walk'[w] = walk[w] \ {n} /\ n \in Names
      BY <1>t DEF TypeOK
    <3>2. message_map'[m] = IF m = n THEN <<>> ELSE message_map[m]
      BY <1>t DEF TypeOK, Stores, ClearName
    <3>3. (\E v \in Workers : m \in walk[v]) <=> m \in walk[w]
      BY <2>2
    <3>4. (\E v \in Workers : m \in walk'[v]) <=> m \in walk[w] /\ m # n
      BY <2>2, <3>1
    <3> QED BY <3>2, <3>3, <3>4 DEF AbstractMap
  <2>4. AbstractMap' = AbstractMap
    BY <2>3 DEF AbstractMap
  <2>5. AbstractReply' = AbstractReply
    BY <1>t, <2>1 DEF Goes, AbstractReply, TypeOK
  <2> QED BY <2>4, <2>5, StutterStep DEF environment
<1>10. ASSUME NEW w \in Workers, SemPost(w) PROVE UNCHANGED Atomic!vars
  <2>1. AbstractMap' = AbstractMap
    BY <1>10, AbstractMapStays DEF SemPost
  <2>2. AbstractReply' = AbstractReply
    BY <1>10, <1>t DEF SemPost, Goes, AbstractReply, TypeOK
  <2> QED BY <1>10, <2>1, <2>2, StutterStep DEF SemPost, environment
<1>11. ASSUME NEW w \in Workers, SendResponse(w) PROVE Atomic!Next
  <2>1. AbstractMap' = AbstractMap
    BY <1>11, AbstractMapStays DEF SendResponse
  <2>2. AbstractReply[w] # NoReply
    BY <1>11, <1>t DEF SendResponse, Goes, AbstractReply, ResponseFits
  <2>3. AbstractReply' = [AbstractReply EXCEPT ![w] = NoReply]
    BY <1>11, <1>t DEF SendResponse, Goes, AbstractReply, TypeOK
  <2>4. Atomic!Respond(w)
    BY <1>11, <2>1, <2>2, <2>3 DEF SendResponse, Atomic!Respond
  <2> QED BY <2>4 DEF Atomic!Next
<1>12. CASE UNCHANGED vars
  <2>1. AbstractMap' = AbstractMap /\ AbstractReply' = AbstractReply
    BY <1>12 DEF vars, locals, AbstractMap, AbstractReply
  <2> QED BY <1>12, <2>1, StutterStep DEF vars, locals, environment
<1> QED
  BY <1>1, <1>2, <1>3, <1>4, <1>5, <1>6, <1>7, <1>8, <1>9, <1>10, <1>11,
     <1>12 DEF Next, InLock

\* Between a request and its answer the whole request takes effect at once:
\* the message map under message_map_lock is linearizable.
THEOREM StoreIsAtomic == Spec => ImplementsAtomicStore
  BY AtomicInit, AtomicStep, IInvInit, IInvStep, PTL
  DEF Spec, ImplementsAtomicStore, Atomic!Spec
=============================================================================
