-------------------------- MODULE WebServerProofs --------------------------
(***************************************************************************)
(* Proofs about WebServer for any number of connections, requests and      *)
(* descriptors: the events of a batch stay live while descriptors are      *)
(* closed and reused, the tables of the server agree, nothing that a       *)
(* client sent is processed for another, no request is answered twice, and *)
(* requests that are received one by one are answered whole and in order.  *)
(***************************************************************************)
EXTENDS WebServer, SequenceTheorems, TLAPS

-----------------------------------------------------------------------------
(* The operators.                                                          *)

LEMMA WithoutIsAFunction ==
  ASSUME NEW S, NEW f, f \in [DOMAIN f -> S], NEW d
  PROVE  /\ DOMAIN Without(f, d) = DOMAIN f \ {d}
         /\ Without(f, d) \in [DOMAIN f \ {d} -> S]
         /\ \A e \in DOMAIN f \ {d} : Without(f, d)[e] = f[e]
  BY DEF Without

LEMMA Singleton ==
  ASSUME NEW S, NEW s \in Seq(S), Len(s) = 1
  PROVE  s = <<s[1]>>
  OBVIOUS

LEMMA AllRequestsType ==
  ASSUME NEW c \in Conns
  PROVE  /\ AllRequests(c) \in Seq(Symbols)
         /\ Len(AllRequests(c)) = 3 * MaxRequests[c]
         /\ AllBy(c, AllRequests(c))
<1> DEFINE N == 3 * MaxRequests[c]
<1>1. N \in Nat
  BY SizesAssumption
<1>2. ASSUME NEW i \in 1..N
      PROVE  /\ AllRequests(c)[i] \in Symbols
             /\ By(c, AllRequests(c)[i])
  <2>1. CASE i % 3 = 1
    <3>1. (i + 2) \div 3 \in Nat
      BY <1>1
    <3>2. AllRequests(c)[i] = Lines(c, (i + 2) \div 3)
      BY <2>1 DEF AllRequests
    <3> QED BY <3>1, <3>2 DEF Lines, Symbols, By
  <2>2. CASE i % 3 # 1
    <3>1. AllRequests(c)[i] = HalfBlankLine
      BY <2>2 DEF AllRequests
    <3> QED BY <3>1 DEF Symbols, By
  <2> QED BY <2>1, <2>2
<1>3. DOMAIN AllRequests(c) = 1..N
  BY DEF AllRequests
<1>4. AllRequests(c) \in [1..N -> Symbols]
  BY <1>2, <1>3 DEF AllRequests
<1>5. AllRequests(c) \in Seq(Symbols) /\ Len(AllRequests(c)) = N
  BY <1>1, <1>3, <1>4, IsASeq, LenProperties
<1> QED BY <1>2, <1>3, <1>5 DEF AllBy

LEMMA PartsType ==
  ASSUME NEW S, NEW s \in Seq(S), NEW t \in Seq(S), NEW m \in Nat \ {0}, NEW n \in Nat,
         n <= Len(s)
  PROVE  /\ SubSeq(s, m, n) \in Seq(S)
         /\ s \o t \in Seq(S)
  BY SubSeqProperties, ConcatProperties

LEMMA PartsAreOwn ==
  ASSUME NEW c \in Conns, NEW s \in Seq(Symbols), NEW t \in Seq(Symbols),
         AllBy(c, s), AllBy(c, t), NEW m \in Nat \ {0}, NEW n \in Nat, n <= Len(s)
  PROVE  /\ AllBy(c, SubSeq(s, m, n))
         /\ AllBy(c, s \o t)
<1>1. ASSUME NEW i \in DOMAIN SubSeq(s, m, n)
      PROVE  By(c, SubSeq(s, m, n)[i])
  <2>1. i + m - 1 \in DOMAIN s /\ SubSeq(s, m, n)[i] = s[i + m - 1]
    BY <1>1
  <2> QED BY <2>1 DEF AllBy
<1>2. ASSUME NEW i \in DOMAIN (s \o t)
      PROVE  By(c, (s \o t)[i])
  <2>1. CASE i \in 1..Len(s)
    BY <2>1 DEF AllBy
  <2>2. CASE i \notin 1..Len(s)
    <3>1. i - Len(s) \in DOMAIN t /\ (s \o t)[i] = t[i - Len(s)]
      BY <1>2, <2>2
    <3> QED BY <3>1 DEF AllBy
  <2> QED BY <2>1, <2>2
<1> QED BY <1>1, <1>2 DEF AllBy

-----------------------------------------------------------------------------
(* The inductive invariant.                                                *)

\* The batch is empty before it is polled.
BatchFits == pc \in {"top", "sweep", "poll"} => events = {}

\* A connection that the server knows, or that waits, was made.
KnownWasMade ==
  /\ \A d \in DOMAIN clients : peer[clients[d]] # "new"
  /\ \A i \in DOMAIN backlog : peer[backlog[i]] # "new"

\* What arrives from a client is its own.
InboxIsOwn == \A c \in Conns : AllBy(c, inbox[c])

IInv ==
  /\ TypeOK
  /\ BatchFits
  /\ KnownWasMade
  /\ InboxIsOwn
  /\ EventsAreLive
  /\ DescriptorsAreDistinct
  /\ AnswersAreOwn

LEMMA InitIInv == Init => IInv
<1> SUFFICES ASSUME Init PROVE IInv
  OBVIOUS
<1> USE DEF Init
<1>1. DOMAIN clients = {} /\ clients \in [DOMAIN clients -> Conns]
  OBVIOUS
<1>2. TypeOK
  <2>1. sent \in [Conns -> Nat] /\ \A c \in Conns : sent[c] <= 3 * MaxRequests[c]
    BY SizesAssumption
  <2>2. unread \in [Conns -> 0..SendSpace] /\ left \in 0..ResponseSize
    BY SizesAssumption
  <2>3. <<>> \in Seq(Symbols) /\ <<>> \in Seq(Conns) /\ <<>> \in Seq(Seq(Symbols))
    BY EmptySeq
  <2>4. /\ inbox \in [Conns -> Seq(Symbols)] /\ backlog \in Seq(Conns)
        /\ cache \in [Descriptors -> Seq(Symbols)]
        /\ answered \in [Conns -> Seq(Seq(Symbols))]
    BY <2>3
  <2> QED BY <1>1, <2>1, <2>2, <2>4 DEF TypeOK
<1>3. BatchFits /\ KnownWasMade /\ EventsAreLive /\ DescriptorsAreDistinct
  BY <1>1 DEF BatchFits, KnownWasMade, EventsAreLive, DescriptorsAreDistinct
<1>4. InboxIsOwn /\ AnswersAreOwn
  BY <1>1 DEF InboxIsOwn, AnswersAreOwn, AllBy
<1> QED BY <1>2, <1>3, <1>4 DEF IInv

\* What recv() works on.
LEMMA InHand ==
  ASSUME TypeOK, EventsAreLive, pc \in {"recv", "send"}
  PROVE  /\ fd \in Descriptors /\ fd \in DOMAIN clients /\ Conn \in Conns
         /\ Taken \in 0..Len(inbox[Conn]) /\ inbox[Conn] \in Seq(Symbols)
         /\ Data \in Seq(Symbols) /\ Len(Data) = Taken
         /\ cache[fd] \in Seq(Symbols) /\ AllData \in Seq(Symbols)
         /\ Len(AllData) = Len(cache[fd]) + Len(Data)
<1>1. fd \in Descriptors /\ fd \in DOMAIN clients /\ Conn \in Conns
  BY DEF TypeOK, EventsAreLive, Conn
<1>2. inbox[Conn] \in Seq(Symbols) /\ cache[fd] \in Seq(Symbols)
  BY <1>1 DEF TypeOK
<1>3. Taken \in 0..Len(inbox[Conn])
  BY <1>2, SizesAssumption DEF Taken
<1>4. Data \in Seq(Symbols) /\ Len(Data) = Taken
  BY <1>2, <1>3, SubSeqProperties DEF Data
<1> QED BY <1>1, <1>2, <1>3, <1>4, ConcatProperties DEF AllData

-----------------------------------------------------------------------------
(* Types.                                                                  *)

LEMMA NumbersOf ==
  ASSUME TypeOK, NEW c \in Conns
  PROVE  /\ MaxRequests[c] \in Nat /\ 3 * MaxRequests[c] \in Nat
         /\ sent[c] \in Nat /\ sent[c] + 1 \in Nat \ {0}
<1>1. MaxRequests[c] \in Nat
  BY SizesAssumption
<1>2. sent[c] \in Nat
  BY DEF TypeOK
<1> QED BY <1>1, <1>2

LEMMA EnvironmentType ==
  ASSUME TypeOK, Environment
  PROVE  TypeOK'
<1> USE DEF TypeOK, environment, tables, history
<1>1. ASSUME NEW c \in Conns, Connect(c) PROVE TypeOK'
  <2>1. backlog' \in Seq(Conns)
    BY <1>1, AppendProperties DEF Connect
  <2> QED BY <1>1, <2>1 DEF Connect
<1>2. ASSUME NEW c \in Conns, Ask(c) PROVE TypeOK'
  <2>1. PICK n \in (sent[c] + 1)..(3 * MaxRequests[c]) :
          /\ sent' = [sent EXCEPT ![c] = n]
          /\ inbox' = [inbox EXCEPT ![c] =
                         @ \o SubSeq(AllRequests(c), sent[c] + 1, n)]
    BY <1>2 DEF Ask
  <2> HIDE DEF TypeOK
  <2>2. /\ MaxRequests[c] \in Nat /\ 3 * MaxRequests[c] \in Nat
        /\ sent[c] \in Nat /\ sent[c] + 1 \in Nat \ {0}
    BY NumbersOf
  <2>7. n \in Nat /\ n <= 3 * MaxRequests[c]
    BY <2>1, <2>2
  <2>3. SubSeq(AllRequests(c), sent[c] + 1, n) \in Seq(Symbols)
    <3>1. AllRequests(c) \in Seq(Symbols) /\ n <= Len(AllRequests(c))
      BY <2>7, AllRequestsType
    <3> QED BY <2>2, <2>7, <3>1, PartsType
  <2> USE DEF TypeOK
  <2>4. inbox[c] \o SubSeq(AllRequests(c), sent[c] + 1, n) \in Seq(Symbols)
    BY <2>3, ConcatProperties
  <2>5. inbox' \in [Conns -> Seq(Symbols)]
    BY <2>1, <2>4
  <2>6. sent' \in [Conns -> Nat] /\ \A b \in Conns : sent'[b] <= 3 * MaxRequests[b]
    BY <2>1, <2>7
  <2> QED BY <1>2, <2>5, <2>6 DEF Ask
<1>3. ASSUME NEW c \in Conns, Read(c) PROVE TypeOK'
  <2>1. unread' \in [Conns -> 0..SendSpace]
    BY <1>3, SizesAssumption DEF Read
  <2> QED BY <1>3, <2>1 DEF Read
<1>4. ASSUME NEW c \in Conns, Leave(c) PROVE TypeOK'
  <2>1. unread' \in [Conns -> 0..SendSpace]
    BY <1>4, SizesAssumption DEF Leave
  <2>2. <<>> \in Seq(Symbols)
    BY EmptySeq
  <2>3. inbox' \in [Conns -> Seq(Symbols)]
    <3>1. inbox \in [Conns -> Seq(Symbols)]
      OBVIOUS
    <3> HIDE DEF TypeOK
    <3> QED BY <1>4, <2>2, <3>1 DEF Leave
  <2>4. peer' \in [Conns -> {"new", "open", "closed", "reset"}]
    BY <1>4 DEF Leave
  <2> QED BY <1>4, <2>1, <2>3, <2>4 DEF Leave
<1>5. ASSUME ListenerFails PROVE TypeOK'
  BY <1>5 DEF ListenerFails
<1> QED BY <1>1, <1>2, <1>3, <1>4, <1>5 DEF Environment

LEMMA LoopType ==
  ASSUME TypeOK, Top \/ Sweep \/ Poll \/ PollFails \/ NoMoreEvents
  PROVE  TypeOK'
<1> USE DEF TypeOK, environment, tables, history
<1>1. CASE Top
  BY <1>1 DEF Top, Goes
<1>2. CASE Sweep
  BY <1>2 DEF Sweep, Goes
<1>3. CASE Poll
  <2>1. ASSUME NEW e \in events'
        PROVE  e \in [of : Descriptors \cup {Listener}, error : BOOLEAN]
    <3>1. e = ListenerEvent \/ \E d \in poller : e = ClientEvent(d)
      BY <1>3, <2>1 DEF Poll
    <3>2. CASE e = ListenerEvent
      <4>1. (listener = "failed") \in BOOLEAN
        OBVIOUS
      <4> QED BY <3>2, <4>1 DEF ListenerEvent
    <3>3. ASSUME NEW d \in poller, e = ClientEvent(d)
          PROVE  e \in [of : Descriptors \cup {Listener}, error : BOOLEAN]
      <4>1. (peer[clients[d]] = "reset") \in BOOLEAN /\ d \in Descriptors
        OBVIOUS
      <4> QED BY <3>3, <4>1 DEF ClientEvent
    <3> QED BY <3>1, <3>2, <3>3
  <2> QED BY <1>3, <2>1 DEF Poll, Goes
<1>4. CASE PollFails
  BY <1>4 DEF PollFails, Goes
<1>5. CASE NoMoreEvents
  BY <1>5 DEF NoMoreEvents, Goes
<1> QED BY <1>1, <1>2, <1>3, <1>4, <1>5

LEMMA HandleType ==
  ASSUME TypeOK, NEW e \in events, Handle(e)
  PROVE  TypeOK'
<1> USE DEF TypeOK, environment, tables, history
<1>1. e.of \in Descriptors \cup {Listener} /\ e.error \in BOOLEAN
  OBVIOUS
<1>2. CASE ClientError(e)
  <2>1. clients' = Without(clients, e.of)
    BY <1>2 DEF ClientError
  <2>2. clients' \in [DOMAIN clients' -> Conns] /\ DOMAIN clients' \subseteq Descriptors
    <3>1. clients \in [DOMAIN clients -> Conns] /\ DOMAIN clients \subseteq Descriptors
      OBVIOUS
    <3> HIDE DEF TypeOK
    <3>2. /\ DOMAIN Without(clients, e.of) = DOMAIN clients \ {e.of}
          /\ Without(clients, e.of) \in [DOMAIN clients \ {e.of} -> Conns]
      BY <3>1 DEF Without
    <3>3. DOMAIN clients' = DOMAIN clients \ {e.of}
      BY <2>1, <3>2
    <3>4. clients' \in [DOMAIN clients \ {e.of} -> Conns]
      BY <2>1, <3>2
    <3> QED BY <3>1, <3>3, <3>4
  <2> QED BY <1>1, <1>2, <2>2 DEF ClientError, Goes, Noted
<1>3. CASE ListenerError(e)
  <2>1. <<>> \in Seq(Symbols) /\ <<>> \in Seq(Conns)
    BY EmptySeq
  <2> DEFINE waiting == {backlog[i] : i \in DOMAIN backlog}
  <2>2. /\ peer' = [c \in Conns |-> IF c \in waiting THEN "reset" ELSE peer[c]]
        /\ inbox' = [c \in Conns |-> IF c \in waiting THEN <<>> ELSE inbox[c]]
    BY <1>3 DEF ListenerError
  <2> HIDE DEF waiting
  <2>3. peer' \in [Conns -> {"new", "open", "closed", "reset"}]
    BY <2>2
  <2>4. inbox' \in [Conns -> Seq(Symbols)]
    BY <2>1, <2>2
  <2>5. /\ events' \subseteq events /\ listener' = "up" /\ backlog' = <<>>
        /\ pc' = "events" /\ UNCHANGED <<sent, unread, tables, fd, left, history>>
    BY <1>3 DEF ListenerError, Goes
  <2> QED BY <2>1, <2>3, <2>4, <2>5
<1>4. CASE ListenerLost(e)
  BY <1>4 DEF ListenerLost, Raises, Goes
<1>5. CASE Accept(e)
  <2>1. PICK d \in Least(Free) :
          /\ clients' = [c \in DOMAIN clients \cup {d} |->
                           IF c = d THEN Head(backlog) ELSE clients[c]]
          /\ cache' = [cache EXCEPT ![d] = <<>>]
          /\ poller' = poller \cup {d}
    BY <1>5 DEF Accept
  <2>2. d \in Descriptors
    BY DEF Least, Free
  <2>3. Head(backlog) \in Conns /\ Tail(backlog) \in Seq(Conns)
    BY <1>5, HeadTailProperties DEF Accept
  <2>4. clients' \in [DOMAIN clients' -> Conns] /\ DOMAIN clients' \subseteq Descriptors
    BY <2>1, <2>2, <2>3
  <2>5. cache' \in [Descriptors -> Seq(Symbols)] /\ poller' \subseteq Descriptors
    BY <2>1, <2>2, EmptySeq
  <2> QED BY <1>5, <2>3, <2>4, <2>5 DEF Accept, Goes
<1>6. CASE AcceptFails(e)
  BY <1>6 DEF AcceptFails, Raises, Goes
<1>7. CASE Begin(e)
  BY <1>1, <1>7 DEF Begin, Goes, Noted
<1> QED BY <1>2, <1>3, <1>4, <1>5, <1>6, <1>7 DEF Handle

\* One piece of an answer.
LEMMA SentType ==
  ASSUME TypeOK, EventsAreLive, pc = "send", NEW n \in 1..left, Sent(n)
  PROVE  /\ left' \in 0..ResponseSize /\ pc' \in {"events", "send"}
         /\ fd' \in Descriptors \cup {Nobody}
         /\ cache' \in [Descriptors -> Seq(Symbols)]
<1>1. fd \in Descriptors
  BY InHand
<1>2. cache' \in [Descriptors -> Seq(Symbols)]
  <2>1. cache' = cache \/ cache' = [cache EXCEPT ![fd] = <<>>]
    BY DEF Sent
  <2>2. <<>> \in Seq(Symbols) /\ cache \in [Descriptors -> Seq(Symbols)]
    BY EmptySeq DEF TypeOK
  <2> QED BY <1>1, <2>1, <2>2
<1>3. left' \in 0..ResponseSize
  BY SizesAssumption DEF TypeOK, Sent
<1> QED BY <1>1, <1>2, <1>3 DEF TypeOK, Sent

LEMMA HandleClientType ==
  ASSUME TypeOK, EventsAreLive, HandleClient
  PROVE  TypeOK'
<1> USE DEF environment, tables, history
<1>1. CASE ReceivePart \/ ReceiveRequest
  <2>0. pc = "recv" /\ Receive
    BY <1>1 DEF ReceivePart, ReceiveRequest, Goes
  <2>1. /\ fd \in Descriptors /\ Conn \in Conns
        /\ Taken \in 0..Len(inbox[Conn]) /\ inbox[Conn] \in Seq(Symbols)
        /\ Data \in Seq(Symbols) /\ Len(Data) = Taken
        /\ AllData \in Seq(Symbols)
        /\ Len(AllData) = Len(cache[fd]) + Len(Data)
    BY <2>0, InHand
  <2>2. inbox' \in [Conns -> Seq(Symbols)]
    <3>1. SubSeq(inbox[Conn], Taken + 1, Len(inbox[Conn])) \in Seq(Symbols)
      BY <2>1, PartsType
    <3> QED BY <2>0, <2>1, <3>1 DEF Receive, TypeOK
  <2>3. CASE ReceivePart
    <3>1. cache' \in [Descriptors -> Seq(Symbols)]
      BY <2>1, <2>3 DEF ReceivePart, TypeOK
    <3>2. torn' \subseteq Conns
      BY <2>1, <2>3 DEF ReceivePart, TypeOK
    <3> QED BY <2>0, <2>2, <2>3, <3>1, <3>2 DEF ReceivePart, Receive, Goes, TypeOK
  <2>4. CASE ReceiveRequest
    <3>1. PICK i \in Least(BlankLines(Data)) :
            /\ cache' = [cache EXCEPT ![fd] = SubSeq(AllData, i + 1, Len(AllData))]
            /\ answered' = [answered EXCEPT ![Conn] = Append(@, SubSeq(AllData, 1, i))]
      BY <2>4 DEF ReceiveRequest
    <3>2. i \in Nat /\ i <= Len(AllData)
      <4>1. i \in 0..(Len(Data) - 2)
        BY DEF Least, BlankLines
      <4>2. Len(cache[fd]) \in Nat
        BY <2>1, LenProperties DEF TypeOK
      <4> QED BY <2>1, <4>1, <4>2
    <3>3. /\ SubSeq(AllData, i + 1, Len(AllData)) \in Seq(Symbols)
          /\ SubSeq(AllData, 1, i) \in Seq(Symbols)
      BY <2>1, <3>2, PartsType
    <3>4. cache' \in [Descriptors -> Seq(Symbols)]
      BY <2>1, <3>1, <3>3 DEF TypeOK
    <3>5. answered' \in [Conns -> Seq(Seq(Symbols))]
      <4>1. answered[Conn] \in Seq(Seq(Symbols))
        BY <2>1 DEF TypeOK
      <4>2. Append(answered[Conn], SubSeq(AllData, 1, i)) \in Seq(Seq(Symbols))
        BY <3>3, <4>1, AppendProperties
      <4> QED BY <2>1, <3>1, <4>2 DEF TypeOK
    <3>6. torn' \subseteq Conns
      BY <2>1, <2>4 DEF ReceiveRequest, TypeOK
    <3>7. left' \in 0..ResponseSize
      BY <2>4, SizesAssumption DEF ReceiveRequest
    <3>8. pc' = "send" /\ UNCHANGED <<peer, sent, unread, backlog, listener, clients,
                                      poller, last_event, idle, events, fd>>
      BY <2>0, <2>4 DEF ReceiveRequest, Receive, Goes
    <3> QED BY <2>2, <3>4, <3>5, <3>6, <3>7, <3>8 DEF TypeOK
  <2> QED BY <1>1, <2>3, <2>4
<1>2. CASE EndOfClient
  <2>1. clients' = Without(clients, fd) /\ clients \in [DOMAIN clients -> Conns]
    BY <1>2 DEF EndOfClient, TypeOK
  <2>2. clients' \in [DOMAIN clients' -> Conns] /\ DOMAIN clients' \subseteq Descriptors
    <3>1. /\ DOMAIN Without(clients, fd) = DOMAIN clients \ {fd}
          /\ Without(clients, fd) \in [DOMAIN clients \ {fd} -> Conns]
      BY <2>1, WithoutIsAFunction
    <3> QED BY <2>1, <3>1 DEF TypeOK
  <2> QED BY <1>2, <2>2 DEF EndOfClient, Goes, TypeOK
<1>3. CASE WouldBlock \/ ReceiveFails \/ ProcessFails
  BY <1>3 DEF WouldBlock, ReceiveFails, ProcessFails, Raises, Goes, TypeOK
<1>4. CASE Send
  <2>1. PICK n \in 1..left :
          /\ unread[Conn] + n <= SendSpace
          /\ unread' = [unread EXCEPT ![Conn] = @ + n]
          /\ Sent(n)
    BY <1>4 DEF Send
  <2>2. Conn \in Conns /\ pc = "send"
    BY <1>4, InHand DEF Send
  <2>3. unread' \in [Conns -> 0..SendSpace]
    BY <2>1, <2>2, SizesAssumption DEF TypeOK
  <2>4. /\ left' \in 0..ResponseSize /\ pc' \in {"events", "send"}
        /\ fd' \in Descriptors \cup {Nobody}
        /\ cache' \in [Descriptors -> Seq(Symbols)]
    BY <2>1, <2>2, SentType
  <2> QED BY <1>4, <2>1, <2>3, <2>4 DEF Send, Sent, TypeOK
<1>5. CASE SendToClosed
  <2>1. PICK n \in 1..left : Sent(n)
    BY <1>5 DEF SendToClosed
  <2>2. Conn \in Conns /\ pc = "send"
    BY <1>5, InHand DEF SendToClosed
  <2>3. inbox' \in [Conns -> Seq(Symbols)]
    BY <1>5, <2>2, EmptySeq DEF SendToClosed, TypeOK
  <2>4. /\ left' \in 0..ResponseSize /\ pc' \in {"events", "send"}
        /\ fd' \in Descriptors \cup {Nobody}
        /\ cache' \in [Descriptors -> Seq(Symbols)]
    BY <2>1, <2>2, SentType
  <2> QED BY <1>5, <2>1, <2>2, <2>3, <2>4 DEF SendToClosed, Sent, TypeOK
<1> QED BY <1>1, <1>2, <1>3, <1>4, <1>5 DEF HandleClient

-----------------------------------------------------------------------------
(* The clients and the network.                                            *)

\* A client leaves the server's tables and the events alone, makes nothing
\* new, and only ever adds to what waits.
LEMMA EnvironmentSafe ==
  ASSUME IInv, Environment
  PROVE  /\ BatchFits' /\ KnownWasMade' /\ InboxIsOwn'
         /\ EventsAreLive' /\ DescriptorsAreDistinct' /\ AnswersAreOwn'
<1> USE DEF IInv
<1>1. UNCHANGED <<pc, tables, events, fd, answered>>
  BY DEF Environment, Connect, Ask, Read, Leave, ListenerFails, environment, history
<1>2. ASSUME NEW c \in Conns, peer[c] # "new" PROVE peer'[c] # "new"
  BY <1>2 DEF Environment, Connect, Ask, Read, Leave, ListenerFails, TypeOK
<1>3. \/ UNCHANGED backlog
      \/ \E c \in Conns : /\ peer[c] = "new" /\ peer'[c] = "open"
                          /\ backlog' = Append(backlog, c)
  BY DEF Environment, Connect, Ask, Read, Leave, ListenerFails, TypeOK
<1>4. BatchFits'
  BY <1>1 DEF BatchFits
<1>5. \A d \in DOMAIN clients : clients[d] \in Conns
  BY DEF TypeOK
<1>6. ASSUME NEW i \in DOMAIN backlog PROVE backlog[i] \in Conns
  BY <1>6, ElementOfSeq DEF TypeOK
<1>7. ASSUME UNCHANGED backlog
      PROVE  KnownWasMade' /\ DescriptorsAreDistinct' /\ EventsAreLive'
  <2>1. KnownWasMade' /\ DescriptorsAreDistinct'
    BY <1>1, <1>2, <1>5, <1>6, <1>7 DEF KnownWasMade, DescriptorsAreDistinct, tables
  <2>2. listener' = listener \/ listener' = "failed"
    BY DEF Environment, Connect, Ask, Read, Leave, ListenerFails
  <2>3. EventsAreLive'
    BY <1>1, <1>7, <2>2 DEF EventsAreLive, tables
  <2> QED BY <2>1, <2>3
<1>8. ASSUME NEW c \in Conns, peer[c] = "new", peer'[c] = "open",
             backlog' = Append(backlog, c)
      PROVE  KnownWasMade' /\ DescriptorsAreDistinct' /\ EventsAreLive'
  <2>1. backlog \in Seq(Conns)
    BY DEF TypeOK
  <2>2. /\ Len(backlog) \in Nat /\ DOMAIN backlog = 1..Len(backlog)
        /\ DOMAIN backlog' = 1..(Len(backlog) + 1)
        /\ backlog'[Len(backlog) + 1] = c
        /\ \A i \in 1..Len(backlog) : backlog'[i] = backlog[i]
    BY <1>8, <2>1, AppendProperties
  <2>3. c \notin {clients[d] : d \in DOMAIN clients}
    BY <1>8 DEF KnownWasMade
  <2>4. \A i \in DOMAIN backlog : backlog[i] # c
    BY <1>8 DEF KnownWasMade
  <2>5. KnownWasMade'
    BY <1>1, <1>2, <1>5, <1>6, <1>8, <2>2 DEF KnownWasMade, tables
  <2>6. DescriptorsAreDistinct'
    BY <1>1, <2>2, <2>3, <2>4 DEF DescriptorsAreDistinct, tables
  <2>7. backlog' # <<>>
    BY <2>2
  <2>8. EventsAreLive'
    BY <1>1, <2>7 DEF EventsAreLive, tables
  <2> QED BY <2>5, <2>6, <2>8
<1>9. InboxIsOwn'
  <2>1. CASE \E c \in Conns : Ask(c)
    <3>1. PICK c \in Conns : Ask(c)
      BY <2>1
    <3>2. PICK n \in (sent[c] + 1)..(3 * MaxRequests[c]) :
            inbox' = [inbox EXCEPT ![c] =
                        inbox[c] \o SubSeq(AllRequests(c), sent[c] + 1, n)]
      BY <3>1 DEF Ask
    <3> DEFINE more == SubSeq(AllRequests(c), sent[c] + 1, n)
    <3>3. sent[c] + 1 \in Nat \ {0} /\ 3 * MaxRequests[c] \in Nat
      BY NumbersOf DEF IInv
    <3>4. n \in Nat /\ n <= Len(AllRequests(c))
      BY <3>2, <3>3, AllRequestsType
    <3>5. AllRequests(c) \in Seq(Symbols) /\ AllBy(c, AllRequests(c))
      BY AllRequestsType
    <3>6. more \in Seq(Symbols)
      BY <3>3, <3>4, <3>5, PartsType
    <3>7. AllBy(c, more)
      BY <3>3, <3>4, <3>5, PartsAreOwn
    <3>8. inbox[c] \in Seq(Symbols) /\ AllBy(c, inbox[c])
      BY DEF TypeOK, InboxIsOwn
    <3>9. AllBy(c, inbox[c] \o more)
      <4> HIDE DEF more
      <4>1. 1 \in Nat \ {0} /\ 0 \in Nat /\ 0 <= Len(inbox[c])
        BY <3>8, LenProperties
      <4> QED BY <3>6, <3>7, <3>8, <4>1, PartsAreOwn
    <3>10. inbox'[c] = inbox[c] \o more /\ \A b \in Conns \ {c} : inbox'[b] = inbox[b]
      BY <3>2 DEF TypeOK
    <3> QED BY <3>9, <3>10 DEF InboxIsOwn
  <2>2. CASE ~\E c \in Conns : Ask(c)
    <3>1. ASSUME NEW c \in Conns PROVE inbox'[c] = inbox[c] \/ inbox'[c] = <<>>
      BY <2>2 DEF Environment, Connect, Read, Leave, ListenerFails, TypeOK
    <3> QED BY <3>1 DEF InboxIsOwn, AllBy
  <2> QED BY <2>1, <2>2
<1>10. AnswersAreOwn'
  BY <1>1 DEF AnswersAreOwn, tables
<1> QED BY <1>3, <1>4, <1>7, <1>8, <1>9, <1>10

-----------------------------------------------------------------------------
(* run(), handleError(), handleServer().                                   *)

\* What the parts about clients, waiting clients and answers depend on.
LEMMA TablesUnchanged ==
  ASSUME IInv, UNCHANGED <<peer, inbox, backlog, clients, poller, cache, answered>>
  PROVE  KnownWasMade' /\ InboxIsOwn' /\ DescriptorsAreDistinct' /\ AnswersAreOwn'
  BY DEF IInv, KnownWasMade, InboxIsOwn, DescriptorsAreDistinct, AnswersAreOwn

LEMMA LoopSafe ==
  ASSUME IInv, Top \/ Sweep \/ Poll \/ PollFails \/ NoMoreEvents
  PROVE  /\ BatchFits' /\ KnownWasMade' /\ InboxIsOwn'
         /\ EventsAreLive' /\ DescriptorsAreDistinct' /\ AnswersAreOwn'
<1>1. UNCHANGED <<peer, inbox, backlog, listener, clients, poller, cache, answered>>
  BY DEF Top, Sweep, Poll, PollFails, NoMoreEvents, environment, tables, history
<1>2. KnownWasMade' /\ InboxIsOwn' /\ DescriptorsAreDistinct' /\ AnswersAreOwn'
  BY <1>1, TablesUnchanged
<1>3. CASE Poll
  <2>1. pc' = "events"
    BY <1>3 DEF Poll, Goes
  <2>2. ASSUME NEW e \in events'
        PROVE  \/ e = ListenerEvent /\ e.of = Listener
                  /\ (e.error \/ listener = "failed" \/ backlog # <<>>)
               \/ \E d \in DOMAIN clients : e = ClientEvent(d) /\ e.of = d
    <3>1. \/ e = ListenerEvent /\ (backlog # <<>> \/ listener = "failed")
          \/ \E d \in poller : e = ClientEvent(d)
      BY <1>3, <2>2 DEF Poll
    <3>2. poller = DOMAIN clients
      BY DEF IInv, DescriptorsAreDistinct
    <3>3. ListenerEvent.of = Listener /\ \A d \in DOMAIN clients : ClientEvent(d).of = d
      BY DEF ListenerEvent, ClientEvent
    <3> QED BY <3>1, <3>2, <3>3
  <2>3. Listener \notin DOMAIN clients
    BY DescriptorsAssumption DEF IInv, TypeOK
  <2>4. \A e, f \in events' : e.of = f.of => e = f
    BY <2>2, <2>3
  <2>5. EventsAreLive'
    BY <1>1, <2>1, <2>2, <2>4 DEF EventsAreLive
  <2> QED BY <1>2, <2>1, <2>5 DEF BatchFits
<1>4. CASE Top \/ Sweep \/ PollFails \/ NoMoreEvents
  <2>1. pc' \in {"top", "sweep", "poll", "returned"} /\ UNCHANGED <<events, fd>>
    BY <1>4 DEF Top, Sweep, PollFails, NoMoreEvents, Goes
  <2>2. EventsAreLive'
    BY <1>1, <2>1 DEF IInv, EventsAreLive
  <2>3. BatchFits'
    BY <1>4, <2>1 DEF IInv, BatchFits, Top, Sweep, PollFails, NoMoreEvents, Goes
  <2> QED BY <1>2, <2>2, <2>3
<1> QED BY <1>3, <1>4

\* The process ends.
LEMMA RaisesSafe ==
  ASSUME IInv, NEW from, Raises(from)
  PROVE  /\ BatchFits' /\ KnownWasMade' /\ InboxIsOwn'
         /\ EventsAreLive' /\ DescriptorsAreDistinct' /\ AnswersAreOwn'
<1>1. /\ UNCHANGED <<peer, inbox, backlog, listener, clients, poller, cache, answered>>
      /\ pc' = "raised" /\ UNCHANGED <<events, fd>>
  BY DEF Raises, Goes, environment, tables, history
<1>2. EventsAreLive' /\ BatchFits'
  BY <1>1 DEF IInv, EventsAreLive, BatchFits
<1> QED BY <1>1, <1>2, TablesUnchanged

\* A client is taken out of the tables.
LEMMA ClientRemoved ==
  ASSUME IInv, NEW d, poller' = poller \ {d}, clients' = Without(clients, d),
         UNCHANGED <<peer, inbox, backlog, cache, answered>>
  PROVE  /\ DOMAIN clients' = DOMAIN clients \ {d}
         /\ KnownWasMade' /\ InboxIsOwn' /\ DescriptorsAreDistinct' /\ AnswersAreOwn'
<1>1. /\ DOMAIN clients' = DOMAIN clients \ {d}
      /\ \A e \in DOMAIN clients' : clients'[e] = clients[e]
  BY DEF Without
<1>2. KnownWasMade' /\ InboxIsOwn'
  BY <1>1 DEF IInv, KnownWasMade, InboxIsOwn
<1>3. DescriptorsAreDistinct'
  BY <1>1 DEF IInv, DescriptorsAreDistinct
<1>4. AnswersAreOwn'
  BY <1>1 DEF IInv, AnswersAreOwn
<1> QED BY <1>1, <1>2, <1>3, <1>4

LEMMA HandleSafe ==
  ASSUME IInv, NEW e \in events, Handle(e)
  PROVE  /\ BatchFits' /\ KnownWasMade' /\ InboxIsOwn'
         /\ EventsAreLive' /\ DescriptorsAreDistinct' /\ AnswersAreOwn'
<1>1. \A f \in events \ {e} : f.of # e.of
  BY DEF IInv, EventsAreLive
<1>2. CASE ClientError(e)
  <2>1. /\ pc' = "events" /\ events' = events \ {e}
        /\ poller' = poller \ {e.of} /\ clients' = Without(clients, e.of)
        /\ UNCHANGED <<peer, inbox, backlog, listener, cache, answered>>
    BY <1>2 DEF ClientError, Goes, environment, history
  <2>2. /\ DOMAIN clients' = DOMAIN clients \ {e.of}
        /\ KnownWasMade' /\ InboxIsOwn' /\ DescriptorsAreDistinct' /\ AnswersAreOwn'
    BY <2>1, ClientRemoved
  <2>3. EventsAreLive' /\ BatchFits'
    BY <1>1, <2>1, <2>2 DEF IInv, EventsAreLive, BatchFits
  <2> QED BY <2>2, <2>3
<1>3. CASE ListenerError(e)
  <2> DEFINE waiting == {backlog[i] : i \in DOMAIN backlog}
  <2>1. /\ pc' = "events" /\ events' = events \ {e} /\ e.of = Listener
        /\ backlog' = <<>> /\ UNCHANGED <<clients, poller, cache, answered, fd>>
        /\ peer' = [c \in Conns |-> IF c \in waiting THEN "reset" ELSE peer[c]]
        /\ inbox' = [c \in Conns |-> IF c \in waiting THEN <<>> ELSE inbox[c]]
    BY <1>3 DEF ListenerError, Goes, tables, history
  <2> HIDE DEF waiting
  <2>2. \A c \in Conns : peer[c] # "new" => peer'[c] # "new"
    BY <2>1
  <2>3. \A d \in DOMAIN clients : clients[d] \in Conns
    BY DEF IInv, TypeOK
  <2>4. DOMAIN backlog' = {}
    BY <2>1
  <2>5. KnownWasMade'
    BY <2>1, <2>2, <2>3, <2>4 DEF IInv, KnownWasMade
  <2>6. InboxIsOwn'
    BY <2>1 DEF IInv, InboxIsOwn, AllBy
  <2>7. DescriptorsAreDistinct' /\ AnswersAreOwn'
    BY <2>1, <2>4 DEF IInv, DescriptorsAreDistinct, AnswersAreOwn
  <2>8. EventsAreLive' /\ BatchFits'
    BY <1>1, <2>1 DEF IInv, EventsAreLive, BatchFits
  <2> QED BY <2>5, <2>6, <2>7, <2>8
<1>4. CASE ListenerLost(e) \/ AcceptFails(e)
  BY <1>4, RaisesSafe DEF ListenerLost, AcceptFails
<1>5. CASE Accept(e)
  <2>1. PICK d \in Least(Free) :
          /\ clients' = [c \in DOMAIN clients \cup {d} |->
                           IF c = d THEN Head(backlog) ELSE clients[c]]
          /\ cache' = [cache EXCEPT ![d] = <<>>]
          /\ poller' = poller \cup {d}
    BY <1>5 DEF Accept
  <2>2. /\ pc' = "events" /\ events' = events \ {e} /\ e.of = Listener
        /\ backlog # <<>> /\ backlog' = Tail(backlog)
        /\ UNCHANGED <<peer, inbox, answered, fd>>
    BY <1>5 DEF Accept, Goes, history
  <2>3. d \in Descriptors /\ d \notin DOMAIN clients
    BY DEF Least, Free
  <2>4. backlog \in Seq(Conns) /\ Len(backlog) \in Nat /\ DOMAIN backlog = 1..Len(backlog)
    BY DEF IInv, TypeOK
  <2>5. /\ 1 \in DOMAIN backlog /\ Head(backlog) = backlog[1]
        /\ DOMAIN backlog' = 1..(Len(backlog) - 1)
        /\ \A i \in DOMAIN backlog' : backlog'[i] = backlog[i + 1] /\ i + 1 \in DOMAIN backlog
    BY <2>2, <2>4
  <2>6. /\ DOMAIN clients' = DOMAIN clients \cup {d}
        /\ clients'[d] = backlog[1]
        /\ \A f \in DOMAIN clients : clients'[f] = clients[f]
    BY <2>1, <2>3, <2>5
  <2>7. /\ cache'[d] = <<>>
        /\ \A f \in DOMAIN clients : cache'[f] = cache[f]
    BY <2>1, <2>3 DEF IInv, TypeOK
  <2>8. KnownWasMade'
    BY <2>2, <2>5, <2>6 DEF IInv, KnownWasMade
  <2>9. DescriptorsAreDistinct'
    <3>1. poller' = DOMAIN clients'
      BY <2>1, <2>6 DEF IInv, DescriptorsAreDistinct
    <3>2. \A f \in DOMAIN clients : clients[f] # backlog[1]
      BY <2>5 DEF IInv, DescriptorsAreDistinct
    <3>3. \A f, g \in DOMAIN clients' : clients'[f] = clients'[g] => f = g
      BY <2>6, <3>2 DEF IInv, DescriptorsAreDistinct
    <3>4. ASSUME NEW i \in DOMAIN backlog' PROVE backlog'[i] # backlog[1]
      <4>1. i + 1 # 1 /\ i + 1 \in DOMAIN backlog /\ backlog'[i] = backlog[i + 1]
        BY <2>4, <2>5, <3>4
      <4> QED BY <2>5, <4>1 DEF IInv, DescriptorsAreDistinct
    <3>5. ASSUME NEW i \in DOMAIN backlog', NEW f \in DOMAIN clients' 
          PROVE  clients'[f] # backlog'[i]
      <4>1. CASE f = d
        BY <2>6, <3>4, <4>1
      <4>2. CASE f # d
        BY <2>5, <2>6, <4>2 DEF IInv, DescriptorsAreDistinct
      <4> QED BY <4>1, <4>2
    <3>6. ASSUME NEW i \in DOMAIN backlog', NEW j \in DOMAIN backlog', backlog'[i] = backlog'[j]
          PROVE  i = j
      <4>1. i + 1 = j + 1
        BY <2>5, <3>6 DEF IInv, DescriptorsAreDistinct
      <4> QED BY <2>4, <2>5, <4>1
    <3> QED BY <3>1, <3>3, <3>5, <3>6 DEF DescriptorsAreDistinct
  <2>10. InboxIsOwn' /\ AnswersAreOwn'
    BY <2>2, <2>6, <2>7 DEF IInv, InboxIsOwn, AnswersAreOwn, AllBy
  <2>11. EventsAreLive' /\ BatchFits'
    BY <1>1, <2>2, <2>6 DEF IInv, EventsAreLive, BatchFits
  <2> QED BY <2>8, <2>9, <2>10, <2>11
<1>6. CASE Begin(e)
  <2>1. /\ pc' = "recv" /\ events' = events \ {e} /\ fd' = e.of /\ e.of # Listener
        /\ UNCHANGED <<peer, inbox, backlog, listener, clients, poller, cache, answered>>
    BY <1>6 DEF Begin, Goes, environment, history
  <2>2. e.of \in DOMAIN clients
    BY <2>1 DEF IInv, EventsAreLive
  <2>3. EventsAreLive' /\ BatchFits'
    BY <1>1, <2>1, <2>2 DEF IInv, EventsAreLive, BatchFits
  <2> QED BY <2>1, <2>3, TablesUnchanged
<1> QED BY <1>2, <1>3, <1>4, <1>5, <1>6 DEF Handle

-----------------------------------------------------------------------------
(* handleClient().                                                         *)

\* Where the loop over the events and the client in hand are left alone.
LEMMA BatchUnchanged ==
  ASSUME IInv, pc \in {"recv", "send"}, UNCHANGED <<clients, backlog, listener, events>>,
         pc' = "events" \/ (pc' \in {"recv", "send"} /\ fd' = fd)
  PROVE  EventsAreLive' /\ BatchFits'
  BY DEF IInv, EventsAreLive, BatchFits

LEMMA ReceiveSafe ==
  ASSUME IInv, ReceivePart \/ ReceiveRequest
  PROVE  /\ BatchFits' /\ KnownWasMade' /\ InboxIsOwn'
         /\ EventsAreLive' /\ DescriptorsAreDistinct' /\ AnswersAreOwn'
<1>1. /\ pc = "recv" /\ pc' \in {"recv", "send"}
      /\ UNCHANGED <<peer, backlog, listener, clients, poller, events, fd>>
      /\ inbox' = [inbox EXCEPT ![Conn] =
                     SubSeq(inbox[Conn], Taken + 1, Len(inbox[Conn]))]
  BY DEF ReceivePart, ReceiveRequest, Receive, Goes
<1>2. EventsAreLive' /\ BatchFits'
  BY <1>1, BatchUnchanged
<1>3. KnownWasMade' /\ DescriptorsAreDistinct'
  BY <1>1 DEF IInv, KnownWasMade, DescriptorsAreDistinct
<1>4. /\ fd \in Descriptors /\ fd \in DOMAIN clients /\ Conn \in Conns
      /\ Taken \in 0..Len(inbox[Conn]) /\ inbox[Conn] \in Seq(Symbols)
      /\ Data \in Seq(Symbols) /\ Len(Data) = Taken
      /\ cache[fd] \in Seq(Symbols) /\ AllData \in Seq(Symbols)
      /\ Len(AllData) = Len(cache[fd]) + Len(Data)
  BY <1>1, InHand DEF IInv
<1>5. Len(inbox[Conn]) \in Nat /\ Taken \in Nat /\ Len(cache[fd]) \in Nat
  BY <1>4, LenProperties
<1>6. AllBy(Conn, inbox[Conn]) /\ AllBy(Conn, cache[fd])
  BY <1>4 DEF IInv, InboxIsOwn, AnswersAreOwn, Conn
<1>7. AllBy(Conn, SubSeq(inbox[Conn], Taken + 1, Len(inbox[Conn]))) /\ AllBy(Conn, Data)
  <2>1. Taken + 1 \in Nat \ {0} /\ 1 \in Nat \ {0} /\ Taken <= Len(inbox[Conn])
    BY <1>4, <1>5
  <2>2. AllBy(Conn, SubSeq(inbox[Conn], Taken + 1, Len(inbox[Conn])))
    BY <1>4, <1>5, <1>6, <2>1, PartsAreOwn
  <2>3. AllBy(Conn, SubSeq(inbox[Conn], 1, Taken))
    BY <1>4, <1>5, <1>6, <2>1, PartsAreOwn
  <2> QED BY <2>2, <2>3 DEF Data
<1>8. AllBy(Conn, AllData)
  <2>1. 1 \in Nat \ {0} /\ 0 \in Nat /\ 0 <= Len(cache[fd])
    BY <1>5
  <2> QED BY <1>4, <1>6, <1>7, <2>1, PartsAreOwn DEF AllData
<1>9. InboxIsOwn'
  BY <1>1, <1>4, <1>7 DEF IInv, TypeOK, InboxIsOwn
<1>10. ASSUME NEW data, AllBy(Conn, data), cache' = [cache EXCEPT ![fd] = data]
       PROVE  \A d \in DOMAIN clients' : AllBy(clients'[d], cache'[d])
  <2>1. /\ cache'[fd] = data
        /\ \A d \in DOMAIN clients \ {fd} : cache'[d] = cache[d]
    BY <1>4, <1>10 DEF IInv, TypeOK
  <2> QED BY <1>1, <1>10, <2>1 DEF IInv, AnswersAreOwn, Conn
<1>11. CASE ReceivePart
  <2>1. cache' = [cache EXCEPT ![fd] = AllData] /\ UNCHANGED answered
    BY <1>11 DEF ReceivePart
  <2>2. AnswersAreOwn'
    BY <1>8, <1>10, <2>1 DEF IInv, AnswersAreOwn
  <2> QED BY <1>2, <1>3, <1>9, <2>2
<1>12. CASE ReceiveRequest
  <2>1. PICK i \in Least(BlankLines(Data)) :
          /\ cache' = [cache EXCEPT ![fd] = SubSeq(AllData, i + 1, Len(AllData))]
          /\ answered' = [answered EXCEPT ![Conn] =
                            Append(answered[Conn], SubSeq(AllData, 1, i))]
    BY <1>12 DEF ReceiveRequest
  <2>2. i \in 0..(Len(Data) - 2)
    BY DEF Least, BlankLines
  <2>3. /\ i \in Nat /\ i <= Len(AllData) /\ i + 1 \in Nat \ {0} /\ 1 \in Nat \ {0}
        /\ Len(AllData) \in Nat /\ Len(AllData) <= Len(AllData)
    BY <1>4, <1>5, <2>2
  <2>4. AllBy(Conn, SubSeq(AllData, i + 1, Len(AllData)))
    BY <1>4, <1>8, <2>3, PartsAreOwn
  <2>5. AllBy(Conn, SubSeq(AllData, 1, i)) /\ SubSeq(AllData, 1, i) \in Seq(Symbols)
    BY <1>4, <1>8, <2>3, PartsAreOwn, PartsType
  <2>6. \A d \in DOMAIN clients' : AllBy(clients'[d], cache'[d])
    BY <1>10, <2>1, <2>4
  <2>7. answered[Conn] \in Seq(Seq(Symbols)) /\ Len(answered[Conn]) \in Nat
    BY <1>4, LenProperties DEF IInv, TypeOK
  <2>8. /\ answered'[Conn] = Append(answered[Conn], SubSeq(AllData, 1, i))
        /\ \A c \in Conns \ {Conn} : answered'[c] = answered[c]
    BY <1>4, <2>1 DEF IInv, TypeOK
  <2>9. /\ DOMAIN answered'[Conn] = 1..(Len(answered[Conn]) + 1)
        /\ answered'[Conn][Len(answered[Conn]) + 1] = SubSeq(AllData, 1, i)
        /\ \A k \in 1..Len(answered[Conn]) : answered'[Conn][k] = answered[Conn][k]
    BY <2>5, <2>7, <2>8, AppendProperties
  <2>10. ASSUME NEW k \in DOMAIN answered'[Conn] PROVE AllBy(Conn, answered'[Conn][k])
    <3>1. CASE k = Len(answered[Conn]) + 1
      BY <2>5, <2>9, <3>1
    <3>2. CASE k # Len(answered[Conn]) + 1
      <4>1. k \in DOMAIN answered[Conn] /\ answered'[Conn][k] = answered[Conn][k]
        BY <2>7, <2>9, <2>10, <3>2
      <4> QED BY <1>4, <4>1 DEF IInv, AnswersAreOwn
    <3> QED BY <3>1, <3>2
  <2>11. \A c \in Conns : \A k \in DOMAIN answered'[c] : AllBy(c, answered'[c][k])
    BY <2>8, <2>10 DEF IInv, AnswersAreOwn
  <2>12. AnswersAreOwn'
    BY <2>6, <2>11 DEF AnswersAreOwn
  <2> QED BY <1>2, <1>3, <1>9, <2>12
<1> QED BY <1>11, <1>12

LEMMA HandleClientSafe ==
  ASSUME IInv, HandleClient
  PROVE  /\ BatchFits' /\ KnownWasMade' /\ InboxIsOwn'
         /\ EventsAreLive' /\ DescriptorsAreDistinct' /\ AnswersAreOwn'
<1>1. CASE ReceivePart \/ ReceiveRequest
  BY <1>1, ReceiveSafe
<1>2. CASE EndOfClient
  <2>1. /\ pc = "recv" /\ pc' = "events"
        /\ poller' = poller \ {fd} /\ clients' = Without(clients, fd)
        /\ UNCHANGED <<peer, inbox, backlog, listener, events, cache, answered>>
    BY <1>2 DEF EndOfClient, Goes, environment, history
  <2>2. /\ DOMAIN clients' = DOMAIN clients \ {fd}
        /\ KnownWasMade' /\ InboxIsOwn' /\ DescriptorsAreDistinct' /\ AnswersAreOwn'
    BY <2>1, ClientRemoved
  <2>3. EventsAreLive' /\ BatchFits'
    BY <2>1, <2>2 DEF IInv, EventsAreLive, BatchFits
  <2> QED BY <2>2, <2>3
<1>3. CASE WouldBlock \/ ReceiveFails \/ ProcessFails
  BY <1>3, RaisesSafe DEF WouldBlock, ReceiveFails, ProcessFails
<1>4. CASE Send \/ SendToClosed
  <2>1. PICK n \in 1..left : Sent(n)
    BY <1>4 DEF Send, SendToClosed
  <2>2. pc = "send"
    BY <1>4 DEF Send, SendToClosed
  <2>3. /\ UNCHANGED <<backlog, listener, clients, poller, events, answered>>
        /\ pc' = "events" \/ (pc' = "send" /\ fd' = fd)
        /\ cache' = cache \/ cache' = [cache EXCEPT ![fd] = <<>>]
    BY <2>1, <2>2 DEF Sent, history
  <2>4. fd \in Descriptors /\ Conn \in Conns
    BY <2>2, InHand DEF IInv
  <2>5. EventsAreLive' /\ BatchFits'
    BY <2>2, <2>3, BatchUnchanged
  <2>6. \A c \in Conns : /\ peer[c] # "new" => peer'[c] # "new"
                         /\ inbox'[c] = inbox[c] \/ inbox'[c] = <<>>
    BY <1>4, <2>4 DEF Send, SendToClosed, IInv, TypeOK
  <2>7. InboxIsOwn'
    BY <2>6 DEF IInv, InboxIsOwn, AllBy
  <2>8. /\ \A d \in DOMAIN clients : clients[d] \in Conns
        /\ \A i \in DOMAIN backlog : backlog[i] \in Conns
    BY ElementOfSeq DEF IInv, TypeOK
  <2>9. KnownWasMade' /\ DescriptorsAreDistinct'
    BY <2>3, <2>6, <2>8 DEF IInv, KnownWasMade, DescriptorsAreDistinct
  <2>10. \A d \in DOMAIN clients : cache'[d] = cache[d] \/ cache'[d] = <<>>
    BY <2>3, <2>4 DEF IInv, TypeOK
  <2>11. AnswersAreOwn'
    BY <2>3, <2>10 DEF IInv, AnswersAreOwn, AllBy
  <2> QED BY <2>5, <2>7, <2>9, <2>11
<1> QED BY <1>1, <1>2, <1>3, <1>4 DEF HandleClient

-----------------------------------------------------------------------------
(* Requests and answers, counted along the stream of each connection.      *)

\* Where the halves of blank lines stand in what a client sends.
LEMMA AllRequestsShape ==
  ASSUME NEW c \in Conns, NEW i \in 1..(3 * MaxRequests[c])
  PROVE  /\ i % 3 = 1 => AllRequests(c)[i] = Lines(c, (i + 2) \div 3)
         /\ AllRequests(c)[i] = HalfBlankLine <=> i % 3 # 1
<1>1. i % 3 = 1 => AllRequests(c)[i] = Lines(c, (i + 2) \div 3)
  BY DEF AllRequests
<1>2. i % 3 # 1 => AllRequests(c)[i] = HalfBlankLine
  BY DEF AllRequests
<1>3. Lines(c, (i + 2) \div 3) # HalfBlankLine
  <2>1. DOMAIN Lines(c, (i + 2) \div 3) = {"of", "number"} /\ DOMAIN HalfBlankLine = {"half"}
    BY DEF Lines, HalfBlankLine
  <2> QED BY <2>1
<1> QED BY <1>1, <1>2, <1>3

\* One request: its lines, and the two halves of its blank line.
LEMMA RequestShape ==
  ASSUME NEW c \in Conns, NEW k \in 1..MaxRequests[c]
  PROVE  /\ Len(Request(c, k)) = 3
         /\ Request(c, k)[1] = Lines(c, k)
         /\ Request(c, k)[2] = HalfBlankLine /\ Request(c, k)[3] = HalfBlankLine
<1>1. MaxRequests[c] \in Nat /\ k \in Nat /\ 1 <= k /\ k <= MaxRequests[c]
  BY SizesAssumption
<1> DEFINE A == AllRequests(c)
<1>2. A \in Seq(Symbols) /\ Len(A) = 3 * MaxRequests[c]
  BY AllRequestsType
<1>3. /\ 3 * k - 2 \in 1..(3 * MaxRequests[c]) /\ (3 * k - 2) % 3 = 1
      /\ 3 * k - 1 \in 1..(3 * MaxRequests[c]) /\ (3 * k - 1) % 3 # 1
      /\ 3 * k \in 1..(3 * MaxRequests[c]) /\ (3 * k) % 3 # 1
      /\ (3 * k - 2 + 2) \div 3 = k
  BY <1>1
<1>4. A[3 * k - 2] = Lines(c, k) /\ A[3 * k - 1] = HalfBlankLine /\ A[3 * k] = HalfBlankLine
  BY <1>3, AllRequestsShape
<1> HIDE DEF A
<1>5. /\ Len(SubSeq(A, 3 * k - 2, 3 * k)) = 3
      /\ \A j \in 1..3 : SubSeq(A, 3 * k - 2, 3 * k)[j] = A[3 * k - 2 + j - 1]
  BY <1>1, <1>2, <1>3, SubSeqProperties
<1>6. SubSeq(A, 3 * k - 2, 3 * k)[1] = A[3 * k - 2]
  BY <1>1, <1>5
<1>7. SubSeq(A, 3 * k - 2, 3 * k)[2] = A[3 * k - 1]
  BY <1>1, <1>5
<1>8. SubSeq(A, 3 * k - 2, 3 * k)[3] = A[3 * k]
  BY <1>1, <1>5
<1> QED BY <1>4, <1>5, <1>6, <1>7, <1>8 DEF Request, A

\* What was not received of a connection is the rest of what has arrived.
InboxIsRest ==
  \A c \in Conns :
    /\ Len(inbox[c]) <= sent[c]
    /\ \A i \in 1..Len(inbox[c]) :
         inbox[c][i] = AllRequests(c)[sent[c] - Len(inbox[c]) + i]
    /\ peer[c] = "reset" => inbox[c] = <<>>

\* Symbols of a connection that were received, or lost with it.
Received(c) == sent[c] - Len(inbox[c])

\* Every answer has used up three symbols of its own.
AnswersWereReceived == \A c \in Conns : 3 * Len(answered[c]) <= Received(c)

\* Between requests nothing of a connection is half received or cached.
InStep ==
  /\ \A c \in Conns \ torn : peer[c] # "reset" => Received(c) = 3 * Len(answered[c])
  /\ \A d \in DOMAIN clients :
       clients[d] \notin torn /\ ~(pc = "send" /\ fd = d) => cache[d] = <<>>

Flow == InboxIsRest /\ AnswersWereReceived /\ InStep /\ WholeUnlessTorn

LEMMA InitFlow == Init => Flow
<1> SUFFICES ASSUME Init PROVE Flow
  OBVIOUS
<1>1. InboxIsRest /\ AnswersWereReceived /\ InStep
  BY DEF Init, InboxIsRest, AnswersWereReceived, InStep, Received
<1>2. WholeUnlessTorn
  BY DEF Init, WholeUnlessTorn
<1> QED BY <1>1, <1>2 DEF Flow

LEMMA LengthsAreNat ==
  ASSUME TypeOK, NEW c \in Conns
  PROVE  /\ sent[c] \in Nat /\ inbox[c] \in Seq(Symbols) /\ Len(inbox[c]) \in Nat
         /\ answered[c] \in Seq(Seq(Symbols)) /\ Len(answered[c]) \in Nat
         /\ MaxRequests[c] \in Nat /\ sent[c] <= 3 * MaxRequests[c]
  BY LenProperties, SizesAssumption DEF TypeOK

\* The steps in which nothing is sent or received: connections may break, and
\* lose what has arrived.
LEMMA FlowUnchanged ==
  ASSUME TypeOK, Flow, UNCHANGED <<sent, answered, torn>>,
         \A c \in Conns : \/ /\ inbox'[c] = inbox[c]
                             /\ peer'[c] = "reset" <=> peer[c] = "reset"
                          \/ inbox'[c] = <<>> /\ peer'[c] = "reset",
         \A d \in DOMAIN clients' :
           clients'[d] \notin torn /\ ~(pc' = "send" /\ fd' = d) => cache'[d] = <<>>
  PROVE  Flow'
<1>1. ASSUME NEW c \in Conns
      PROVE  /\ Len(inbox'[c]) <= sent'[c]
             /\ \A i \in 1..Len(inbox'[c]) :
                  inbox'[c][i] = AllRequests(c)[sent'[c] - Len(inbox'[c]) + i]
             /\ peer'[c] = "reset" => inbox'[c] = <<>>
             /\ 3 * Len(answered'[c]) <= sent'[c] - Len(inbox'[c])
             /\ c \notin torn /\ peer'[c] # "reset" =>
                  sent'[c] - Len(inbox'[c]) = 3 * Len(answered'[c])
  <2>1. /\ sent[c] \in Nat /\ Len(inbox[c]) \in Nat /\ Len(answered[c]) \in Nat
        /\ Len(<<>>) = 0
    BY LengthsAreNat
  <2>2. /\ Len(inbox[c]) <= sent[c]
        /\ 3 * Len(answered[c]) <= sent[c] - Len(inbox[c])
        /\ peer[c] = "reset" => inbox[c] = <<>>
    BY DEF Flow, InboxIsRest, AnswersWereReceived, Received
  <2>3. CASE inbox'[c] = inbox[c] /\ (peer'[c] = "reset" <=> peer[c] = "reset")
    <3>1. \A i \in 1..Len(inbox[c]) :
            inbox[c][i] = AllRequests(c)[sent[c] - Len(inbox[c]) + i]
      BY DEF Flow, InboxIsRest
    <3>2. c \notin torn /\ peer[c] # "reset" =>
            sent[c] - Len(inbox[c]) = 3 * Len(answered[c])
      BY DEF Flow, InStep, Received
    <3>3. sent'[c] = sent[c] /\ answered'[c] = answered[c] /\ inbox'[c] = inbox[c]
      BY <2>3
    <3>4. \A i \in 1..Len(inbox'[c]) :
            inbox'[c][i] = AllRequests(c)[sent'[c] - Len(inbox'[c]) + i]
      BY <3>1, <3>3
    <3>5. c \notin torn /\ peer'[c] # "reset" =>
            sent'[c] - Len(inbox'[c]) = 3 * Len(answered'[c])
      BY <2>3, <3>2, <3>3
    <3> QED BY <2>2, <2>3, <3>3, <3>4, <3>5
  <2>4. CASE inbox'[c] = <<>> /\ peer'[c] = "reset"
    <3>1. Len(inbox'[c]) = 0 /\ 1..Len(inbox'[c]) = {}
      BY <2>1, <2>4
    <3> QED BY <2>1, <2>2, <2>4, <3>1
  <2> QED BY <2>3, <2>4
<1>2. InboxIsRest'
  BY <1>1 DEF InboxIsRest
<1>3. AnswersWereReceived'
  BY <1>1 DEF AnswersWereReceived, Received
<1>4. InStep'
  BY <1>1 DEF InStep, Received
<1>5. WholeUnlessTorn'
  BY DEF Flow, WholeUnlessTorn
<1> QED BY <1>2, <1>3, <1>4, <1>5 DEF Flow

\* Where neither the wires nor the tables change.
LEMMA FlowApart ==
  ASSUME TypeOK, Flow, UNCHANGED <<sent, answered, torn, inbox, peer, clients, cache>>,
         pc # "send"
  PROVE  Flow'
  BY FlowUnchanged DEF Flow, InStep

LEMMA EnvironmentFlow ==
  ASSUME IInv, Flow, Environment
  PROVE  Flow'
<1>1. UNCHANGED <<pc, clients, cache, fd, answered, torn>>
  BY DEF Environment, Connect, Ask, Read, Leave, ListenerFails, tables, history
<1>2. \A d \in DOMAIN clients' :
        clients'[d] \notin torn /\ ~(pc' = "send" /\ fd' = d) => cache'[d] = <<>>
  BY <1>1 DEF Flow, InStep
<1>3. TypeOK
  BY DEF IInv
<1>4. CASE ~\E c \in Conns : Ask(c)
  <2>1. UNCHANGED sent
    BY <1>4 DEF Environment, Connect, Read, Leave, ListenerFails
  <2>2. \A c \in Conns : \/ /\ inbox'[c] = inbox[c]
                            /\ peer'[c] = "reset" <=> peer[c] = "reset"
                         \/ inbox'[c] = <<>> /\ peer'[c] = "reset"
    BY <1>3, <1>4 DEF Environment, Connect, Read, Leave, ListenerFails, TypeOK
  <2> QED BY <1>1, <1>2, <1>3, <2>1, <2>2, FlowUnchanged
<1>5. ASSUME NEW c \in Conns, Ask(c) PROVE Flow'
  <2>1. PICK n \in (sent[c] + 1)..(3 * MaxRequests[c]) :
          /\ sent' = [sent EXCEPT ![c] = n]
          /\ inbox' = [inbox EXCEPT ![c] =
                         inbox[c] \o SubSeq(AllRequests(c), sent[c] + 1, n)]
    BY <1>5 DEF Ask
  <2>2. UNCHANGED peer
    BY <1>5 DEF Ask
  <2>3. /\ sent[c] \in Nat /\ Len(inbox[c]) \in Nat /\ inbox[c] \in Seq(Symbols)
        /\ Len(answered[c]) \in Nat /\ 3 * MaxRequests[c] \in Nat
    BY <1>3, LengthsAreNat
  <2>4. n \in Nat /\ sent[c] + 1 \in Nat \ {0} /\ sent[c] < n
    BY <2>3
  <2> DEFINE more == SubSeq(AllRequests(c), sent[c] + 1, n)
  <2>5. /\ more \in Seq(Symbols) /\ Len(more) = n - sent[c]
        /\ \A i \in 1..(n - sent[c]) : more[i] = AllRequests(c)[sent[c] + i]
    <3>1. AllRequests(c) \in Seq(Symbols) /\ n <= Len(AllRequests(c))
      BY <2>3, <2>4, AllRequestsType
    <3>2. sent[c] + 1 \in Int /\ n \in Int /\ sent[c] + 1 <= n
      BY <2>3, <2>4
    <3>3. \A i \in (sent[c] + 1)..n : AllRequests(c)[i] \in Symbols
      BY <2>3, <2>4, <3>1
    <3>4. /\ more \in Seq(Symbols) /\ Len(more) = n - (sent[c] + 1) + 1
          /\ \A i \in 1..(n - (sent[c] + 1) + 1) : more[i] = AllRequests(c)[(sent[c] + 1) + i - 1]
      BY <3>2, <3>3, SubSeqProperties
    <3> HIDE DEF more
    <3>5. n - (sent[c] + 1) + 1 = n - sent[c]
      BY <2>3, <2>4
    <3>6. \A i \in 1..(n - sent[c]) : (sent[c] + 1) + i - 1 = sent[c] + i
      BY <2>3, <2>4
    <3> QED BY <3>4, <3>5, <3>6
  <2> HIDE DEF more
  <2>6. /\ sent'[c] = n /\ inbox'[c] = inbox[c] \o more
        /\ \A b \in Conns \ {c} : sent'[b] = sent[b] /\ inbox'[b] = inbox[b]
    BY <1>3, <2>1 DEF TypeOK, more
  <2>7. /\ Len(inbox[c] \o more) = Len(inbox[c]) + (n - sent[c])
        /\ \A i \in 1..(Len(inbox[c]) + (n - sent[c])) :
             (inbox[c] \o more)[i] = IF i <= Len(inbox[c]) THEN inbox[c][i]
                                     ELSE more[i - Len(inbox[c])]
    <3>1. /\ Len(inbox[c] \o more) = Len(inbox[c]) + Len(more)
          /\ \A i \in 1..(Len(inbox[c]) + Len(more)) :
               (inbox[c] \o more)[i] = IF i <= Len(inbox[c]) THEN inbox[c][i]
                                       ELSE more[i - Len(inbox[c])]
      BY <2>3, <2>5, ConcatProperties
    <3> QED BY <2>5, <3>1
  <2>8. /\ Len(inbox[c]) <= sent[c] /\ peer[c] # "reset"
        /\ \A i \in 1..Len(inbox[c]) :
             inbox[c][i] = AllRequests(c)[sent[c] - Len(inbox[c]) + i]
    BY <1>5 DEF Flow, InboxIsRest, Ask
  <2>9. /\ Len(inbox'[c]) = Len(inbox[c]) + (n - sent[c])
        /\ sent'[c] - Len(inbox'[c]) = sent[c] - Len(inbox[c])
        /\ Len(inbox'[c]) <= sent'[c]
    BY <2>3, <2>4, <2>6, <2>7, <2>8
  <2>10. ASSUME NEW i \in 1..(Len(inbox[c]) + (n - sent[c]))
         PROVE  inbox'[c][i] = AllRequests(c)[sent[c] - Len(inbox[c]) + i]
    <3>1. CASE i <= Len(inbox[c])
      <4>1. i \in 1..Len(inbox[c])
        BY <2>3, <3>1
      <4> QED BY <2>6, <2>7, <2>8, <3>1, <4>1
    <3>2. CASE ~(i <= Len(inbox[c]))
      <4>1. /\ i - Len(inbox[c]) \in 1..(n - sent[c])
            /\ sent[c] + (i - Len(inbox[c])) = sent[c] - Len(inbox[c]) + i
        <5> DEFINE x == Len(inbox[c])
                   y == sent[c]
        <5>1. x \in Nat /\ y \in Nat /\ n \in Nat /\ y < n
          BY <2>3, <2>4
        <5>2. i \in 1..(x + (n - y)) /\ ~(i <= x)
          BY <2>10, <3>2
        <5> HIDE DEF x, y
        <5>3. i - x \in 1..(n - y) /\ y + (i - x) = y - x + i
          BY <5>1, <5>2
        <5> QED BY <5>3 DEF x, y
      <4> QED BY <2>5, <2>6, <2>7, <3>2, <4>1
    <3> QED BY <3>1, <3>2
  <2>11. InboxIsRest'
    <3>1. \A i \in 1..Len(inbox'[c]) :
            inbox'[c][i] = AllRequests(c)[sent'[c] - Len(inbox'[c]) + i]
      BY <2>9, <2>10
    <3>2. \A b \in Conns \ {c} : /\ Len(inbox[b]) <= sent[b]
                                 /\ \A i \in 1..Len(inbox[b]) :
                                      inbox[b][i] = AllRequests(b)[sent[b] - Len(inbox[b]) + i]
                                 /\ peer[b] = "reset" => inbox[b] = <<>>
      BY DEF Flow, InboxIsRest
    <3>3. \A b \in Conns \ {c} : /\ Len(inbox'[b]) <= sent'[b]
                                 /\ \A i \in 1..Len(inbox'[b]) :
                                      inbox'[b][i] = AllRequests(b)[sent'[b] - Len(inbox'[b]) + i]
                                 /\ peer'[b] = "reset" => inbox'[b] = <<>>
      BY <2>2, <2>6, <3>2
    <3>4. peer'[c] = "reset" => inbox'[c] = <<>>
      BY <2>2, <2>8
    <3> QED BY <2>9, <3>1, <3>3, <3>4 DEF InboxIsRest
  <2>12. \A b \in Conns : sent'[b] - Len(inbox'[b]) = sent[b] - Len(inbox[b])
    BY <2>6, <2>9
  <2>13. AnswersWereReceived'
    BY <1>1, <2>12 DEF Flow, AnswersWereReceived, Received
  <2>14. InStep'
    BY <1>1, <1>2, <2>2, <2>12 DEF Flow, InStep, Received
  <2>15. WholeUnlessTorn'
    BY <1>1 DEF Flow, WholeUnlessTorn
  <2> QED BY <2>11, <2>13, <2>14, <2>15 DEF Flow
<1> QED BY <1>4, <1>5

LEMMA HandleFlow ==
  ASSUME IInv, Flow, pc = "events", NEW e \in events, Handle(e)
  PROVE  Flow'
<1>1. TypeOK
  BY DEF IInv
<1>2. CASE ClientError(e)
  <2>1. /\ UNCHANGED <<sent, answered, torn, inbox, peer, cache>> /\ pc' = "events"
        /\ clients' = Without(clients, e.of)
    BY <1>2 DEF ClientError, Goes, environment, history
  <2>2. /\ DOMAIN clients' = DOMAIN clients \ {e.of}
        /\ \A d \in DOMAIN clients' : clients'[d] = clients[d]
    BY <2>1 DEF Without
  <2>3. \A d \in DOMAIN clients' :
          clients'[d] \notin torn /\ ~(pc' = "send" /\ fd' = d) => cache'[d] = <<>>
    BY <2>1, <2>2 DEF Flow, InStep
  <2> QED BY <1>1, <2>1, <2>3, FlowUnchanged
<1>3. CASE ListenerError(e)
  <2> DEFINE waiting == {backlog[i] : i \in DOMAIN backlog}
  <2>1. /\ UNCHANGED <<sent, answered, torn, clients, cache>> /\ pc' = "events"
        /\ peer' = [c \in Conns |-> IF c \in waiting THEN "reset" ELSE peer[c]]
        /\ inbox' = [c \in Conns |-> IF c \in waiting THEN <<>> ELSE inbox[c]]
    BY <1>3 DEF ListenerError, Goes, tables, history
  <2> HIDE DEF waiting
  <2>2. \A c \in Conns : \/ /\ inbox'[c] = inbox[c]
                            /\ peer'[c] = "reset" <=> peer[c] = "reset"
                         \/ inbox'[c] = <<>> /\ peer'[c] = "reset"
    BY <2>1
  <2>3. \A d \in DOMAIN clients' :
          clients'[d] \notin torn /\ ~(pc' = "send" /\ fd' = d) => cache'[d] = <<>>
    BY <2>1 DEF Flow, InStep
  <2> QED BY <1>1, <2>1, <2>2, <2>3, FlowUnchanged
<1>4. CASE Accept(e)
  <2>1. PICK d \in Least(Free) :
          /\ clients' = [c \in DOMAIN clients \cup {d} |->
                           IF c = d THEN Head(backlog) ELSE clients[c]]
          /\ cache' = [cache EXCEPT ![d] = <<>>]
    BY <1>4 DEF Accept
  <2>2. UNCHANGED <<sent, answered, torn, inbox, peer>>
    BY <1>4 DEF Accept, history
  <2>3. d \in Descriptors /\ d \notin DOMAIN clients
    BY DEF Least, Free
  <2>4. /\ cache'[d] = <<>>
        /\ \A f \in DOMAIN clients : cache'[f] = cache[f] /\ clients'[f] = clients[f]
    BY <1>1, <2>1, <2>3 DEF TypeOK
  <2>5. \A f \in DOMAIN clients' :
          clients'[f] \notin torn /\ ~(pc' = "send" /\ fd' = f) => cache'[f] = <<>>
    BY <2>1, <2>4 DEF Flow, InStep
  <2> QED BY <1>1, <2>2, <2>5, FlowUnchanged
<1>5. CASE ListenerLost(e) \/ AcceptFails(e) \/ Begin(e)
  BY <1>1, <1>5, FlowApart DEF ListenerLost, AcceptFails, Begin, Raises,
                               environment, tables, history
<1> QED BY <1>2, <1>3, <1>4, <1>5 DEF Handle

LEMMA SendFlow ==
  ASSUME IInv, Flow, Send \/ SendToClosed
  PROVE  Flow'
<1>1. TypeOK /\ pc = "send"
  BY DEF IInv, Send, SendToClosed
<1>2. PICK n \in 1..left : Sent(n)
  BY DEF Send, SendToClosed
<1>3. fd \in Descriptors /\ Conn \in Conns
  BY <1>1, InHand DEF IInv
<1>4. UNCHANGED <<sent, answered, torn, clients>>
  BY <1>2 DEF Sent, history
<1>5. \A c \in Conns : \/ /\ inbox'[c] = inbox[c]
                          /\ peer'[c] = "reset" <=> peer[c] = "reset"
                       \/ inbox'[c] = <<>> /\ peer'[c] = "reset"
  BY <1>1, <1>3 DEF Send, SendToClosed, TypeOK
<1>6. ASSUME NEW d \in DOMAIN clients', clients'[d] \notin torn, ~(pc' = "send" /\ fd' = d)
      PROVE  cache'[d] = <<>>
  <2>1. d # fd => cache[d] = <<>>
    BY <1>1, <1>4, <1>6 DEF Flow, InStep
  <2>2. \/ cache' = [cache EXCEPT ![fd] = <<>>]
        \/ cache' = cache /\ pc' = "send" /\ fd' = fd
    BY <1>1, <1>2 DEF Sent
  <2>3. d \in Descriptors
    BY <1>1, <1>4 DEF TypeOK
  <2> QED BY <1>1, <1>6, <2>1, <2>2, <2>3 DEF TypeOK
<1> QED BY <1>1, <1>4, <1>5, <1>6, FlowUnchanged

\* data is what c sent after its first got symbols.
Follows(c, got, data) ==
  \A j \in 1..Len(data) : /\ got + j \in 1..(3 * MaxRequests[c])
                          /\ data[j] = AllRequests(c)[got + j]

\* What one recv() does to the wire and to the tables.
LEMMA ReceiveCounts ==
  ASSUME IInv, Flow, ReceivePart \/ ReceiveRequest
  PROVE  /\ fd \in Descriptors /\ fd \in DOMAIN clients /\ Conn \in Conns
         /\ UNCHANGED <<peer, sent, clients, fd>> /\ pc = "recv" /\ peer[Conn] # "reset"
         /\ Len(Data) \in Nat /\ Data \in Seq(Symbols)
         /\ InboxIsRest'
         /\ Received(Conn)' = Received(Conn) + Len(Data)
         /\ \A c \in Conns \ {Conn} : Received(c)' = Received(c)
         /\ Follows(Conn, Received(Conn), Data)
<1>1. /\ UNCHANGED <<peer, sent, clients, fd>> /\ pc = "recv" /\ inbox[Conn] # <<>>
      /\ inbox' = [inbox EXCEPT ![Conn] =
                     SubSeq(inbox[Conn], Taken + 1, Len(inbox[Conn]))]
  BY DEF ReceivePart, ReceiveRequest, Receive, Goes
<1>2. /\ fd \in Descriptors /\ fd \in DOMAIN clients /\ Conn \in Conns
      /\ Taken \in 0..Len(inbox[Conn]) /\ inbox[Conn] \in Seq(Symbols)
      /\ Data \in Seq(Symbols) /\ Len(Data) = Taken
  BY <1>1, InHand DEF IInv
<1>3. PICK c \in Conns : c = Conn
  BY <1>2
<1>4. PICK got \in Nat, have \in Nat, m \in Nat :
        /\ have = Len(inbox[c]) /\ m = Taken /\ got = Received(c)
        /\ m <= have /\ sent[c] = got + have /\ sent[c] <= 3 * MaxRequests[c]
        /\ MaxRequests[c] \in Nat
  <2>1. /\ sent[c] \in Nat /\ Len(inbox[c]) \in Nat /\ Len(inbox[c]) <= sent[c]
        /\ sent[c] <= 3 * MaxRequests[c] /\ MaxRequests[c] \in Nat
    BY LengthsAreNat DEF IInv, Flow, InboxIsRest
  <2>2. Received(c) = sent[c] - Len(inbox[c])
    BY DEF Received
  <2>3. Received(c) \in Nat /\ sent[c] = Received(c) + Len(inbox[c])
    BY <2>1, <2>2
  <2>4. Taken \in Nat /\ Taken <= Len(inbox[c])
    BY <1>2, <1>3, <2>1
  <2> QED BY <2>1, <2>3, <2>4
<1>5. \A i \in 1..have : inbox[c][i] = AllRequests(c)[got + i]
  <2>1. sent[c] - Len(inbox[c]) = got
    BY <1>4
  <2> QED BY <1>4, <2>1 DEF Flow, InboxIsRest
<1>6. \A i \in 1..m : Data[i] = inbox[c][i]
  BY <1>2, <1>3, <1>4, SubSeqProperties DEF Data
<1> DEFINE rest == SubSeq(inbox[c], m + 1, have)
<1>7. Len(rest) = have - m /\ \A i \in 1..(have - m) : rest[i] = inbox[c][m + i]
  BY <1>2, <1>3, <1>4, SubSeqProperties
<1> HIDE DEF rest
<1>8. inbox'[c] = rest /\ \A b \in Conns \ {c} : inbox'[b] = inbox[b]
  BY <1>1, <1>3, <1>4 DEF IInv, TypeOK, rest
<1>9. \A i \in 1..m : /\ got + i \in 1..(3 * MaxRequests[c])
                      /\ Data[i] = AllRequests(c)[got + i]
  <2> SUFFICES ASSUME NEW i \in 1..m
               PROVE  /\ got + i \in 1..(3 * MaxRequests[c])
                      /\ Data[i] = AllRequests(c)[got + i]
    OBVIOUS
  <2>1. i \in 1..have /\ got + i \in 1..(3 * MaxRequests[c])
    <3> DEFINE most == 3 * MaxRequests[c]
    <3>1. /\ got \in Nat /\ have \in Nat /\ m \in Nat /\ m <= have
          /\ got + have <= most /\ most \in Nat
      BY <1>4
    <3> HIDE DEF most
    <3>2. i \in 1..have /\ got + i \in 1..most
      BY <3>1
    <3> QED BY <3>2 DEF most
  <2> QED BY <1>5, <1>6, <2>1
<1>10. sent'[c] - Len(inbox'[c]) = got + m /\ Len(inbox'[c]) <= sent'[c]
  <2>1. sent'[c] = got + have /\ Len(inbox'[c]) = have - m
    BY <1>1, <1>4, <1>7, <1>8
  <2> QED BY <1>4, <2>1
<1>11. ASSUME NEW i \in 1..Len(inbox'[c])
       PROVE  inbox'[c][i] = AllRequests(c)[sent'[c] - Len(inbox'[c]) + i]
  <2>0. i \in 1..(have - m)
    <3>1. Len(inbox'[c]) = have - m
      BY <1>7, <1>8
    <3> QED BY <1>11, <3>1
  <2>1. i \in 1..(have - m) /\ m + i \in 1..have /\ got + (m + i) = got + m + i
    <3>1. got \in Nat /\ have \in Nat /\ m \in Nat /\ m <= have
      BY <1>4
    <3> QED BY <2>0, <3>1
  <2>2. inbox'[c][i] = AllRequests(c)[got + (m + i)]
    BY <1>5, <1>7, <1>8, <2>1
  <2> QED BY <1>10, <2>1, <2>2
<1>12. peer[c] # "reset"
  BY <1>1, <1>3 DEF Flow, InboxIsRest
<1>13. \A b \in Conns \ {c} :
         /\ Len(inbox[b]) <= sent[b]
         /\ \A i \in 1..Len(inbox[b]) :
              inbox[b][i] = AllRequests(b)[sent[b] - Len(inbox[b]) + i]
         /\ peer[b] = "reset" => inbox[b] = <<>>
  BY DEF Flow, InboxIsRest
<1>14. \A b \in Conns \ {c} :
         /\ Len(inbox'[b]) <= sent'[b]
         /\ \A i \in 1..Len(inbox'[b]) :
              inbox'[b][i] = AllRequests(b)[sent'[b] - Len(inbox'[b]) + i]
         /\ peer'[b] = "reset" => inbox'[b] = <<>>
  <2>1. \A b \in Conns \ {c} : inbox'[b] = inbox[b] /\ sent' = sent /\ peer' = peer
    BY <1>1, <1>8
  <2> QED BY <1>13, <2>1
<1>15. InboxIsRest'
  <2>1. peer' = peer
    BY <1>1
  <2> QED BY <1>10, <1>11, <1>12, <1>14, <2>1 DEF InboxIsRest
<1>16. Received(c)' = Received(c) + Len(Data)
  BY <1>2, <1>4, <1>10 DEF Received
<1>17. \A b \in Conns \ {c} : Received(b)' = Received(b)
  BY <1>1, <1>8 DEF Received
<1>18. Received(Conn)' = Received(Conn) + Len(Data)
  <2>1. Conn' = c
    BY <1>1, <1>3 DEF Conn
  <2>2. Received(Conn)' = Received(c)'
    BY <2>1 DEF Received
  <2> QED BY <1>3, <1>16, <2>2
<1>19. Len(Data) = m /\ Received(Conn) = got
  BY <1>2, <1>3, <1>4
<1>20. Follows(Conn, Received(Conn), Data)
  BY <1>3, <1>9, <1>19 DEF Follows
<1> QED BY <1>1, <1>2, <1>3, <1>12, <1>15, <1>17, <1>18, <1>20

LEMMA ReceivePartFlow ==
  ASSUME IInv, Flow, ReceivePart
  PROVE  Flow'
<1>1. PICK c \in Conns : c = Conn
  BY ReceiveCounts
<1>2. /\ fd \in Descriptors /\ fd \in DOMAIN clients /\ InboxIsRest'
      /\ UNCHANGED <<peer, sent, clients, fd, answered>> /\ pc = "recv"
      /\ cache' = [cache EXCEPT ![fd] = AllData] /\ torn' = torn \cup {c}
      /\ Len(Data) \in Nat
  BY <1>1, ReceiveCounts DEF ReceivePart
<1>3. /\ Received(c)' = Received(c) + Len(Data)
      /\ \A b \in Conns \ {c} : Received(b)' = Received(b)
  <2>1. Conn' = c
    BY <1>1, <1>2 DEF Conn
  <2>2. Received(c)' = Received(Conn)'
    BY <2>1 DEF Received
  <2> QED BY <1>1, <2>2, ReceiveCounts
<1>4. AnswersWereReceived'
  <2>1. \A b \in Conns : 3 * Len(answered[b]) <= Received(b)
    BY DEF Flow, AnswersWereReceived
  <2>2. Received(c) \in Int /\ Len(answered[c]) \in Nat
    BY LengthsAreNat DEF IInv, Received
  <2>3. 3 * Len(answered[c]) <= Received(c) + Len(Data)
    BY <1>2, <2>1, <2>2
  <2>4. \A b \in Conns : 3 * Len(answered'[b]) <= Received(b)'
    BY <1>2, <1>3, <2>1, <2>3
  <2> QED BY <2>4 DEF AnswersWereReceived
<1>5. InStep'
  <2>1. \A b \in Conns \ torn' :
          peer'[b] # "reset" => Received(b)' = 3 * Len(answered'[b])
    BY <1>2, <1>3 DEF Flow, InStep
  <2>2. ASSUME NEW d \in DOMAIN clients, clients[d] \notin torn' PROVE cache'[d] = <<>>
    <3>1. d # fd /\ clients[d] \notin torn
      BY <1>1, <1>2, <2>2 DEF Conn
    <3>2. cache'[d] = cache[d]
      BY <1>2, <3>1 DEF IInv, TypeOK
    <3> QED BY <1>2, <3>1, <3>2 DEF Flow, InStep
  <2> QED BY <1>2, <2>1, <2>2 DEF InStep
<1>6. WholeUnlessTorn'
  BY <1>2 DEF Flow, WholeUnlessTorn
<1> QED BY <1>2, <1>4, <1>5, <1>6 DEF Flow

LEMMA Thirds ==
  ASSUME NEW p \in Nat, NEW n \in Nat, 3 * n <= p, (p + 1) % 3 # 1, (p + 2) % 3 # 1
  PROVE  3 * (n + 1) <= p + 2
<1>1. PICK q \in Nat, r \in 0..2 : p = 3 * q + r
  <2>1. p \div 3 \in Nat
    OBVIOUS
  <2>2. p % 3 \in 0..2
    OBVIOUS
  <2>3. p = 3 * (p \div 3) + (p % 3)
    OBVIOUS
  <2> QED BY <2>1, <2>2, <2>3
<1>2. CASE r = 0
  <2>1. (3 * q + 1) % 3 = 1
    OBVIOUS
  <2> QED BY <1>1, <1>2, <2>1
<1>3. CASE r = 1
  BY <1>1, <1>3
<1>4. CASE r = 2
  <2>1. (3 * q + 4) % 3 = 1 /\ p + 2 = 3 * q + 4
    BY <1>1, <1>4
  <2> QED BY <2>1
<1> QED BY <1>1, <1>2, <1>3, <1>4

\* The blank line that a recv() finds in data is at least that of the first
\* request not yet answered, the (n+1)-th; and it is just that one, after the
\* lines of its request, when the data is a request and the server in step.
FindsRequest(c, got, n, data, i) ==
  /\ i \in 0..(Len(data) - 2) /\ 3 * (n + 1) <= got + Len(data)
  /\ got = 3 * n /\ (\E k \in 1..MaxRequests[c] : data = Request(c, k)) =>
       i = 1 /\ Len(data) = 3 /\ data[1] = Lines(c, n + 1)

LEMMA BlankLineFound ==
  ASSUME NEW c \in Conns, NEW got \in Nat, NEW n \in Nat, 3 * n <= got,
         NEW data \in Seq(Symbols), Follows(c, got, data), NEW i \in Least(BlankLines(data))
  PROVE  FindsRequest(c, got, n, data, i)
<1>0. PICK len \in Nat : len = Len(data)
  BY LenProperties
<1>1. i \in 0..(len - 2) /\ data[i + 1] = HalfBlankLine /\ data[i + 2] = HalfBlankLine
  BY <1>0 DEF Least, BlankLines
<1>2. i \in Nat /\ i + 1 \in 1..len /\ i + 2 \in 1..len
  BY <1>1
<1>3. (got + (i + 1)) % 3 # 1 /\ (got + (i + 2)) % 3 # 1
  BY <1>0, <1>1, <1>2, AllRequestsShape DEF Follows
<1>4. 3 * (n + 1) <= got + len
  <2>1. PICK p \in Nat : p = got + i
    BY <1>2
  <2>2. (p + 1) % 3 # 1 /\ (p + 2) % 3 # 1 /\ 3 * n <= p
    <3>1. got + (i + 1) = p + 1 /\ got + (i + 2) = p + 2 /\ 3 * n <= p
      BY <1>2, <2>1
    <3> QED BY <1>3, <3>1
  <2>3. p + 2 <= got + len
    BY <1>2, <2>1
  <2>4. 3 * (n + 1) <= p + 2
    BY <2>2, Thirds
  <2> QED BY <2>1, <2>3, <2>4
<1>5. ASSUME got = 3 * n, NEW k \in 1..MaxRequests[c], data = Request(c, k)
      PROVE  i = 1 /\ len = 3 /\ data[1] = Lines(c, n + 1)
  <2>1. /\ len = 3 /\ data[1] = Lines(c, k)
        /\ data[2] = HalfBlankLine /\ data[3] = HalfBlankLine
    BY <1>0, <1>5, RequestShape
  <2>2. data[1] = Lines(c, n + 1) /\ data[1] # HalfBlankLine
    <3>1. /\ 1 \in 1..len /\ got + 1 \in 1..(3 * MaxRequests[c])
          /\ data[1] = AllRequests(c)[got + 1]
      BY <1>0, <2>1 DEF Follows
    <3>2. (got + 1) % 3 = 1 /\ (got + 1 + 2) \div 3 = n + 1
      BY <1>5
    <3> QED BY <3>1, <3>2, AllRequestsShape
  <2>3. 1 \in BlankLines(data)
    BY <1>0, <2>1 DEF BlankLines
  <2>4. i <= 1
    BY <2>3 DEF Least
  <2>5. i # 0
    BY <1>1, <2>2
  <2> QED BY <1>2, <2>1, <2>2, <2>4, <2>5
<1> QED BY <1>0, <1>1, <1>4, <1>5 DEF FindsRequest

LEMMA ReceiveRequestFlow ==
  ASSUME IInv, Flow, ReceiveRequest
  PROVE  Flow'
<1>1. PICK c \in Conns : c = Conn
  BY ReceiveCounts
<1>2. PICK n \in Nat, len \in Nat, got \in Nat :
        n = Len(answered[c]) /\ len = Len(Data) /\ got = Received(c) /\ 3 * n <= got
  <2>1. /\ Len(answered[c]) \in Nat /\ Len(Data) \in Nat
        /\ sent[c] \in Nat /\ Len(inbox[c]) \in Nat
    BY ReceiveCounts, LengthsAreNat DEF IInv
  <2>2. Len(inbox[c]) <= sent[c]
    BY DEF Flow, InboxIsRest
  <2>3. Received(c) \in Nat
    BY <2>1, <2>2 DEF Received
  <2>4. 3 * Len(answered[c]) <= Received(c)
    BY DEF Flow, AnswersWereReceived
  <2> QED BY <2>1, <2>3, <2>4
<1>3. PICK i \in Least(BlankLines(Data)) :
        /\ cache' = [cache EXCEPT ![fd] = SubSeq(AllData, i + 1, Len(AllData))]
        /\ answered' = [answered EXCEPT ![c] = Append(answered[c], SubSeq(AllData, 1, i))]
  BY <1>1 DEF ReceiveRequest
<1>4. /\ fd \in Descriptors /\ fd \in DOMAIN clients /\ InboxIsRest'
      /\ UNCHANGED <<peer, sent, clients, fd>> /\ pc = "recv" /\ pc' = "send"
      /\ peer[c] # "reset" /\ Data \in Seq(Symbols)
      /\ torn' = IF \E k \in 1..MaxRequests[c] : Data = Request(c, k)
                 THEN torn ELSE torn \cup {c}
  BY <1>1, ReceiveCounts DEF ReceiveRequest, Goes
<1>5. Received(c)' = got + len /\ \A b \in Conns \ {c} : Received(b)' = Received(b)
  <2>1. Conn' = c
    BY <1>1, <1>4 DEF Conn
  <2>2. Received(c)' = Received(Conn)'
    BY <2>1 DEF Received
  <2> QED BY <1>1, <1>2, <2>2, ReceiveCounts
<1>6. /\ i \in 0..(len - 2) /\ 3 * (n + 1) <= got + len
      /\ got = 3 * n /\ (\E k \in 1..MaxRequests[c] : Data = Request(c, k)) =>
           i = 1 /\ len = 3 /\ Data[1] = Lines(c, n + 1)
  <2>1. PICK data \in Seq(Symbols) : data = Data
    BY <1>4
  <2>2. Len(data) = len /\ i \in Least(BlankLines(data)) /\ Follows(c, got, data)
    BY <1>1, <1>2, <1>3, <2>1, ReceiveCounts
  <2>3. FindsRequest(c, got, n, data, i)
    BY <1>1, <1>2, <2>1, <2>2, BlankLineFound
  <2> QED BY <2>1, <2>2, <2>3 DEF FindsRequest
<1>7. answered[c] \in Seq(Seq(Symbols)) /\ SubSeq(AllData, 1, i) \in Seq(Symbols)
  <2>1. AllData \in Seq(Symbols) /\ Len(AllData) = Len(cache[fd]) + len
        /\ cache[fd] \in Seq(Symbols)
    BY <1>2, <1>4, InHand DEF IInv
  <2>2. Len(cache[fd]) \in Nat
    BY <2>1, LenProperties
  <2>3. i \in Nat /\ i <= Len(AllData) /\ 1 \in Nat \ {0}
    BY <1>2, <1>6, <2>1, <2>2
  <2>4. answered[c] \in Seq(Seq(Symbols))
    BY LengthsAreNat DEF IInv
  <2> QED BY <2>1, <2>3, <2>4, PartsType
<1>8. /\ answered'[c] = Append(answered[c], SubSeq(AllData, 1, i))
      /\ Len(answered'[c]) = n + 1
      /\ \A b \in Conns \ {c} : answered'[b] = answered[b]
  <2>1. /\ answered'[c] = Append(answered[c], SubSeq(AllData, 1, i))
        /\ \A b \in Conns \ {c} : answered'[b] = answered[b]
    BY <1>3 DEF IInv, TypeOK
  <2> QED BY <1>2, <1>7, <2>1, AppendProperties
<1>9. AnswersWereReceived'
  <2>1. \A b \in Conns : 3 * Len(answered'[b]) <= Received(b)'
    BY <1>5, <1>6, <1>8 DEF Flow, AnswersWereReceived
  <2> QED BY <2>1 DEF AnswersWereReceived
<1>10. ASSUME c \notin torn'
       PROVE  /\ got + len = 3 * (n + 1)
              /\ answered'[c] = [k \in 1..(n + 1) |-> <<Lines(c, k)>>]
  <2>1. c \notin torn /\ \E k \in 1..MaxRequests[c] : Data = Request(c, k)
    BY <1>4, <1>10
  <2>2. got = 3 * n
    BY <1>2, <1>4, <2>1 DEF Flow, InStep
  <2>3. i = 1 /\ len = 3 /\ Data[1] = Lines(c, n + 1)
    BY <1>6, <2>1, <2>2
  <2>4. cache[fd] = <<>>
    BY <1>1, <1>4, <2>1 DEF Flow, InStep, Conn
  <2>5. AllData = Data
    BY <1>4, <2>4, ConcatEmptySeq DEF AllData
  <2>6. SubSeq(AllData, 1, i) = <<Lines(c, n + 1)>>
    <3>1. Data \in Seq(Symbols) /\ Len(Data) = 3
      BY <1>2, <1>4, <2>3
    <3>2. PICK data \in Seq(Symbols) : data = Data /\ Len(data) = 3
      BY <3>1
    <3>3. Len(SubSeq(data, 1, 1)) = 1 /\ SubSeq(data, 1, 1)[1] = data[1]
      BY <3>2, SubSeqProperties
    <3>4. SubSeq(data, 1, 1) \in Seq(Symbols) /\ <<data[1]>> \in Seq(Symbols)
      BY <3>2, SubSeqProperties
    <3>5. SubSeq(data, 1, 1) = <<data[1]>>
      BY <3>3, <3>4, Singleton
    <3> QED BY <2>3, <2>5, <3>2, <3>5
  <2>7. answered[c] = [k \in 1..n |-> <<Lines(c, k)>>]
    BY <1>2, <2>1 DEF Flow, WholeUnlessTorn
  <2>8. /\ DOMAIN answered'[c] = 1..(n + 1)
        /\ answered'[c][n + 1] = <<Lines(c, n + 1)>>
        /\ \A k \in 1..n : answered'[c][k] = answered[c][k]
    BY <1>2, <1>7, <1>8, <2>6, AppendProperties
  <2>9. \A k \in 1..(n + 1) : answered'[c][k] = <<Lines(c, k)>>
    BY <2>7, <2>8
  <2>10. answered'[c] \in [1..(n + 1) -> Seq(Symbols)]
    <3>1. answered'[c] \in Seq(Seq(Symbols))
      BY <1>7, <1>8, AppendProperties
    <3> QED BY <1>8, <3>1, LenProperties
  <2>11. answered'[c] = [k \in 1..(n + 1) |-> <<Lines(c, k)>>]
    BY <2>9, <2>10
  <2>12. got + len = 3 * (n + 1)
    BY <2>2, <2>3
  <2> QED BY <2>11, <2>12
<1>11. InStep'
  <2>1. \A b \in Conns \ torn' :
          peer'[b] # "reset" => Received(b)' = 3 * Len(answered'[b])
    <3>1. \A b \in Conns \ {c} : b \notin torn' => b \notin torn
      BY <1>4
    <3>2. \A b \in Conns \ torn :
            peer[b] # "reset" => Received(b) = 3 * Len(answered[b])
      BY DEF Flow, InStep
    <3> QED BY <1>4, <1>5, <1>8, <1>10, <3>1, <3>2
  <2>2. ASSUME NEW d \in DOMAIN clients, clients[d] \notin torn', d # fd
        PROVE  cache'[d] = <<>>
    <3>1. clients[d] \notin torn
      BY <1>4, <2>2
    <3>2. cache'[d] = cache[d]
      BY <1>3, <2>2 DEF IInv, TypeOK
    <3> QED BY <1>4, <3>1, <3>2 DEF Flow, InStep
  <2> QED BY <1>4, <2>1, <2>2 DEF InStep
<1>12. WholeUnlessTorn'
  <2>1. \A b \in (Conns \ {c}) \ torn' :
          answered'[b] = [k \in 1..Len(answered'[b]) |-> <<Lines(b, k)>>]
    BY <1>4, <1>8 DEF Flow, WholeUnlessTorn
  <2> QED BY <1>8, <1>10, <2>1 DEF WholeUnlessTorn
<1> QED BY <1>4, <1>9, <1>11, <1>12 DEF Flow

LEMMA HandleClientFlow ==
  ASSUME IInv, Flow, HandleClient
  PROVE  Flow'
<1>1. CASE EndOfClient
  <2>1. /\ UNCHANGED <<sent, answered, torn, inbox, peer, cache>>
        /\ pc = "recv" /\ pc' = "events" /\ clients' = Without(clients, fd)
    BY <1>1 DEF EndOfClient, Goes, environment, history
  <2>2. /\ DOMAIN clients' = DOMAIN clients \ {fd}
        /\ \A d \in DOMAIN clients' : clients'[d] = clients[d]
    BY <2>1 DEF Without
  <2>3. \A d \in DOMAIN clients' :
          clients'[d] \notin torn /\ ~(pc' = "send" /\ fd' = d) => cache'[d] = <<>>
    BY <2>1, <2>2 DEF Flow, InStep
  <2> QED BY <2>1, <2>3, FlowUnchanged DEF IInv
<1>2. CASE WouldBlock \/ ReceiveFails \/ ProcessFails
  BY <1>2, FlowApart DEF WouldBlock, ReceiveFails, ProcessFails, Raises, Goes, IInv,
                         environment, tables, history
<1> QED BY <1>1, <1>2, ReceivePartFlow, ReceiveRequestFlow, SendFlow DEF HandleClient

LEMMA NextFlow == IInv /\ Flow /\ [Next]_vars => Flow'
<1> SUFFICES ASSUME IInv, Flow, [Next]_vars PROVE Flow'
  OBVIOUS
<1>1. CASE Top \/ Sweep \/ Poll \/ PollFails \/ NoMoreEvents
  BY <1>1, FlowApart DEF Top, Sweep, Poll, PollFails, NoMoreEvents, Goes, IInv,
                         environment, tables, history
<1>2. ASSUME NEW e \in events, Handle(e) PROVE Flow'
  <2>1. pc = "events"
    BY <1>2 DEF Handle, ClientError, ListenerError, ListenerLost, Accept, AcceptFails,
                Begin, Raises, Goes
  <2> QED BY <1>2, <2>1, HandleFlow
<1>3. CASE UNCHANGED vars
  BY <1>3 DEF vars, environment, tables, history, Flow, InboxIsRest, AnswersWereReceived,
              InStep, Received, WholeUnlessTorn
<1> QED BY <1>1, <1>2, <1>3, HandleClientFlow, EnvironmentFlow DEF Next, Server

-----------------------------------------------------------------------------
(* The theorems.                                                           *)

LEMMA NextIInv == IInv /\ [Next]_vars => IInv'
<1> SUFFICES ASSUME IInv, [Next]_vars PROVE IInv'
  OBVIOUS
<1>1. CASE Top \/ Sweep \/ Poll \/ PollFails \/ NoMoreEvents
  BY <1>1, LoopType, LoopSafe DEF IInv
<1>2. ASSUME NEW e \in events, Handle(e) PROVE IInv'
  BY <1>2, HandleType, HandleSafe DEF IInv
<1>3. CASE HandleClient
  BY <1>3, HandleClientType, HandleClientSafe DEF IInv
<1>4. CASE Environment
  BY <1>4, EnvironmentType, EnvironmentSafe DEF IInv
<1>5. CASE UNCHANGED vars
  BY <1>5 DEF vars, environment, tables, history, IInv, TypeOK, BatchFits, KnownWasMade,
              InboxIsOwn, EventsAreLive, DescriptorsAreDistinct, AnswersAreOwn,
              ClientEvent, ListenerEvent
<1> QED BY <1>1, <1>2, <1>3, <1>4, <1>5 DEF Next, Server

LEMMA AlwaysIInv == Spec => []IInv
  BY InitIInv, NextIInv, PTL DEF Spec

\* The variables keep their types: self.clients names connections that exist.
THEOREM TypeCorrect == Spec => []TypeOK
  BY AlwaysIInv, PTL DEF IInv

\* However descriptors are closed and reused within a batch, no event of it
\* names a client that self.clients does not have, and accept() is only called
\* when somebody waits or the listening socket has failed.
THEOREM EventsStayLive == Spec => []EventsAreLive
  BY AlwaysIInv, PTL DEF IInv

\* The clients, the poller and the backlog agree, and no connection has two
\* descriptors.
THEOREM DescriptorsStayDistinct == Spec => []DescriptorsAreDistinct
  BY AlwaysIInv, PTL DEF IInv

\* Nothing that a client sent is cached or processed for another, although
\* the cache is indexed by descriptors, which are reused.
THEOREM NothingIsMixed == Spec => []AnswersAreOwn
  BY AlwaysIInv, PTL DEF IInv

LEMMA AlwaysFlow == Spec => []Flow
  BY InitFlow, NextFlow, AlwaysIInv, PTL DEF Spec

\* As long as each recv() of a connection takes just one request, the messages
\* processed for it are the lines of its requests, each once and in order:
\* nothing is left in the cache of its descriptor, whoever had it before.
THEOREM RequestsAnsweredWhole == Spec => []WholeUnlessTorn
  BY AlwaysFlow, PTL DEF Flow

\* However requests are cut and run together, the server answers no more often
\* than requests have arrived: a blank line is never found a second time.
THEOREM AnswersHaveRequests == Spec => []NoAnswerWithoutRequest
<1>1. IInv /\ Flow => NoAnswerWithoutRequest
  <2> SUFFICES ASSUME IInv, Flow, NEW c \in Conns
               PROVE  3 * Len(answered[c]) <= sent[c]
    BY DEF NoAnswerWithoutRequest
  <2>1. sent[c] \in Nat /\ Len(inbox[c]) \in Nat /\ Len(answered[c]) \in Nat
    BY LengthsAreNat DEF IInv
  <2>2. 3 * Len(answered[c]) <= sent[c] - Len(inbox[c])
    BY DEF Flow, AnswersWereReceived, Received
  <2> QED BY <2>1, <2>2
<1> QED BY <1>1, AlwaysIInv, AlwaysFlow, PTL

\* The loop around send() never ends once its client is gone, whatever
\* anybody else does.
THEOREM SendNeverGivesUp == Spec => GoneClientStopsServer
<1>1. IInv /\ [Next]_vars =>
        [GoneInHand => GoneInHand' /\ UNCHANGED <<clients, poller, cache, events, answered>>]_vars
  <2> SUFFICES ASSUME IInv, Next, GoneInHand
               PROVE  GoneInHand' /\ UNCHANGED <<clients, poller, cache, events, answered>>
    OBVIOUS
  <2>1. pc = "send" /\ peer[Conn] = "reset" /\ Conn \in Conns
    BY InHand DEF GoneInHand, IInv
  <2>2. ~Server
    BY <2>1 DEF Server, Top, Sweep, Poll, PollFails, NoMoreEvents, Handle, ClientError,
                ListenerError, ListenerLost, Accept, AcceptFails, Begin, HandleClient,
                ReceivePart, ReceiveRequest, EndOfClient, WouldBlock, ReceiveFails,
                ProcessFails, Send, SendToClosed, Raises, Goes
  <2>3. Environment
    BY <2>2 DEF Next
  <2>4. UNCHANGED <<pc, clients, poller, cache, events, fd, answered>>
    BY <2>3 DEF Environment, Connect, Ask, Read, Leave, ListenerFails, tables, history
  <2>5. peer'[Conn] = "reset"
    BY <2>1, <2>3 DEF Environment, Connect, Ask, Read, Leave, ListenerFails, IInv, TypeOK
  <2> QED BY <2>1, <2>4, <2>5 DEF GoneInHand, Conn
<1> QED BY <1>1, AlwaysIInv, PTL DEF Spec, GoneClientStopsServer
=============================================================================
