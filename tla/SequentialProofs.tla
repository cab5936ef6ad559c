-------------------------- MODULE SequentialProofs --------------------------
(***************************************************************************)
(* Proofs about lab1's server for any clients, puts and lines: what the    *)
(* shared cache_ carries from one session to the next, and that without it *)
(* messages are stored as they were typed and answers are sent to those    *)
(* who asked.                                                              *)
(***************************************************************************)
EXTENDS SequentialServer, WireProofs

-----------------------------------------------------------------------------
(* The requests other than put.                                            *)

LEMMA Headers ==
  \A h \in OtherHeaders : h \in Symbols /\ h # NL /\ h.sym # "put"
<1> USE DEF NL, ListHeader, GetHeader, ResetHeader, Symbols
<1>1. /\ ListHeader \in Symbols /\ ListHeader # NL /\ ListHeader.sym # "put"
      /\ ResetHeader \in Symbols /\ ResetHeader # NL /\ ResetHeader.sym # "put"
  OBVIOUS
<1>2. GetHeader(1) \in Symbols /\ GetHeader(1).sym # "put" /\ GetHeader(1) # NL
  <2>1. GetHeader(1) \in [sym : {"get"}, index : Nat]
    OBVIOUS
  <2>2. GetHeader(1).sym = "get" /\ NL.sym = "newline"
    OBVIOUS
  <2> QED BY <2>1, <2>2
<1> QED BY <1>1, <1>2 DEF OtherHeaders

LEMMA OtherBytesAre ==
  ASSUME NEW h \in OtherHeaders
  PROVE  <<h, NL>> \in Seq(Symbols) /\ Len(<<h, NL>>) = 2
<1>1. h \in Symbols /\ NL \in Symbols
  BY Headers DEF Symbols
<1> QED BY <1>1

-----------------------------------------------------------------------------
(* The inductive invariant.                                                *)

Records ==
  /\ typed \in Seq([by : Clients, lines : 1..MaxLines]) /\ Len(typed) <= MaxPuts
  /\ messages \in Seq([by : Clients, contents : Seq(Symbols), tainted : BOOLEAN])

\* The requests that c may have sent.
PutOf(k) == <<PutHeader(2 * typed[k].lines), NL>> \o Body(k, typed[k].lines)
PutsOf(c) == {k \in DOMAIN typed : typed[k].by = c}
Asks(c) == {<<h, NL>> : h \in OtherHeaders} \cup {PutOf(k) : k \in PutsOf(c)}

\* Of a client there is to be read what is left of an earlier message, and its
\* request while it waits.
Owes(at, asks, s, t) ==
  \E r \in asks \cup {<<>>} :
    /\ Part(at, s, t \o r)
    /\ at \in {"new", "idle", "closed"} => r = <<>>
    /\ at = "waiting" => r # <<>>

Stream == input \o up[current]

\* Of a put the newline of its header and its body are left.
AtMessage ==
  /\ client_pc[current] \in {"waiting", "left"}
  /\ \E k \in PutsOf(current) :
       /\ length = 2 * typed[k].lines
       /\ Part(client_pc[current], Stream, <<NL>> \o Body(k, typed[k].lines))

AtAnswer ==
  /\ client_pc[current] \in {"waiting", "left"}
  /\ \E t \in Leftovers : Part(client_pc[current], up[current], t)

AtRequest ==
  \E t \in Leftovers : Owes(client_pc[current], Asks(current), Stream, t)

InputFits ==
  /\ server_pc \in {"accept", "send_response"} => input = <<>>
  /\ server_pc = "get_request" => ~HasNewline(input)

OthersOwe ==
  \A c \in Clients : c # current => Owes(client_pc[c], Asks(c), up[c], <<>>)

Flow ==
  /\ server_pc = "get_request" /\ taint # "stream" => AtRequest
  /\ server_pc = "receive_message" /\ taint = "none" => AtMessage
  /\ server_pc = "send_response" /\ taint # "stream" => AtAnswer

IInv ==
  /\ TypeOK
  /\ Records
  /\ CacheBetweenRequests
  /\ InputFits
  /\ OthersOwe
  /\ Flow
  /\ StoredUnlessTainted

-----------------------------------------------------------------------------
(* The types of the variables.                                             *)

LEMMA TypeInit == Init => TypeOK /\ Records
<1> SUFFICES ASSUME Init PROVE TypeOK /\ Records
  OBVIOUS
<1>1. 0 <= MaxPuts
  BY BoundsAssumption
<1>2. TypeOK
  BY <1>1, NoClientAssumption DEF Init, TypeOK
<1>3. Records
  BY <1>1 DEF Init, Records
<1> QED BY <1>2, <1>3

\* What a session works on.
LEMMA InSession ==
  ASSUME TypeOK, server_pc # "accept"
  PROVE  /\ current \in Clients /\ current # NoClient /\ up[current] \in Seq(Symbols)
         /\ client_pc[current] \in {"new", "idle", "waiting", "closed", "left"}
<1>1. current \in Clients
  BY DEF TypeOK
<1> QED BY <1>1, NoClientAssumption DEF TypeOK

LEMMA TypeConnect ==
  ASSUME TypeOK, Records, NEW c \in Clients, Connect(c)
  PROVE  TypeOK' /\ Records'
<1> USE DEF Connect, server
<1>1. backlog' \in Seq(Clients)
  BY AppendProperties DEF TypeOK
<1>2. client_pc' \in [Clients -> {"new", "idle", "waiting", "closed", "left"}]
  BY DEF TypeOK
<1> QED BY <1>1, <1>2 DEF TypeOK, Records

LEMMA TypeAskPut ==
  ASSUME TypeOK, Records, NEW c \in Clients, NEW l \in 1..MaxLines, AskPut(c, l)
  PROVE  TypeOK' /\ Records'
<1> DEFINE k == Len(typed')
<1> USE DEF AskPut, server
<1>1. /\ typed' \in Seq([by : Clients, lines : 1..MaxLines])
      /\ k = Len(typed) + 1 /\ Len(typed) \in Nat
  <2>1. [by |-> c, lines |-> l] \in [by : Clients, lines : 1..MaxLines]
    OBVIOUS
  <2> QED BY <2>1, AppendProperties, LenProperties DEF Records
<1>2. k \in 1..MaxPuts
  BY <1>1, BoundsAssumption DEF Records
<1>3. up[c] \o <<PutHeader(2 * l), NL>> \o Body(k, l) \in Seq(Symbols)
  <2>1. <<PutHeader(2 * l), NL>> \in Seq(Symbols)
    BY HeaderSymbols
  <2>2. Body(k, l) \in Seq(Symbols)
    BY <1>2, BodyBytes
  <2>3. up[c] \in Seq(Symbols)
    BY DEF TypeOK
  <2> HIDE DEF k
  <2> QED BY <2>1, <2>2, <2>3, ConcatProperties
<1>4. up' \in [Clients -> Seq(Symbols)]
  BY <1>3 DEF TypeOK
<1>5. client_pc' \in [Clients -> {"new", "idle", "waiting", "closed", "left"}]
  BY DEF TypeOK
<1>6. Records'
  BY <1>1, <1>2 DEF Records
<1>7. TypeOK'
  BY <1>4, <1>5 DEF TypeOK
<1> QED BY <1>6, <1>7

LEMMA TypeAskOther ==
  ASSUME TypeOK, Records, NEW c \in Clients, NEW h \in OtherHeaders, AskOther(c, h)
  PROVE  TypeOK' /\ Records'
<1> USE DEF AskOther, server
<1>1. up[c] \o <<h, NL>> \in Seq(Symbols)
  <2>1. up[c] \in Seq(Symbols) /\ <<h, NL>> \in Seq(Symbols)
    BY OtherBytesAre DEF TypeOK
  <2> QED BY <2>1, ConcatProperties
<1>2. up' \in [Clients -> Seq(Symbols)]
  BY <1>1 DEF TypeOK
<1>3. client_pc' \in [Clients -> {"new", "idle", "waiting", "closed", "left"}]
  BY DEF TypeOK
<1> QED BY <1>2, <1>3 DEF TypeOK, Records

LEMMA TypeLeave ==
  ASSUME TypeOK, Records, NEW c \in Clients, Leave(c)
  PROVE  TypeOK' /\ Records'
<1> USE DEF Leave, server
<1>1. PICK n \in 0..Len(up[c]) : up' = [up EXCEPT ![c] = SubSeq(@, 1, n)]
  OBVIOUS
<1>2. SubSeq(up[c], 1, n) \in Seq(Symbols)
  BY RecvParts DEF TypeOK
<1>3. up' \in [Clients -> Seq(Symbols)]
  BY <1>1, <1>2 DEF TypeOK
<1>4. client_pc' \in [Clients -> {"new", "idle", "waiting", "closed", "left"}]
  BY DEF TypeOK
<1> QED BY <1>3, <1>4 DEF TypeOK, Records

LEMMA TypeAccept ==
  ASSUME TypeOK, Records, Accept
  PROVE  TypeOK' /\ Records'
<1> USE DEF Accept
<1>1. backlog' \in Seq(Clients) /\ current' \in Clients
  BY HeadTailProperties DEF TypeOK
<1> QED BY <1>1, NoClientAssumption DEF TypeOK, Records

LEMMA TypeEndSession ==
  ASSUME TypeOK, Records, server_pc = "get_request", NEW cache \in Seq(Symbols),
         EndSession(cache), UNCHANGED <<backlog, typed, others>>
  PROVE  TypeOK' /\ Records'
<1> USE DEF EndSession
<1>1. up' \in [Clients -> Seq(Symbols)]
  BY InSession DEF TypeOK
<1>2. client_pc' \in [Clients -> {"new", "idle", "waiting", "closed", "left"}]
  BY InSession DEF TypeOK
<1> QED BY <1>1, <1>2 DEF TypeOK, Records

LEMMA TypeStartRequest ==
  ASSUME TypeOK, Records, server_pc = "get_request",
         NEW line \in Seq(Symbols), NEW cache \in Seq(Symbols), NEW rest \in Seq(Symbols),
         StartRequest(line, cache, rest), UNCHANGED <<backlog, typed, others>>
  PROVE  TypeOK' /\ Records'
<1> DEFINE put == Len(line) = 1 /\ line[1].sym = "put"
           reset == Len(line) = 1 /\ line[1].sym = "reset"
<1>1. up' \in [Clients -> Seq(Symbols)]
  BY InSession DEF TypeOK, StartRequest
<1>2. /\ cache_' = cache
      /\ UNCHANGED <<client_pc, current, taint>>
      /\ \/ /\ put
            /\ server_pc' = "receive_message"
            /\ length' = line[1].length
            /\ input' = cache
            /\ messages' = messages
         \/ /\ ~put
            /\ server_pc' = "send_response"
            /\ input' = <<>>
            /\ messages' = IF reset THEN <<>> ELSE messages
            /\ length' = length
  BY DEF StartRequest
<1>3. ASSUME put
      PROVE  line[1].length \in Nat
  <2>1. line[1] \in Symbols /\ line[1].sym = "put"
    <3>1. 1 \in 1..Len(line)
      BY <1>3
    <3> QED BY <1>3, <3>1, ElementOfSeq
  <2> QED BY <2>1, SymbolFields
<1> HIDE DEF put, reset
<1>4. input' \in Seq(Symbols)
  BY <1>2, EmptySeq
<1>5. length' \in Nat
  BY <1>2, <1>3 DEF TypeOK
<1>6. messages' \in Seq([by : Clients, contents : Seq(Symbols), tainted : BOOLEAN])
  BY <1>2, EmptySeq DEF Records
<1>7. server_pc' \in {"receive_message", "send_response"} /\ current' # NoClient
  BY <1>2, InSession
<1> QED BY <1>1, <1>2, <1>4, <1>5, <1>6, <1>7 DEF TypeOK, Records

LEMMA TypeGetRequest ==
  ASSUME TypeOK, Records, GetRequest
  PROVE  TypeOK' /\ Records'
<1>1. server_pc = "get_request" /\ UNCHANGED <<backlog, typed, others>>
  BY DEF GetRequest
<1> DEFINE request(n) == input \o SubSeq(up[current], 1, n)
           rest(n) == SubSeq(up[current], n + 1, Len(up[current]))
<1>2. PICK n \in 1..Len(up[current]) :
        IF ~HasNewline(request(n))
        THEN /\ input' = request(n)
             /\ up' = [up EXCEPT ![current] = rest(n)]
             /\ UNCHANGED <<client_pc, server_pc, current, cache_, length, messages, taint>>
        ELSE IF LineOf(request(n)) = <<>>
             THEN EndSession(cache_ \o RestOf(request(n)))
             ELSE StartRequest(LineOf(request(n)), cache_ \o RestOf(request(n)), rest(n))
  BY DEF GetRequest
<1>3. request(n) \in Seq(Symbols) /\ rest(n) \in Seq(Symbols)
  <2>1. up[current] \in Seq(Symbols) /\ input \in Seq(Symbols)
    BY <1>1, InSession DEF TypeOK
  <2>2. n \in 0..Len(up[current])
    BY <2>1, LenProperties
  <2> QED BY <2>1, <2>2, RecvParts, ConcatProperties
<1> HIDE DEF request, rest
<1>4. CASE ~HasNewline(request(n))
  <2>1. up' \in [Clients -> Seq(Symbols)]
    BY <1>1, <1>2, <1>3, <1>4, InSession DEF TypeOK
  <2> QED BY <1>1, <1>2, <1>3, <1>4, <2>1 DEF TypeOK, Records
<1>5. CASE HasNewline(request(n))
  <2>1. LineOf(request(n)) \in Seq(Symbols) /\ RestOf(request(n)) \in Seq(Symbols)
    BY <1>3, <1>5, LineAndRest
  <2>2. cache_ \o RestOf(request(n)) \in Seq(Symbols)
    BY <2>1, ConcatProperties DEF TypeOK
  <2>3. CASE LineOf(request(n)) = <<>>
    BY <1>1, <1>2, <1>5, <2>2, <2>3, TypeEndSession
  <2>4. CASE LineOf(request(n)) # <<>>
    BY <1>1, <1>2, <1>3, <1>5, <2>1, <2>2, <2>4, TypeStartRequest
  <2> QED BY <2>3, <2>4
<1> QED BY <1>4, <1>5

LEMMA TypeClientIsDone ==
  ASSUME TypeOK, Records, ClientIsDone
  PROVE  TypeOK' /\ Records'
<1>1. cache_ \in Seq(Symbols)
  BY DEF TypeOK
<1> QED BY <1>1, TypeEndSession DEF ClientIsDone

LEMMA TypeReceiveMessage ==
  ASSUME TypeOK, Records, ReceiveMessage
  PROVE  TypeOK' /\ Records'
<1> USE DEF ReceiveMessage
<1>1. up[current] \in Seq(Symbols) /\ input \in Seq(Symbols) /\ current \in Clients
  BY InSession DEF TypeOK
<1>2. PICK n \in 1..Len(up[current]) :
        /\ input' = input \o SubSeq(up[current], 1, n)
        /\ up' = [up EXCEPT ![current] = SubSeq(@, n + 1, Len(@))]
  OBVIOUS
<1>3. n \in 0..Len(up[current])
  BY <1>1, LenProperties
<1>4. input' \in Seq(Symbols) /\ SubSeq(up[current], n + 1, Len(up[current])) \in Seq(Symbols)
  BY <1>1, <1>2, <1>3, RecvParts, ConcatProperties
<1>5. up' \in [Clients -> Seq(Symbols)]
  BY <1>1, <1>2, <1>4 DEF TypeOK
<1> QED BY <1>4, <1>5 DEF TypeOK, Records

LEMMA TypeStoreMessage ==
  ASSUME TypeOK, Records, StoreMessage
  PROVE  TypeOK' /\ Records'
<1> USE DEF StoreMessage, environment
<1>1. current \in Clients /\ current # NoClient
  BY InSession
<1>2. StripMessage(input) \in Seq(Symbols) /\ <<>> \in Seq(Symbols)
  BY StrippedBytes DEF TypeOK
<1>3. ASSUME NEW contents \in Seq(Symbols)
      PROVE  Stored(contents) \in [by : Clients, contents : Seq(Symbols), tainted : BOOLEAN]
  BY <1>1 DEF Stored
<1>4. messages' \in Seq([by : Clients, contents : Seq(Symbols), tainted : BOOLEAN])
  <2>1. \E contents \in Seq(Symbols) : messages' = Append(messages, Stored(contents))
    BY <1>2
  <2> QED BY <1>3, <2>1, AppendProperties DEF Records
<1> QED BY <1>1, <1>4 DEF TypeOK, Records

LEMMA TypeSendResponse ==
  ASSUME TypeOK, Records, SendResponse
  PROVE  TypeOK' /\ Records'
<1> USE DEF SendResponse
<1>1. current \in Clients /\ current # NoClient
  BY InSession
<1>2. client_pc' \in [Clients -> {"new", "idle", "waiting", "closed", "left"}]
  BY DEF TypeOK
<1>3. server_pc' \in {"get_request", "killed"}
  OBVIOUS
<1> QED BY <1>1, <1>2, <1>3 DEF TypeOK, Records

LEMMA TypeStep == TypeOK /\ Records /\ [Next]_vars => TypeOK' /\ Records'
<1> SUFFICES ASSUME TypeOK, Records, [Next]_vars PROVE TypeOK' /\ Records'
  OBVIOUS
<1>1. ASSUME NEW c \in Clients, Connect(c) PROVE TypeOK' /\ Records'
  BY <1>1, TypeConnect
<1>2. ASSUME NEW c \in Clients, NEW lines \in 1..MaxLines, AskPut(c, lines)
      PROVE  TypeOK' /\ Records'
  BY <1>2, TypeAskPut
<1>3. ASSUME NEW c \in Clients, NEW header \in OtherHeaders, AskOther(c, header)
      PROVE  TypeOK' /\ Records'
  BY <1>3, TypeAskOther
<1>4. ASSUME NEW c \in Clients, Leave(c) PROVE TypeOK' /\ Records'
  BY <1>4, TypeLeave
<1>5. CASE ServerStep
  BY <1>5, TypeAccept, TypeGetRequest, TypeClientIsDone, TypeReceiveMessage,
     TypeStoreMessage, TypeSendResponse DEF ServerStep
<1>6. CASE UNCHANGED vars
  BY <1>6 DEF vars, environment, server, TypeOK, Records
<1> QED BY <1>1, <1>2, <1>3, <1>4, <1>5, <1>6 DEF Next

-----------------------------------------------------------------------------
(* What is owed.                                                           *)

LEMMA OwesMore ==
  ASSUME NEW at, NEW asks, NEW more, asks \subseteq more, NEW s, NEW t,
         Owes(at, asks, s, t)
  PROVE  Owes(at, more, s, t)
BY DEF Owes

LEMMA OwesNothing ==
  ASSUME NEW at \in {"new", "idle", "closed", "left"}, NEW asks
  PROVE  Owes(at, asks, <<>>, <<>>)
<1>1. <<>> \o <<>> = <<>> /\ Len(<<>>) = 0
  BY EmptySeq, ConcatEmptySeq
<1> QED BY <1>1 DEF Owes, Part, Begins

LEMMA OwesLess ==
  ASSUME NEW at, NEW asks, asks \subseteq Seq(Symbols),
         NEW s \in Seq(Symbols), NEW t \in Seq(Symbols),
         Owes(at, asks, s, t), NEW p \in Seq(Symbols), Begins(p, s)
  PROVE  Owes("left", asks, p, t)
<1>1. PICK r \in asks \cup {<<>>} : Begins(s, t \o r)
  BY DEF Owes, Part
<1>2. r \in Seq(Symbols)
  BY EmptySeq
<1> DEFINE w == t \o r
<1>3. w \in Seq(Symbols) /\ Begins(s, w)
  BY <1>1, <1>2, ConcatProperties
<1> HIDE DEF w
<1>4. Len(p) \in Nat /\ Len(s) \in Nat /\ Len(w) \in Nat
  BY <1>3, LenProperties
<1>5. Begins(p, w)
  BY <1>3, <1>4 DEF Begins
<1> QED BY <1>5 DEF Owes, Part, w

LEMMA OwesRequest ==
  ASSUME NEW asks, NEW more, more \subseteq Seq(Symbols), NEW r \in more, r # <<>>,
         NEW s \in Seq(Symbols), NEW t \in Seq(Symbols), Owes("idle", asks, s, t)
  PROVE  Owes("waiting", more, s \o r, t)
<1>1. s = t \o <<>>
  BY DEF Owes, Part
<1>2. s = t
  BY <1>1, ConcatEmptySeq
<1>3. t \o r \in Seq(Symbols)
  BY ConcatProperties
<1>4. Begins(t \o r, t \o r)
  BY <1>3, LenProperties DEF Begins
<1> QED BY <1>2, <1>4 DEF Owes, Part

LEMMA TypedBytes ==
  ASSUME Records, NEW k \in DOMAIN typed
  PROVE  /\ k \in 1..MaxPuts /\ typed[k].lines \in 1..MaxLines
         /\ k \in Nat /\ typed[k].lines \in Nat /\ typed[k].lines \in Nat \ {0}
<1>1. typed \in Seq([by : Clients, lines : 1..MaxLines]) /\ Len(typed) <= MaxPuts
  BY DEF Records
<1>2. DOMAIN typed = 1..Len(typed) /\ Len(typed) \in Nat
  BY <1>1, LenProperties
<1>3. typed[k] \in [by : Clients, lines : 1..MaxLines]
  BY <1>1, <1>2, ElementOfSeq
<1> QED BY <1>1, <1>2, <1>3, BoundsAssumption

LEMMA AsksAreBytes ==
  Records => \A c \in Clients : Asks(c) \subseteq Seq(Symbols) /\ <<>> \notin Asks(c)
<1> SUFFICES ASSUME Records, NEW c \in Clients
             PROVE  Asks(c) \subseteq Seq(Symbols) /\ <<>> \notin Asks(c)
  OBVIOUS
<1>1. ASSUME NEW h \in OtherHeaders
      PROVE  <<h, NL>> \in Seq(Symbols) /\ <<h, NL>> # <<>>
  BY OtherBytesAre
<1>2. ASSUME NEW k \in DOMAIN typed
      PROVE  PutOf(k) \in Seq(Symbols) /\ PutOf(k) # <<>>
  <2>1. k \in Nat /\ typed[k].lines \in Nat
    BY TypedBytes
  <2>2. PutOf(k) \in Seq(Symbols) /\ Len(PutOf(k)) = 2 * typed[k].lines + 2
    BY <2>1, PutBytesAre DEF PutOf
  <2>3. 2 * typed[k].lines + 2 # 0
    BY <2>1
  <2> QED BY <2>2, <2>3, EmptySeq
<1> QED BY <1>1, <1>2 DEF Asks, PutsOf

-----------------------------------------------------------------------------
(* The steps of the clients.                                               *)

\* What has been typed stays, and so does what has been asked.
LEMMA TypedGrows ==
  ASSUME Records, NEW m, typed' = Append(typed, m)
  PROVE  /\ DOMAIN typed \subseteq DOMAIN typed'
         /\ \A k \in DOMAIN typed : typed'[k] = typed[k]
         /\ \A c \in Clients : PutsOf(c) \subseteq PutsOf(c)'
         /\ \A c \in Clients : Asks(c) \subseteq Asks(c)'
<1>1. typed \in Seq([by : Clients, lines : 1..MaxLines])
  BY DEF Records
<1>2. /\ DOMAIN typed = 1..Len(typed) /\ Len(typed) \in Nat
      /\ DOMAIN typed' = 1..(Len(typed) + 1)
      /\ \A k \in 1..Len(typed) : typed'[k] = typed[k]
  BY <1>1, LenProperties
<1>3. DOMAIN typed \subseteq DOMAIN typed' /\ \A k \in DOMAIN typed : typed'[k] = typed[k]
  BY <1>2
<1>4. ASSUME NEW c \in Clients
      PROVE  PutsOf(c) \subseteq PutsOf(c)'
  BY <1>3 DEF PutsOf
<1>5. ASSUME NEW k \in DOMAIN typed
      PROVE  PutOf(k)' = PutOf(k)
  BY <1>3 DEF PutOf
<1>6. ASSUME NEW c \in Clients
      PROVE  Asks(c) \subseteq Asks(c)'
  <2>1. ASSUME NEW r \in Asks(c), r \notin {<<h, NL>> : h \in OtherHeaders}
        PROVE  r \in Asks(c)'
    <3>1. PICK k \in PutsOf(c) : r = PutOf(k)
      BY <2>1 DEF Asks
    <3>2. k \in PutsOf(c)' /\ r = PutOf(k)'
      BY <1>4, <1>5, <3>1 DEF PutsOf
    <3> QED BY <3>2 DEF Asks
  <2> QED BY <2>1 DEF Asks
<1> QED BY <1>3, <1>4, <1>6

\* A stored message stays right while clients ask and leave.
LEMMA StoredStays ==
  ASSUME TypeOK, Records, StoredUnlessTainted, messages' = messages,
         DOMAIN typed \subseteq DOMAIN typed',
         \A k \in DOMAIN typed : typed'[k] = typed[k],
         \A c \in Clients : client_pc[c] = "left" => client_pc'[c] = "left"
  PROVE  StoredUnlessTainted'
<1> SUFFICES ASSUME NEW i \in DOMAIN messages, ~messages[i].tainted
             PROVE  \/ messages[i].contents = <<>> /\ client_pc'[messages[i].by] = "left"
                    \/ \E k \in DOMAIN typed' :
                         /\ typed'[k].by = messages[i].by
                         /\ messages[i].contents = Whole(k)'
  BY DEF StoredUnlessTainted
<1>1. messages[i].by \in Clients
  <2>1. messages \in Seq([by : Clients, contents : Seq(Symbols), tainted : BOOLEAN])
    BY DEF Records
  <2>2. i \in 1..Len(messages)
    BY <2>1, LenProperties
  <2>3. messages[i] \in [by : Clients, contents : Seq(Symbols), tainted : BOOLEAN]
    BY <2>1, <2>2, ElementOfSeq
  <2> QED BY <2>3
<1>2. CASE messages[i].contents = <<>> /\ client_pc[messages[i].by] = "left"
  BY <1>1, <1>2
<1>3. ASSUME NEW k \in DOMAIN typed,
             typed[k].by = messages[i].by, messages[i].contents = Whole(k)
      PROVE  \E m \in DOMAIN typed' :
               typed'[m].by = messages[i].by /\ messages[i].contents = Whole(m)'
  <2>1. k \in DOMAIN typed' /\ typed'[k] = typed[k]
    OBVIOUS
  <2>2. Whole(k)' = Whole(k)
    BY <2>1 DEF Whole
  <2> QED BY <1>3, <2>1, <2>2
<1> QED BY <1>2, <1>3 DEF StoredUnlessTainted

Order == InputFits /\ OthersOwe /\ Flow

\* A client that connects has nothing to be read and asks nothing yet.
LEMMA OrderConnect ==
  ASSUME TypeOK, Records, Order, NEW c \in Clients, Connect(c)
  PROVE  Order'
<1> USE DEF Connect, server
<1>1. client_pc' = [client_pc EXCEPT ![c] = "idle"] /\ client_pc[c] = "new"
      /\ client_pc \in [Clients -> {"new", "idle", "waiting", "closed", "left"}]
  BY DEF TypeOK
<1>2. ASSUME NEW d \in Clients
      PROVE  Asks(d)' = Asks(d)
  BY DEF Asks, PutsOf, PutOf
<1>3. ASSUME NEW d \in Clients, NEW s, NEW t, Owes(client_pc[d], Asks(d), s, t)
      PROVE  Owes(client_pc'[d], Asks(d), s, t)
  BY <1>1, <1>3 DEF Owes, Part
<1>4. OthersOwe'
  BY <1>2, <1>3 DEF Order, OthersOwe
<1>5. InputFits'
  BY DEF Order, InputFits
<1>6. Stream' = Stream
  BY DEF Stream
<1>7. AtRequest /\ current \in Clients => AtRequest'
  BY <1>2, <1>3, <1>6 DEF AtRequest
<1>8. AtMessage /\ current \in Clients => AtMessage'
  <2> SUFFICES ASSUME AtMessage, current \in Clients PROVE AtMessage'
    OBVIOUS
  <2>1. current # c /\ client_pc'[current] = client_pc[current]
    BY <1>1 DEF AtMessage
  <2>2. PutsOf(current)' = PutsOf(current)
    BY DEF PutsOf
  <2> QED BY <1>6, <2>1, <2>2 DEF AtMessage
<1>9. AtAnswer /\ current \in Clients => AtAnswer'
  BY <1>1 DEF AtAnswer
<1>10. Flow'
  BY <1>7, <1>8, <1>9, InSession DEF Order, Flow
<1> QED BY <1>4, <1>5, <1>10 DEF Order

LEMMA AsksAreBytesNext ==
  Records' => (\A c \in Clients : Asks(c) \subseteq Seq(Symbols) /\ <<>> \notin Asks(c))'
BY AsksAreBytes, PTL

\* What a client that asks adds to its stream, for a put and for any other
\* request.
LEMMA OrderAsk ==
  ASSUME TypeOK, Records, Order, Records', NEW c \in Clients, NEW r \in Seq(Symbols),
         client_pc[c] = "idle", client_pc' = [client_pc EXCEPT ![c] = "waiting"],
         up' = [up EXCEPT ![c] = up[c] \o r], r \in Asks(c)', r # <<>>,
         \A k \in DOMAIN typed : k \in DOMAIN typed' /\ typed'[k] = typed[k],
         \A d \in Clients : PutsOf(d) \subseteq PutsOf(d)',
         \A d \in Clients : Asks(d) \subseteq Asks(d)',
         UNCHANGED server
  PROVE  Order'
<1> USE DEF server
<1>1. /\ client_pc \in [Clients -> {"new", "idle", "waiting", "closed", "left"}]
      /\ up \in [Clients -> Seq(Symbols)] /\ input \in Seq(Symbols)
  BY DEF TypeOK
<1>2. /\ client_pc'[c] = "waiting" /\ up'[c] = up[c] \o r
      /\ \A d \in Clients : d # c => client_pc'[d] = client_pc[d] /\ up'[d] = up[d]
  BY <1>1
<1>3. Asks(c)' \subseteq Seq(Symbols)
  BY AsksAreBytesNext
<1>4. ASSUME NEW s \in Seq(Symbols), NEW t \in Seq(Symbols), Owes("idle", Asks(c), s, t)
      PROVE  Owes("waiting", Asks(c)', s \o r, t)
  BY <1>3, <1>4, OwesRequest
<1>5. ASSUME NEW d \in Clients, NEW at, NEW s, NEW t, Owes(at, Asks(d), s, t)
      PROVE  Owes(at, Asks(d)', s, t)
  <2>1. Asks(d) \subseteq Asks(d)'
    OBVIOUS
  <2> QED BY <1>5, <2>1, OwesMore
<1>6. OthersOwe'
  <2> SUFFICES ASSUME NEW d \in Clients, d # current
               PROVE  Owes(client_pc'[d], Asks(d)', up'[d], <<>>)
    BY DEF OthersOwe
  <2>1. Owes(client_pc[d], Asks(d), up[d], <<>>)
    BY DEF Order, OthersOwe
  <2>2. CASE d = c
    BY <1>1, <1>2, <1>4, <2>1, <2>2, EmptySeq
  <2>3. CASE d # c
    BY <1>2, <1>5, <2>1, <2>3
  <2> QED BY <2>2, <2>3
<1>7. InputFits'
  BY DEF Order, InputFits
<1>8. AtRequest /\ current \in Clients => AtRequest'
  <2> SUFFICES ASSUME NEW t \in Leftovers, current \in Clients,
                      Owes(client_pc[current], Asks(current), Stream, t)
               PROVE  Owes(client_pc'[current], Asks(current)', Stream', t)
    BY DEF AtRequest
  <2>1. CASE current = c
    <3>1. t \in Seq(Symbols)
      <4>1. NL \in Symbols
        BY DEF Symbols
      <4>2. <<NL>> \in Seq(Symbols)
        BY <4>1
      <4> QED BY <4>2, EmptySeq DEF Leftovers
    <3>2. Stream \in Seq(Symbols) /\ Stream' = Stream \o r
      <4>1. Stream = input \o up[c] /\ Stream' = input \o (up[c] \o r)
        <5>1. input' = input
          OBVIOUS
        <5> QED BY <1>2, <2>1, <5>1 DEF Stream
      <4> DEFINE a == input
                 b == up[c]
      <4>2. a \in Seq(Symbols) /\ b \in Seq(Symbols) /\ r \in Seq(Symbols)
        BY <1>1, <1>2
      <4> HIDE DEF a, b
      <4>3. a \o b \in Seq(Symbols) /\ a \o (b \o r) = (a \o b) \o r
        <5>1. a \o b \in Seq(Symbols)
          BY <4>2, ConcatProperties
        <5>2. a \o (b \o r) = (a \o b) \o r
          BY <4>2, ConcatAssociative
        <5> QED BY <5>1, <5>2
      <4> QED BY <4>1, <4>3 DEF a, b
    <3> QED BY <1>2, <1>4, <2>1, <3>1, <3>2
  <2>2. CASE current # c
    <3>1. Stream' = Stream
      BY <1>2, <2>2 DEF Stream
    <3> QED BY <1>2, <1>5, <2>2, <3>1
  <2> QED BY <2>1, <2>2
<1>9. AtMessage /\ current \in Clients => AtMessage'
  <2> SUFFICES ASSUME AtMessage, current \in Clients PROVE AtMessage'
    OBVIOUS
  <2>1. current # c
    BY DEF AtMessage
  <2>2. client_pc'[current] = client_pc[current] /\ Stream' = Stream
    BY <1>2, <2>1 DEF Stream
  <2>3. PICK k \in PutsOf(current) :
          /\ length = 2 * typed[k].lines
          /\ Part(client_pc[current], Stream, <<NL>> \o Body(k, typed[k].lines))
    BY DEF AtMessage
  <2>4. k \in PutsOf(current)' /\ typed'[k] = typed[k]
    BY <2>3 DEF PutsOf
  <2> QED BY <2>2, <2>3, <2>4 DEF AtMessage
<1>10. AtAnswer /\ current \in Clients => AtAnswer'
  <2> SUFFICES ASSUME AtAnswer, current \in Clients PROVE AtAnswer'
    OBVIOUS
  <2>1. current # c
    BY DEF AtAnswer
  <2> QED BY <1>2, <2>1 DEF AtAnswer
<1>11. Flow'
  BY <1>8, <1>9, <1>10, InSession DEF Order, Flow
<1> QED BY <1>6, <1>7, <1>11 DEF Order

LEMMA OrderAskPut ==
  ASSUME TypeOK, Records, Order, NEW c \in Clients, NEW l \in 1..MaxLines, AskPut(c, l)
  PROVE  Order' /\ (StoredUnlessTainted => StoredUnlessTainted')
<1>0. PICK k \in Nat : k = Len(typed) + 1
  BY LenProperties DEF Records
<1> DEFINE m == [by |-> c, lines |-> l]
           h == <<PutHeader(2 * l), NL>>
           r == h \o Body(k, l)
<1>1. /\ client_pc[c] = "idle" /\ client_pc' = [client_pc EXCEPT ![c] = "waiting"]
      /\ typed' = Append(typed, m) /\ Len(typed) < MaxPuts /\ UNCHANGED server
  BY DEF AskPut
<1>2. /\ typed \in Seq([by : Clients, lines : 1..MaxLines]) /\ Len(typed) \in Nat
      /\ Len(typed') = k /\ DOMAIN typed' = 1..k /\ typed'[k] = m
  <2>1. typed \in Seq([by : Clients, lines : 1..MaxLines]) /\ Len(typed) \in Nat
    BY LenProperties DEF Records
  <2>2. m \in [by : Clients, lines : 1..MaxLines]
    OBVIOUS
  <2> HIDE DEF m
  <2> QED BY <1>0, <1>1, <2>1, <2>2, AppendProperties, LenProperties
<1>3. k \in 1..MaxPuts
  BY <1>0, <1>1, <1>2, BoundsAssumption
<1>4. r \in Seq(Symbols) /\ r # <<>>
  <2>1. r \in Seq(Symbols) /\ Len(r) = 2 * l + 2
    <3>1. k \in Nat /\ l \in Nat
      BY <1>3
    <3> HIDE DEF r
    <3> QED BY <3>1, PutBytesAre DEF r
  <2>2. 2 * l + 2 # 0
    OBVIOUS
  <2> HIDE DEF r
  <2> QED BY <2>1, <2>2, EmptySeq
<1>5. up' = [up EXCEPT ![c] = up[c] \o r]
  <2>1. up' = [up EXCEPT ![c] = up[c] \o h \o Body(k, l)]
    BY <1>2 DEF AskPut
  <2>2. up[c] \in Seq(Symbols) /\ Body(k, l) \in Seq(Symbols)
    BY <1>3, BodyBytes DEF TypeOK
  <2>3. PutHeader(2 * l) \in Symbols /\ NL \in Symbols
    BY HeaderSymbols
  <2>4. h \in Seq(Symbols)
    BY <2>3
  <2> DEFINE b == Body(k, l)
             u == up[c]
  <2> HIDE DEF h, b, u
  <2>5. u \in Seq(Symbols) /\ b \in Seq(Symbols)
    BY <2>2 DEF u, b
  <2>6. ASSUME NEW a1 \in Seq(Symbols), NEW a2 \in Seq(Symbols), NEW a3 \in Seq(Symbols)
        PROVE  (a1 \o a2) \o a3 = a1 \o (a2 \o a3)
    BY <2>6, ConcatAssociative
  <2>7. (u \o h) \o b = u \o (h \o b)
    BY <2>4, <2>5, <2>6
  <2> QED BY <2>1, <2>7 DEF u, b
<1>6. r \in Asks(c)'
  <2>1. k \in DOMAIN typed' /\ typed'[k].by = c /\ typed'[k].lines = l
    BY <1>2, <1>3
  <2>2. k \in PutsOf(c)'
    BY <2>1 DEF PutsOf
  <2>3. r = PutOf(k)'
    BY <2>1 DEF PutOf
  <2> HIDE DEF r
  <2> QED BY <2>2, <2>3 DEF Asks
<1>7. Records'
  BY TypeAskPut
<1> HIDE DEF r, m
<1>8. /\ \A i \in DOMAIN typed : i \in DOMAIN typed' /\ typed'[i] = typed[i]
      /\ \A d \in Clients : PutsOf(d) \subseteq PutsOf(d)'
      /\ \A d \in Clients : Asks(d) \subseteq Asks(d)'
  BY <1>1, TypedGrows
<1>9. Order'
  BY <1>1, <1>4, <1>5, <1>6, <1>7, <1>8, OrderAsk
<1>10. StoredUnlessTainted => StoredUnlessTainted'
  <2>1. messages' = messages
    BY <1>1 DEF server
  <2>2. \A d \in Clients : client_pc[d] = "left" => client_pc'[d] = "left"
    BY <1>1 DEF TypeOK
  <2> QED BY <1>8, <2>1, <2>2, StoredStays
<1> QED BY <1>9, <1>10

LEMMA OrderAskOther ==
  ASSUME TypeOK, Records, Order, NEW c \in Clients, NEW h \in OtherHeaders, AskOther(c, h)
  PROVE  Order'
<1> DEFINE r == <<h, NL>>
<1>1. /\ client_pc[c] = "idle" /\ client_pc' = [client_pc EXCEPT ![c] = "waiting"]
      /\ up' = [up EXCEPT ![c] = up[c] \o r] /\ typed' = typed /\ UNCHANGED server
  BY DEF AskOther
<1>2. r \in Seq(Symbols) /\ r # <<>> /\ r \in Asks(c)'
  BY OtherBytesAre DEF Asks
<1>3. Records'
  BY TypeAskOther
<1> HIDE DEF r
<1>4. /\ \A d \in Clients : PutsOf(d) \subseteq PutsOf(d)'
      /\ \A d \in Clients : Asks(d) \subseteq Asks(d)'
  BY <1>1 DEF Asks, PutsOf, PutOf
<1> QED BY <1>1, <1>2, <1>3, <1>4, OrderAsk

\* Of a client that leaves, a beginning of what was to be read may arrive.
LEMMA OrderLeave ==
  ASSUME TypeOK, Records, Order, NEW c \in Clients, Leave(c)
  PROVE  Order'
<1>1. PICK n \in 0..Len(up[c]) : up' = [up EXCEPT ![c] = SubSeq(up[c], 1, n)]
  BY DEF Leave
<1> DEFINE v == SubSeq(up[c], 1, n)
<1>2. /\ client_pc[c] \in {"idle", "waiting"}
      /\ client_pc' = [client_pc EXCEPT ![c] = "left"]
      /\ typed' = typed /\ UNCHANGED server
  BY DEF Leave
<1> USE DEF server
<1>3. /\ client_pc \in [Clients -> {"new", "idle", "waiting", "closed", "left"}]
      /\ up \in [Clients -> Seq(Symbols)] /\ input \in Seq(Symbols)
  BY DEF TypeOK
<1>4. /\ v \in Seq(Symbols) /\ Begins(v, up[c])
      /\ input \o v \in Seq(Symbols) /\ Begins(input \o v, input \o up[c])
  BY <1>3, CutBegins
<1> HIDE DEF v
<1>5. /\ client_pc'[c] = "left" /\ up'[c] = v
      /\ \A d \in Clients : d # c => client_pc'[d] = client_pc[d] /\ up'[d] = up[d]
  BY <1>1, <1>2, <1>3 DEF v
<1>6. \A d \in Clients : Asks(d)' = Asks(d) /\ PutsOf(d)' = PutsOf(d)
  BY <1>2 DEF Asks, PutsOf, PutOf
<1>7. Asks(c) \subseteq Seq(Symbols)
  BY AsksAreBytes
<1>8. OthersOwe'
  <2> SUFFICES ASSUME NEW d \in Clients, d # current
               PROVE  Owes(client_pc'[d], Asks(d), up'[d], <<>>)
    BY <1>2, <1>6 DEF OthersOwe
  <2>1. Owes(client_pc[d], Asks(d), up[d], <<>>)
    BY DEF Order, OthersOwe
  <2>2. CASE d = c
    BY <1>3, <1>4, <1>5, <1>7, <2>1, <2>2, EmptySeq, OwesLess
  <2>3. CASE d # c
    BY <1>5, <2>1, <2>3
  <2> QED BY <2>2, <2>3
<1>9. InputFits'
  BY <1>2 DEF Order, InputFits
<1>10. CASE current # c
  <2>1. current \in Clients => Stream' = Stream /\ client_pc'[current] = client_pc[current]
    BY <1>2, <1>5, <1>10 DEF Stream
  <2>2. current \in Clients =>
          /\ AtRequest => AtRequest'
          /\ AtMessage => AtMessage'
          /\ AtAnswer => AtAnswer'
    BY <1>2, <1>5, <1>6, <1>10, <2>1 DEF AtRequest, AtMessage, AtAnswer
  <2>3. Flow'
    BY <1>2, <2>2, InSession DEF Order, Flow
  <2> QED BY <1>8, <1>9, <2>3 DEF Order
<1>11. CASE current = c
  <2>1. /\ Stream = input \o up[c] /\ Stream' = input \o v /\ Stream \in Seq(Symbols)
        /\ Stream' \in Seq(Symbols) /\ Begins(Stream', Stream)
    BY <1>2, <1>3, <1>4, <1>5, <1>11, ConcatProperties DEF Stream
  <2>2. ASSUME NEW s \in Seq(Symbols), NEW p \in Seq(Symbols), Begins(p, s),
               NEW at, NEW t \in Seq(Symbols), Part(at, s, t)
        PROVE  Part("left", p, t)
    <3>1. Len(s) \in Nat /\ Len(p) \in Nat /\ Len(t) \in Nat
      BY LenProperties
    <3> QED BY <2>2, <3>1 DEF Part, Begins
  <2>3. \A t \in Leftovers : t \in Seq(Symbols)
    <3>1. NL \in Symbols
      BY DEF Symbols
    <3>2. <<NL>> \in Seq(Symbols)
      BY <3>1
    <3> QED BY <3>2, EmptySeq DEF Leftovers
  <2>4. AtRequest => AtRequest'
    <3> SUFFICES ASSUME NEW t \in Leftovers, Owes(client_pc[c], Asks(c), Stream, t)
                 PROVE  Owes("left", Asks(c), Stream', t)
      BY <1>2, <1>5, <1>6, <1>11 DEF AtRequest
    <3> QED BY <1>7, <2>1, <2>3, OwesLess
  <2>5. AtMessage => AtMessage'
    <3> SUFFICES ASSUME NEW k \in PutsOf(c), length = 2 * typed[k].lines,
                        Part(client_pc[c], Stream, <<NL>> \o Body(k, typed[k].lines))
                 PROVE  AtMessage'
      BY <1>11 DEF AtMessage
    <3> DEFINE b == <<NL>> \o Body(k, typed[k].lines)
    <3>1. b \in Seq(Symbols)
      <4>1. k \in Nat /\ typed[k].lines \in Nat
        BY TypedBytes DEF PutsOf
      <4>2. <<NL>> \in Seq(Symbols) /\ Body(k, typed[k].lines) \in Seq(Symbols)
        BY <2>3, <4>1, BodyBytes DEF Leftovers
      <4> QED BY <4>2, ConcatProperties
    <3> HIDE DEF b
    <3>2. Part(client_pc[c], Stream, b)
      BY DEF b
    <3>3. Part("left", Stream', b)
      BY <2>1, <2>2, <3>1, <3>2
    <3> QED BY <1>2, <1>5, <1>6, <1>11, <3>3 DEF AtMessage, b
  <2>6. AtAnswer => AtAnswer'
    <3> SUFFICES ASSUME NEW t \in Leftovers, Part(client_pc[c], up[c], t)
                 PROVE  Part("left", v, t)
      BY <1>2, <1>5, <1>11 DEF AtAnswer
    <3> QED BY <1>3, <1>4, <2>2, <2>3
  <2>7. Flow'
    BY <1>2, <2>4, <2>5, <2>6 DEF Order, Flow
  <2> QED BY <1>8, <1>9, <2>7 DEF Order
<1> QED BY <1>10, <1>11

-----------------------------------------------------------------------------
(* Reading a request and a message.                                        *)

-----------------------------------------------------------------------------
(* The steps of the server.                                                *)

LEMMA OrderAccept ==
  ASSUME TypeOK, Records, Order, Accept
  PROVE  Order'
<1> USE DEF Accept
<1>1. current = NoClient /\ current' \in Clients /\ input = <<>>
  BY HeadTailProperties DEF TypeOK, Order, InputFits
<1>2. \A d \in Clients : Asks(d)' = Asks(d)
  BY DEF Asks, PutsOf, PutOf
<1>3. \A d \in Clients : Owes(client_pc[d], Asks(d), up[d], <<>>)
  BY <1>1, NoClientAssumption DEF Order, OthersOwe
<1>4. OthersOwe'
  BY <1>2, <1>3 DEF OthersOwe
<1>5. InputFits'
  <2>1. ~HasNewline(<<>>)
    BY DEF HasNewline
  <2> QED BY <1>1, <2>1 DEF InputFits
<1>6. Stream' = up[current']
  <2>1. up[current'] \in Seq(Symbols)
    BY <1>1 DEF TypeOK
  <2> QED BY <1>1, <2>1, ConcatEmptySeq DEF Stream
<1>7. AtRequest'
  <2>1. Owes(client_pc[current'], Asks(current'), up[current'], <<>>)
    BY <1>1, <1>3
  <2>2. (Asks(current))' = Asks(current')
    BY DEF Asks, PutsOf, PutOf
  <2> QED BY <1>6, <2>1, <2>2 DEF AtRequest, Leftovers
<1>8. Flow'
  BY <1>7 DEF Flow
<1> QED BY <1>4, <1>5, <1>8 DEF Order

LEMMA OrderEndSession ==
  ASSUME TypeOK, Records, Order, server_pc = "get_request", NEW cache \in Seq(Symbols),
         EndSession(cache), UNCHANGED <<backlog, typed, others>>
  PROVE  Order' /\ CacheBetweenRequests' /\ (StoredUnlessTainted => StoredUnlessTainted')
<1> USE DEF EndSession
<1>1. current \in Clients /\ client_pc \in [Clients -> {"new", "idle", "waiting", "closed", "left"}]
      /\ up \in [Clients -> Seq(Symbols)]
  BY InSession DEF TypeOK
<1>2. \A d \in Clients : Asks(d)' = Asks(d)
  BY DEF Asks, PutsOf, PutOf
<1>3. OthersOwe'
  <2> SUFFICES ASSUME NEW d \in Clients
               PROVE  Owes(client_pc'[d], Asks(d), up'[d], <<>>)
    BY <1>2 DEF OthersOwe
  <2>1. CASE d = current
    <3>1. client_pc'[d] \in {"left", "closed"} /\ up'[d] = <<>>
      BY <1>1, <2>1
    <3> QED BY <3>1, OwesNothing
  <2>2. CASE d # current
    BY <1>1, <2>2 DEF Order, OthersOwe
  <2> QED BY <2>1, <2>2
<1>4. InputFits' /\ Flow' /\ CacheBetweenRequests'
  BY DEF InputFits, Flow, CacheBetweenRequests
<1>5. StoredUnlessTainted => StoredUnlessTainted'
  <2>1. \A d \in Clients : client_pc[d] = "left" => client_pc'[d] = "left"
    BY <1>1
  <2> QED BY <2>1, StoredStays
<1> QED BY <1>3, <1>4, <1>5 DEF Order

LEMMA OrderClientIsDone ==
  ASSUME TypeOK, Records, Order, ClientIsDone
  PROVE  Order' /\ CacheBetweenRequests' /\ (StoredUnlessTainted => StoredUnlessTainted')
<1>1. cache_ \in Seq(Symbols)
  BY DEF TypeOK
<1> QED BY <1>1, OrderEndSession DEF ClientIsDone

LEMMA OrderReceiveMessage ==
  ASSUME TypeOK, Records, Order, ReceiveMessage
  PROVE  Order'
<1> USE DEF ReceiveMessage
<1>1. /\ current \in Clients /\ current # NoClient /\ up[current] \in Seq(Symbols)
      /\ up \in [Clients -> Seq(Symbols)] /\ input \in Seq(Symbols)
  BY InSession DEF TypeOK
<1>2. PICK n \in 1..Len(up[current]) :
        /\ input' = input \o SubSeq(up[current], 1, n)
        /\ up' = [up EXCEPT ![current] = SubSeq(@, n + 1, Len(@))]
  OBVIOUS
<1>3. n \in 0..Len(up[current])
  BY <1>1, LenProperties
<1>4. Stream' = Stream
  <2>1. up'[current] = SubSeq(up[current], n + 1, Len(up[current]))
    BY <1>1, <1>2
  <2> DEFINE u == up[current]
  <2>2. u \in Seq(Symbols) /\ n \in 0..Len(u) /\ Stream = input \o u
        /\ Stream' = (input \o SubSeq(u, 1, n)) \o SubSeq(u, n + 1, Len(u))
    BY <1>1, <1>2, <1>3, <2>1 DEF Stream
  <2>3. u \in Seq(Symbols) /\ n \in 0..Len(u) /\ input \in Seq(Symbols)
    BY <1>1, <2>2
  <2> HIDE DEF u, ReceiveMessage
  <2>4. (input \o SubSeq(u, 1, n)) \o SubSeq(u, n + 1, Len(u)) = input \o u
    BY <2>3, RecvMoves
  <2> QED BY <2>2, <2>4
<1>5. OthersOwe'
  <2>1. \A d \in Clients : Asks(d)' = Asks(d)
    BY DEF Asks, PutsOf, PutOf
  <2>2. \A d \in Clients : d # current => up'[d] = up[d]
    BY <1>1, <1>2
  <2> QED BY <2>1, <2>2 DEF Order, OthersOwe
<1>6. InputFits'
  BY DEF InputFits
<1>7. AtMessage => AtMessage'
  BY <1>4 DEF AtMessage, PutsOf
<1>8. Flow'
  BY <1>7 DEF Order, Flow
<1> QED BY <1>5, <1>6, <1>8 DEF Order

LEMMA OrderSendResponse ==
  ASSUME TypeOK, Records, Order, SendResponse
  PROVE  Order'
<1> USE DEF SendResponse
<1>1. /\ current \in Clients /\ up[current] \in Seq(Symbols) /\ input = <<>>
      /\ client_pc \in [Clients -> {"new", "idle", "waiting", "closed", "left"}]
  BY InSession DEF TypeOK, Order, InputFits
<1>2. \A d \in Clients : Asks(d)' = Asks(d)
  BY DEF Asks, PutsOf, PutOf
<1>3. OthersOwe'
  BY <1>1, <1>2 DEF Order, OthersOwe
<1>4. InputFits'
  <2>1. ~HasNewline(<<>>)
    BY DEF HasNewline
  <2> QED BY <1>1, <2>1 DEF InputFits
<1>5. AtAnswer => AtRequest'
  <2> SUFFICES ASSUME client_pc[current] \in {"waiting", "left"}, NEW t \in Leftovers,
                      Part(client_pc[current], up[current], t)
               PROVE  AtRequest'
    BY DEF AtAnswer
  <2>1. Stream' = up[current]
    BY <1>1, ConcatEmptySeq DEF Stream
  <2>2. client_pc'[current] \in {"idle", "left"}
        /\ (client_pc'[current] # "left" => client_pc[current] # "left")
    BY <1>1
  <2>3. Part(client_pc'[current], up[current], t \o <<>>)
    <3>1. NL \in Symbols
      BY DEF Symbols
    <3>2. <<NL>> \in Seq(Symbols)
      BY <3>1
    <3>3. t \o <<>> = t
      BY <3>2, EmptySeq, ConcatEmptySeq DEF Leftovers
    <3> QED BY <2>2, <3>3 DEF Part
  <2>4. Owes(client_pc'[current], Asks(current), up[current], t)
    BY <2>2, <2>3 DEF Owes
  <2> QED BY <1>1, <1>2, <2>1, <2>4 DEF AtRequest
<1>6. Flow'
  BY <1>5 DEF Order, Flow
<1> QED BY <1>3, <1>4, <1>6 DEF Order

\* A request is read: what was asked of a put is still to be read, and of
\* anything else nothing.
LEMMA OrderStartRequest ==
  ASSUME TypeOK, Records, Order, CacheBetweenRequests, server_pc = "get_request",
         NEW a \in Seq(Symbols), NEW rest \in Seq(Symbols), HasNewline(a),
         LineOf(a) # <<>>, a \o rest = Stream,
         StartRequest(LineOf(a), cache_ \o RestOf(a), rest),
         UNCHANGED <<backlog, typed, others>>
  PROVE  Order'
<1> DEFINE line == LineOf(a)
           cache == cache_ \o RestOf(a)
           put == Len(line) = 1 /\ line[1].sym = "put"
           reset == Len(line) = 1 /\ line[1].sym = "reset"
           pc == client_pc[current]
<1>1. /\ cache_' = cache
      /\ up' = [up EXCEPT ![current] = rest]
      /\ UNCHANGED <<client_pc, current, taint>>
      /\ \/ /\ put
            /\ server_pc' = "receive_message"
            /\ length' = line[1].length
            /\ input' = cache
            /\ messages' = messages
         \/ /\ ~put
            /\ server_pc' = "send_response"
            /\ input' = <<>>
            /\ messages' = IF reset THEN <<>> ELSE messages
            /\ length' = length
  BY DEF StartRequest
<1>2. /\ current \in Clients /\ up \in [Clients -> Seq(Symbols)]
      /\ cache_ \in Seq(Symbols) /\ up'[current] = rest
      /\ RestOf(a) \in Seq(Symbols) /\ Stream \in Seq(Symbols)
  BY <1>1, InSession, LineAndRest, ConcatProperties DEF TypeOK
<1> HIDE DEF put, reset, pc, line, cache
<1>3. \A d \in Clients : Asks(d)' = Asks(d) /\ PutsOf(d)' = PutsOf(d)
  BY DEF Asks, PutsOf, PutOf
<1>4. OthersOwe'
  <2>1. \A d \in Clients : d # current => up'[d] = up[d]
    BY <1>1, <1>2
  <2> QED BY <1>1, <1>3, <2>1 DEF Order, OthersOwe
<1>5. InputFits'
  BY <1>1 DEF InputFits
<1>6. CASE taint = "stream"
  BY <1>1, <1>4, <1>5, <1>6 DEF Order, Flow
<1>7. CASE taint # "stream"
  <2>1. PICK t \in Leftovers, r \in Asks(current) \cup {<<>>} :
          /\ Part(pc, Stream, t \o r)
          /\ pc \in {"new", "idle", "closed"} => r = <<>>
          /\ pc = "waiting" => r # <<>>
    <3>1. AtRequest
      BY <1>7 DEF Order, Flow
    <3> QED BY <3>1 DEF AtRequest, Owes, pc
  <2>2. r # <<>> => r \in Seq(Symbols) /\ Len(r) >= 2 /\ r[1] # NL /\ r[2] = NL
    <3> SUFFICES ASSUME r # <<>>
                 PROVE  r \in Seq(Symbols) /\ Len(r) >= 2 /\ r[1] # NL /\ r[2] = NL
      OBVIOUS
    <3>1. CASE r \in {<<h, NL>> : h \in OtherHeaders}
      <4>1. PICK h \in OtherHeaders : r = <<h, NL>>
        BY <3>1
      <4>2. r \in Seq(Symbols) /\ Len(r) = 2
        BY <4>1, OtherBytesAre
      <4>3. r[1] = h /\ r[2] = NL /\ h # NL
        BY <4>1, Headers
      <4> QED BY <4>2, <4>3
    <3>2. CASE r \in {PutOf(k) : k \in PutsOf(current)}
      <4>1. PICK k \in PutsOf(current) : r = PutOf(k)
        BY <3>2
      <4>2. k \in Nat /\ typed[k].lines \in Nat
        BY TypedBytes DEF PutsOf
      <4>3. r \in Seq(Symbols) /\ Len(r) = 2 * typed[k].lines + 2
            /\ r[1] = PutHeader(2 * typed[k].lines) /\ r[2] = NL
        BY <4>1, <4>2, PutBytesAre DEF PutOf
      <4>4. PutHeader(2 * typed[k].lines) # NL
        BY <4>2, HeaderSymbols
      <4> QED BY <4>2, <4>3, <4>4
    <3> QED BY <2>1, <3>1, <3>2 DEF Asks
  <2>3. r \in Seq(Symbols)
    BY <2>2, EmptySeq
  <2>4. /\ t = <<>> /\ r # <<>> /\ Len(line) = 1 /\ line[1] = r[1]
        /\ Len(a) >= 2 /\ Len(RestOf(a)) = Len(a) - 1
        /\ \A i \in 1..(Len(a) - 1) : RestOf(a)[i] = a[i + 1]
    <3>1. Begins(a \o rest, t \o r)
      BY <2>1 DEF Part
    <3>2. t = <<>> /\ r # <<>> /\ t \o r = r
      BY <2>3, <3>1, NothingLeft
    <3>3. Begins(a \o rest, r)
      BY <3>1, <3>2
    <3> QED BY <2>2, <2>3, <3>2, <3>3, FirstLine DEF line
  <2>5. t \o r = r
    BY <2>3, <2>4, ConcatEmptySeq
  <2>6. Part(pc, Stream, r)
    BY <2>1, <2>5
  <2>7. pc \in {"waiting", "left"}
    BY <2>1, <2>4, InSession DEF pc
  <2>8. CASE r \in {<<h, NL>> : h \in OtherHeaders}
    <3>1. PICK h \in OtherHeaders : r = <<h, NL>>
      BY <2>8
    <3>2. r[1] = h /\ Len(r) = 2
      BY <3>1
    <3>3. ~put
      BY <2>4, <3>2, Headers DEF put
    <3>4. Len(rest) = 0
      <4>1. Len(Stream) <= 2
        BY <2>6, <3>2 DEF Part, Begins
      <4>2. Len(Stream) = Len(a) + Len(rest) /\ Len(a) \in Nat /\ Len(rest) \in Nat
        BY ConcatProperties, LenProperties
      <4> QED BY <2>4, <4>1, <4>2
    <3>5. rest = <<>>
      BY <3>4, EmptySeq
    <3>6. Part(pc, rest, <<>>)
      BY <3>5, EmptySeq DEF Part, Begins
    <3>7. AtAnswer'
      BY <1>1, <1>2, <2>7, <3>6 DEF AtAnswer, Leftovers, pc
    <3>8. Flow'
      BY <1>1, <3>3, <3>7 DEF Flow
    <3> QED BY <1>4, <1>5, <3>8 DEF Order
  <2>9. CASE r \in {PutOf(k) : k \in PutsOf(current)}
    <3>1. PICK k \in PutsOf(current) : r = PutOf(k)
      BY <2>9
    <3> DEFINE l == typed[k].lines
               b == Body(k, l)
               m == <<NL>> \o b
               s == RestOf(a) \o rest
    <3>2. k \in Nat /\ l \in Nat \ {0} /\ l \in Nat
      BY TypedBytes DEF PutsOf
    <3>3. /\ Len(r) = 2 * l + 2 /\ r[1] = PutHeader(2 * l)
          /\ \A i \in 1..(2 * l) : r[i + 2] = b[i]
          /\ r[2] = NL
      BY <3>1, <3>2, PutBytesAre DEF PutOf
    <3>4. /\ m \in Seq(Symbols) /\ Len(m) = 2 * l + 1 /\ m[1] = NL
          /\ \A i \in 1..(2 * l) : m[i + 1] = b[i]
      BY <3>2, MessageBytes
    <3>5. l \in Nat
      BY <3>2, BoundsAssumption
    <3> HIDE DEF l, b, m
    <3>6. ASSUME NEW i \in 1..(Len(r) - 1)
          PROVE  m[i] = r[i + 1]
      <4>1. CASE i = 1
        BY <3>3, <3>4, <4>1
      <4>2. CASE i # 1
        <5>1. i - 1 \in 1..(2 * l) /\ (i - 1) + 2 = i + 1 /\ (i - 1) + 1 = i
          BY <3>3, <3>5, <4>2
        <5> QED BY <3>3, <3>4, <5>1
      <4> QED BY <4>1, <4>2
    <3>7. put /\ line[1].length = 2 * l
      BY <2>4, <3>3 DEF put, PutHeader
    <3>8. /\ s \in Seq(Symbols) /\ Len(s) = Len(Stream) - 1 /\ Len(Stream) >= 1
          /\ \A i \in 1..(Len(Stream) - 1) : s[i] = Stream[i + 1]
      <4> DEFINE q == RestOf(a)
      <4>1. /\ q \in Seq(Symbols) /\ Len(a) >= 1 /\ Len(q) = Len(a) - 1
            /\ \A i \in 1..(Len(a) - 1) : q[i] = a[i + 1]
        <5>1. Len(a) \in Nat
          BY LenProperties
        <5>2. Len(a) >= 1
          BY <2>4, <5>1
        <5> QED BY <1>2, <2>4, <5>2
      <4> HIDE DEF q
      <4>2. /\ q \o rest \in Seq(Symbols) /\ Len(q \o rest) = Len(a \o rest) - 1
            /\ Len(a \o rest) >= 1
            /\ \A i \in 1..(Len(a \o rest) - 1) : (q \o rest)[i] = (a \o rest)[i + 1]
        BY <4>1, ShiftConcat
      <4> QED BY <4>2 DEF q
    <3> HIDE DEF s
    <3>9. Part(pc, s, m)
      <4>1. Len(m) = Len(r) - 1
        BY <3>3, <3>4, <3>5
      <4> QED BY <1>2, <2>3, <2>6, <3>4, <3>6, <3>8, <4>1, ShiftPart
    <3>10. taint = "none" => AtMessage'
      <4> SUFFICES ASSUME taint = "none" PROVE AtMessage'
        OBVIOUS
      <4>1. cache_ = <<>>
        BY DEF CacheBetweenRequests
      <4>2. cache = RestOf(a)
        BY <1>2, <4>1, ConcatEmptySeq DEF cache
      <4>3. Stream' = s
        BY <1>1, <1>2, <3>7, <4>2 DEF Stream, s
      <4>4. length' = 2 * l
        BY <1>1, <3>7
      <4>5. k \in (PutsOf(current))'
        BY <1>1 DEF PutsOf
      <4>6. Part(pc, Stream', <<NL>> \o Body(k, typed[k].lines))
        BY <3>9, <4>3 DEF m, b, l
      <4> QED BY <1>1, <2>7, <4>4, <4>5, <4>6 DEF AtMessage, pc, l
    <3>11. Flow'
      BY <1>1, <3>7, <3>10 DEF Flow
    <3> QED BY <1>4, <1>5, <3>11 DEF Order
  <2> QED BY <2>1, <2>4, <2>8, <2>9 DEF Asks
<1> QED BY <1>6, <1>7

LEMMA OrderGetRequest ==
  ASSUME TypeOK, Records, Order, CacheBetweenRequests, GetRequest
  PROVE  Order'
<1>1. server_pc = "get_request" /\ UNCHANGED <<backlog, typed, others>>
  BY DEF GetRequest
<1> DEFINE request(n) == input \o SubSeq(up[current], 1, n)
           rest(n) == SubSeq(up[current], n + 1, Len(up[current]))
<1>2. PICK n \in 1..Len(up[current]) :
        IF ~HasNewline(request(n))
        THEN /\ input' = request(n)
             /\ up' = [up EXCEPT ![current] = rest(n)]
             /\ UNCHANGED <<client_pc, server_pc, current, cache_, length, messages, taint>>
        ELSE IF LineOf(request(n)) = <<>>
             THEN EndSession(cache_ \o RestOf(request(n)))
             ELSE StartRequest(LineOf(request(n)), cache_ \o RestOf(request(n)), rest(n))
  BY DEF GetRequest
<1>3. /\ request(n) \in Seq(Symbols) /\ rest(n) \in Seq(Symbols)
      /\ request(n) \o rest(n) = Stream
  <2> DEFINE u == up[current]
  <2>1. u \in Seq(Symbols) /\ input \in Seq(Symbols)
    BY <1>1, InSession DEF TypeOK
  <2>2. n \in 0..Len(u)
    BY <2>1, LenProperties
  <2> HIDE DEF u
  <2>3. /\ input \o SubSeq(u, 1, n) \in Seq(Symbols)
        /\ (input \o SubSeq(u, 1, n)) \o SubSeq(u, n + 1, Len(u)) = input \o u
        /\ SubSeq(u, n + 1, Len(u)) \in Seq(Symbols)
    BY <2>1, <2>2, RecvMoves, RecvParts
  <2> QED BY <2>3 DEF u, Stream
<1> HIDE DEF request, rest
<1>4. CASE ~HasNewline(request(n))
  <2>1. /\ current \in Clients /\ up \in [Clients -> Seq(Symbols)]
        /\ input' = request(n) /\ up' = [up EXCEPT ![current] = rest(n)]
        /\ UNCHANGED <<client_pc, server_pc, current, cache_, length, messages, taint, typed>>
    BY <1>1, <1>2, <1>4, InSession DEF TypeOK
  <2>2. \A d \in Clients : Asks(d)' = Asks(d)
    BY <2>1 DEF Asks, PutsOf, PutOf
  <2>3. \A d \in Clients : d # current => up'[d] = up[d]
    BY <2>1
  <2>4. OthersOwe'
    BY <2>1, <2>2, <2>3 DEF Order, OthersOwe
  <2>5. InputFits'
    BY <1>1, <1>4, <2>1 DEF InputFits
  <2>6. Stream' = Stream
    <3>1. up'[current] = rest(n)
      BY <2>1
    <3> QED BY <1>3, <2>1, <3>1 DEF Stream
  <2>7. AtRequest => AtRequest'
    <3>1. (Asks(current))' = Asks(current)
      BY <2>1 DEF Asks, PutsOf, PutOf
    <3> QED BY <2>1, <2>6, <3>1 DEF AtRequest
  <2>8. Flow'
    BY <1>1, <2>1, <2>7 DEF Order, Flow
  <2> QED BY <2>4, <2>5, <2>8 DEF Order
<1>5. CASE HasNewline(request(n))
  <2>1. cache_ \o RestOf(request(n)) \in Seq(Symbols)
    BY <1>3, <1>5, LineAndRest, ConcatProperties DEF TypeOK
  <2>2. CASE LineOf(request(n)) = <<>>
    BY <1>1, <1>2, <1>5, <2>1, <2>2, OrderEndSession
  <2>3. CASE LineOf(request(n)) # <<>>
    BY <1>1, <1>2, <1>3, <1>5, <2>3, OrderStartRequest
  <2> QED BY <2>2, <2>3
<1> QED BY <1>4, <1>5

\* The message of an untainted put is stored as typed; what may be left is the
\* newline at its end.
LEMMA OrderStoreMessage ==
  ASSUME TypeOK, Records, Order, StoreMessage
  PROVE  Order' /\ (StoredUnlessTainted => StoredUnlessTainted')
<1> USE DEF StoreMessage, environment
<1>1. /\ current \in Clients /\ current # NoClient /\ up[current] \in Seq(Symbols)
      /\ input \in Seq(Symbols) /\ length \in Nat
      /\ server_pc = "receive_message" /\ server_pc' = "send_response"
      /\ UNCHANGED <<backlog, client_pc, up, typed, others, current, cache_, length>>
      /\ input' = <<>> /\ taint' = IF taint = "cache" THEN "stream" ELSE taint
  BY InSession DEF TypeOK
<1>2. PICK contents :
        /\ messages' = Append(messages, Stored(contents))
        /\ \/ Len(input) >= length /\ contents = StripMessage(input)
           \/ /\ client_pc[current] = "left" /\ up[current] = <<>>
              /\ contents = <<>>
  OBVIOUS
<1>3. taint = "none" =>
        /\ AtAnswer
        /\ \/ contents = <<>> /\ client_pc[current] = "left"
           \/ \E k \in DOMAIN typed : typed[k].by = current /\ contents = Whole(k)
  <2> SUFFICES ASSUME taint = "none"
               PROVE  /\ AtAnswer
                      /\ \/ contents = <<>> /\ client_pc[current] = "left"
                         \/ \E k \in DOMAIN typed : typed[k].by = current /\ contents = Whole(k)
    OBVIOUS
  <2> HIDE DEF StoreMessage, environment
  <2>1. client_pc[current] \in {"waiting", "left"}
    BY <1>1 DEF Order, Flow, AtMessage
  <2>2. PICK k \in PutsOf(current) :
          /\ length = 2 * typed[k].lines
          /\ Part(client_pc[current], Stream, <<NL>> \o Body(k, typed[k].lines))
    BY <1>1 DEF Order, Flow, AtMessage
  <2> DEFINE l == typed[k].lines
             u == up[current]
  <2>3. k \in Nat /\ l \in Nat \ {0} /\ k \in DOMAIN typed /\ typed[k].by = current
    BY <2>2, TypedBytes DEF PutsOf
  <2>4. CASE Len(input) >= length /\ contents = StripMessage(input)
    <3>1. Part(client_pc[current], input \o u, <<NL>> \o Body(k, l)) /\ u \in Seq(Symbols)
          /\ Len(input) >= 2 * l
      BY <1>1, <2>2, <2>4 DEF Stream
    <3> HIDE DEF l, u
    <3>2. /\ StripMessage(input) = WithoutLastNewline(Body(k, l))
          /\ \E t \in Leftovers : Part(client_pc[current], u, t)
      BY <1>1, <2>3, <3>1, MessageRead
    <3>3. contents = Whole(k)
      BY <2>4, <3>2 DEF Whole, l
    <3> QED BY <2>1, <2>3, <3>2, <3>3 DEF AtAnswer, u
  <2>5. CASE client_pc[current] = "left" /\ up[current] = <<>> /\ contents = <<>>
    <3>1. Part("left", <<>>, <<>>)
      BY EmptySeq DEF Part, Begins
    <3> QED BY <2>5, <3>1 DEF AtAnswer, Leftovers
  <2> QED BY <1>2, <2>4, <2>5
<1>4. OthersOwe'
  <2>1. \A d \in Clients : Asks(d)' = Asks(d)
    BY <1>1 DEF Asks, PutsOf, PutOf
  <2> QED BY <1>1, <2>1 DEF Order, OthersOwe
<1>5. InputFits'
  BY <1>1 DEF InputFits
<1>6. Flow'
  <2>1. taint' # "stream" => taint = "none"
    BY <1>1 DEF TypeOK
  <2>2. AtAnswer => AtAnswer'
    BY <1>1 DEF AtAnswer
  <2> QED BY <1>1, <1>3, <2>1, <2>2 DEF Flow
<1>7. StoredUnlessTainted => StoredUnlessTainted'
  <2> HIDE DEF StoreMessage, environment
  <2> SUFFICES ASSUME StoredUnlessTainted, NEW i \in DOMAIN messages', ~messages'[i].tainted
               PROVE  \/ messages'[i].contents = <<>> /\ client_pc[messages'[i].by] = "left"
                      \/ \E k \in DOMAIN typed :
                           typed[k].by = messages'[i].by /\ messages'[i].contents = Whole(k)
    BY <1>1 DEF StoredUnlessTainted, Whole
  <2> DEFINE M == [by : Clients, contents : Seq(Symbols), tainted : BOOLEAN]
  <2>1. messages \in Seq(M) /\ Len(messages) \in Nat /\ DOMAIN messages = 1..Len(messages)
    BY LenProperties DEF Records
  <2>2. /\ DOMAIN messages' = 1..(Len(messages) + 1)
        /\ messages'[Len(messages) + 1] = Stored(contents)
        /\ \A j \in 1..Len(messages) : messages'[j] = messages[j]
    BY <1>2, <2>1
  <2>3. CASE i \in 1..Len(messages)
    <3>1. messages'[i] = messages[i] /\ i \in DOMAIN messages
      BY <2>1, <2>2, <2>3
    <3> QED BY <3>1 DEF StoredUnlessTainted
  <2>4. CASE i = Len(messages) + 1
    <3>1. messages'[i] = Stored(contents)
      BY <2>2, <2>4
    <3>2. messages'[i].by = current /\ messages'[i].contents = contents
      BY <3>1 DEF Stored
    <3>3. messages'[i].tainted = (taint # "none")
      BY <3>1 DEF Stored
    <3>4. taint = "none"
      BY <3>3, Zenon
    <3> QED BY <1>3, <3>2, <3>4
  <2> QED BY <2>1, <2>2, <2>3, <2>4
<1> QED BY <1>4, <1>5, <1>6, <1>7 DEF Order

\* Reading a request stores nothing; a reset empties the map.
LEMMA StoredGetRequest ==
  ASSUME TypeOK, Records, StoredUnlessTainted, GetRequest
  PROVE  StoredUnlessTainted'
<1>1. typed' = typed /\ messages' \in {messages, <<>>}
  BY DEF GetRequest, StartRequest, EndSession
<1>2. \A d \in Clients : client_pc[d] = "left" => client_pc'[d] = "left"
  BY DEF GetRequest, StartRequest, EndSession, TypeOK
<1>3. CASE messages' = messages
  BY <1>1, <1>2, <1>3, StoredStays
<1>4. CASE messages' = <<>>
  BY <1>4 DEF StoredUnlessTainted
<1> QED BY <1>1, <1>3, <1>4

\* send_response() empties cache_, and a request that leaves bytes there is
\* answered before the next one is awaited.
LEMMA CacheStep ==
  ASSUME TypeOK, Records, CacheBetweenRequests, [Next]_vars
  PROVE  CacheBetweenRequests'
<1>1. CASE UNCHANGED vars
  BY <1>1 DEF vars, environment, server, CacheBetweenRequests
<1>2. ASSUME NEW c \in Clients,
             \/ Connect(c)
             \/ \E lines \in 1..MaxLines : AskPut(c, lines)
             \/ \E header \in OtherHeaders : AskOther(c, header)
             \/ Leave(c)
      PROVE  CacheBetweenRequests'
  BY <1>2 DEF Connect, AskPut, AskOther, Leave, server, CacheBetweenRequests
<1>3. CASE Accept
  BY <1>3 DEF Accept, CacheBetweenRequests
<1>4. CASE GetRequest
  BY <1>4 DEF GetRequest, StartRequest, EndSession, CacheBetweenRequests
<1>5. CASE ClientIsDone
  BY <1>5 DEF ClientIsDone, EndSession, CacheBetweenRequests
<1>6. CASE ReceiveMessage \/ StoreMessage \/ SendResponse
  BY <1>6 DEF ReceiveMessage, StoreMessage, SendResponse, environment, CacheBetweenRequests
<1> QED BY <1>1, <1>2, <1>3, <1>4, <1>5, <1>6 DEF Next, ServerStep

-----------------------------------------------------------------------------
(* The invariant of the specification.                                     *)

LEMMA InitIInv == Init => IInv
<1> SUFFICES ASSUME Init PROVE IInv
  OBVIOUS
<1>1. TypeOK /\ Records
  BY TypeInit
<1>2. CacheBetweenRequests /\ InputFits /\ Flow /\ StoredUnlessTainted
  BY DEF Init, CacheBetweenRequests, InputFits, Flow, StoredUnlessTainted
<1>3. OthersOwe
  BY OwesNothing DEF Init, OthersOwe
<1> QED BY <1>1, <1>2, <1>3 DEF IInv

LEMMA StepIInv == IInv /\ [Next]_vars => IInv'
<1> SUFFICES ASSUME IInv, [Next]_vars PROVE IInv'
  OBVIOUS
<1>1. /\ TypeOK /\ Records /\ Order /\ CacheBetweenRequests /\ StoredUnlessTainted
  BY DEF IInv, Order
<1>2. TypeOK' /\ Records'
  BY <1>1, TypeStep
<1>3. CacheBetweenRequests'
  BY <1>1, CacheStep
<1> SUFFICES Order' /\ StoredUnlessTainted'
  BY <1>2, <1>3 DEF IInv, Order
<1>4. ASSUME messages' = messages, typed' = typed,
             \A c \in Clients : client_pc[c] = "left" => client_pc'[c] = "left"
      PROVE  StoredUnlessTainted'
  BY <1>1, <1>4, StoredStays
<1>5. ASSUME NEW c \in Clients, Connect(c) PROVE Order' /\ StoredUnlessTainted'
  <2>1. \A d \in Clients : client_pc[d] = "left" => client_pc'[d] = "left"
    BY <1>1, <1>5 DEF Connect, TypeOK
  <2>2. messages' = messages /\ typed' = typed
    BY <1>5 DEF Connect, server
  <2> QED BY <1>1, <1>4, <1>5, <2>1, <2>2, OrderConnect
<1>6. ASSUME NEW c \in Clients, NEW lines \in 1..MaxLines, AskPut(c, lines)
      PROVE  Order' /\ StoredUnlessTainted'
  BY <1>1, <1>6, OrderAskPut
<1>7. ASSUME NEW c \in Clients, NEW header \in OtherHeaders, AskOther(c, header)
      PROVE  Order' /\ StoredUnlessTainted'
  <2>1. \A d \in Clients : client_pc[d] = "left" => client_pc'[d] = "left"
    BY <1>1, <1>7 DEF AskOther, TypeOK
  <2>2. messages' = messages /\ typed' = typed
    BY <1>7 DEF AskOther, server
  <2> QED BY <1>1, <1>4, <1>7, <2>1, <2>2, OrderAskOther
<1>8. ASSUME NEW c \in Clients, Leave(c) PROVE Order' /\ StoredUnlessTainted'
  <2>1. \A d \in Clients : client_pc[d] = "left" => client_pc'[d] = "left"
    BY <1>1, <1>8 DEF Leave, TypeOK
  <2>2. messages' = messages /\ typed' = typed
    BY <1>8 DEF Leave, server
  <2> QED BY <1>1, <1>4, <1>8, <2>1, <2>2, OrderLeave
<1>9. CASE Accept
  <2>1. messages' = messages /\ typed' = typed /\ client_pc' = client_pc
    BY <1>9 DEF Accept
  <2> QED BY <1>1, <1>4, <1>9, <2>1, OrderAccept
<1>10. CASE GetRequest
  <2>1. StoredUnlessTainted'
    BY <1>1, <1>10, StoredGetRequest
  <2> QED BY <1>1, <1>10, <2>1, OrderGetRequest
<1>11. CASE ClientIsDone
  BY <1>1, <1>11, OrderClientIsDone
<1>12. CASE ReceiveMessage
  <2>1. messages' = messages /\ typed' = typed /\ client_pc' = client_pc
    BY <1>12 DEF ReceiveMessage
  <2> QED BY <1>1, <1>4, <1>12, <2>1, OrderReceiveMessage
<1>13. CASE StoreMessage
  BY <1>1, <1>13, OrderStoreMessage
<1>14. CASE SendResponse
  <2>1. \A d \in Clients : client_pc[d] = "left" => client_pc'[d] = "left"
    BY <1>1, <1>14 DEF SendResponse, TypeOK
  <2>2. messages' = messages /\ typed' = typed
    BY <1>14 DEF SendResponse
  <2> QED BY <1>1, <1>4, <1>14, <2>1, <2>2, OrderSendResponse
<1>15. CASE UNCHANGED vars
  <2> USE <1>15 DEF vars, environment, server
  <2>1. StoredUnlessTainted'
    BY <1>1 DEF StoredUnlessTainted, Whole
  <2>2. \A d \in Clients : Asks(d)' = Asks(d)
    BY DEF Asks, PutsOf, PutOf
  <2>3. (Asks(current))' = Asks(current) /\ (PutsOf(current))' = PutsOf(current)
    BY DEF Asks, PutsOf, PutOf
  <2>4. InputFits' /\ OthersOwe'
    BY <1>1, <2>2 DEF Order, InputFits, OthersOwe
  <2>5. Flow'
    BY <1>1, <2>3 DEF Order, Flow, AtRequest, AtMessage, AtAnswer, Stream
  <2> QED BY <2>1, <2>4, <2>5 DEF Order
<1> QED BY <1>5, <1>6, <1>7, <1>8, <1>9, <1>10, <1>11, <1>12, <1>13, <1>14, <1>15
    DEF Next, ServerStep

LEMMA InvariantIInv == Spec => []IInv
<1> QED BY InitIInv, StepIInv, PTL DEF Spec

\* The buffers of lab1's server hold whole symbols, and a session is open
\* exactly while it is past accept, for any clients and any number of puts.
THEOREM TypeCorrect == Spec => []TypeOK
<1>1. IInv => TypeOK
  BY DEF IInv
<1> QED BY <1>1, InvariantIInv, PTL

\* What server.cc leaves in cache_ reaches no later request, except what an
\* earlier session left that ended on an empty line.
THEOREM CacheIsEmptyBetween == Spec => []CacheBetweenRequests
<1>1. IInv => CacheBetweenRequests
  BY DEF IInv
<1> QED BY <1>1, InvariantIInv, PTL

\* However recv() splits the stream and whenever clients leave, a message is
\* stored under the client that put it as it was typed, or empty when the
\* client left, unless bytes of an earlier session were read with it.
THEOREM MessagesAsTyped == Spec => []StoredUnlessTainted
<1>1. IInv => StoredUnlessTainted
  BY DEF IInv
<1> QED BY <1>1, InvariantIInv, PTL

\* The server answers nobody who has not asked, and nothing twice, unless bytes
\* of an earlier session were read in this one.
THEOREM AnswersOnlyAsked == Spec => []AnswersAreAsked
<1>1. IInv => AnswersAreAsked
  BY DEF IInv, Flow, AtAnswer, AnswersAreAsked
<1> QED BY <1>1, InvariantIInv, PTL
=============================================================================
