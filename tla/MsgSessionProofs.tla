-------------------------- MODULE MsgSessionProofs --------------------------
(***************************************************************************)
(* Proofs about MsgSession for any number of commands and any lengths of   *)
(* the messages: while the client reads every answer to its end, messages  *)
(* are stored as they were typed and the client shows what it asked for.   *)
(***************************************************************************)
EXTENDS MsgSession, WireProofs

-----------------------------------------------------------------------------
(* What is written on the connection.                                      *)

LEMMA Buffers ==
  ASSUME TypeOK
  PROVE  /\ up \in Seq(Symbols) /\ down \in Seq(Symbols)
         /\ client_out \in Seq(Symbols) /\ client_in \in Seq(Symbols)
         /\ client_cache \in Seq(Symbols) /\ handler_out \in Seq(Symbols)
         /\ handler_in \in Seq(Symbols) /\ handler_cache \in Seq(Symbols)
BY DEF TypeOK

LEMMA MaxOfLengths ==
  ASSUME NEW n \in Nat, NEW T, T \subseteq 0..n, T # {}
  PROVE  Max(T) \in T /\ \A y \in T : y <= Max(T)
<1> DEFINE D == {n - x : x \in T}
<1>1. D # {} /\ D \subseteq Nat
  OBVIOUS
<1>2. PICK d \in D : \A e \in D : ~ (<<e, d>> \in OpToRel(<, Nat))
  BY <1>1, WFMin, NatLessThanWellFounded
<1>3. \A e \in D : ~(e < d)
  BY <1>1, <1>2 DEF OpToRel
<1>4. PICK x \in T : d = n - x
  BY <1>2
<1>5. \A y \in T : x >= y
  <2> SUFFICES ASSUME NEW y \in T, ~(x >= y) PROVE FALSE
    OBVIOUS
  <2>1. n - y \in D /\ n - y < n - x
    OBVIOUS
  <2> QED BY <1>3, <1>4, <2>1
<1>6. Max(T) \in T /\ \A y \in T : Max(T) >= y
  BY <1>5 DEF Max
<1> QED BY <1>6

\* receive_list() takes its lines from the beginning of the cache.
LEMMA LinesInCache ==
  ASSUME NEW cache \in Seq(Symbols)
  PROVE  CompleteLines(cache) \in Seq(Symbols)
<1> DEFINE ends == {i \in DOMAIN cache : cache[i] = NL}
           empty == {i \in ends : i = 1 \/ i - 1 \in ends}
           complete == {i \in ends : \A j \in empty : i < j}
           last == Max(complete \cup {0})
<1>1. complete \cup {0} \subseteq 0..Len(cache) /\ Len(cache) \in Nat
  <2>1. DOMAIN cache = 1..Len(cache) /\ Len(cache) \in Nat
    BY LenProperties
  <2> QED BY <2>1
<1> HIDE DEF complete
<1>2. last \in 0..Len(cache)
  BY <1>1, MaxOfLengths
<1> HIDE DEF last
<1>3. SubSeq(cache, 1, last) \in Seq(Symbols)
  BY <1>2, RecvParts
<1>4. WithoutLastNewline(SubSeq(cache, 1, last)) \in Seq(Symbols)
  BY <1>3, StrippedEnd
<1> QED BY <1>4 DEF CompleteLines, last, complete

LEMMA ListBytesAre ==
  ASSUME NEW n \in Nat
  PROVE  /\ ListBytes(n) \in Seq(Symbols) /\ Len(ListBytes(n)) = 2 * n
         /\ \A i \in 1..(2 * n) :
              ListBytes(n)[i] = IF i % 2 = 1 THEN ListLine((i + 1) \div 2) ELSE NL
<1>1. \A i \in 1..(2 * n) : (i + 1) \div 2 \in Nat
  OBVIOUS
<1>2. NL \in Symbols /\ \A m \in Nat : ListLine(m) \in Symbols
  BY DEF Symbols, ListLine
<1>3. ListBytes(n) \in [1..(2 * n) -> Symbols]
  BY <1>1, <1>2 DEF ListBytes
<1>4. ListBytes(n) \in Seq(Symbols) /\ Len(ListBytes(n)) = 2 * n
  <2>1. 2 * n \in Nat
    OBVIOUS
  <2> QED BY <1>3, <2>1, IsASeq, LenProperties
<1> QED BY <1>4 DEF ListBytes

\* A request is a header, a newline, and for a put the message; an answer is a
\* header, a newline, and for a list or a message its text.
RequestHeader(c) ==
  CASE c.cmd = "send" -> PutHeader(2 * c.lines)
    [] c.cmd = "list" -> ListHeader
    [] c.cmd = "read" -> GetHeader(c.index)
    [] c.cmd = "reset" -> ResetHeader
RequestText(k, c) == IF c.cmd = "send" THEN Body(k, c.lines) ELSE <<>>

ReplyHeader(r) ==
  CASE r.kind = "OK" -> OkHeader
    [] r.kind = "list" -> NumberHeader(Len(r.text))
    [] r.kind = "message" -> MessageHeader(Len(r.text))
    [] OTHER -> ErrorHeader
ReplyText(r) ==
  CASE r.kind = "list" -> ListBytes(Len(r.text))
    [] r.kind = "message" -> r.text
    [] OTHER -> <<>>

LEMMA CommandCases ==
  ASSUME NEW c \in Commands
  PROVE  \/ c.cmd = "send" /\ c.lines \in Nat
         \/ c.cmd = "list"
         \/ c.cmd = "read" /\ c.index \in Nat
         \/ c.cmd = "reset"
<1>1. CASE c \in [cmd : {"send"}, lines : LineCounts]
  BY <1>1, BoundsAssumption
<1>2. CASE c \in [cmd : {"list", "reset"}]
  BY <1>2
<1>3. CASE c \in [cmd : {"read"}, index : 1..MaxCommands]
  <2>1. c.cmd = "read" /\ c.index \in 1..MaxCommands
    BY <1>3
  <2> QED BY <2>1, BoundsAssumption
<1> QED BY <1>1, <1>2, <1>3 DEF Commands

LEMMA RequestIsFramed ==
  ASSUME NEW k \in Nat, NEW c \in Commands
  PROVE  /\ RequestHeader(c) \in Symbols /\ RequestHeader(c) # NL
         /\ RequestText(k, c) \in Seq(Symbols)
         /\ RequestBytes(k, c) = <<RequestHeader(c), NL>> \o RequestText(k, c)
<1>1. CASE c.cmd = "send" /\ c.lines \in Nat
  <2>1. 2 * c.lines \in Nat
    BY <1>1
  <2>2. RequestHeader(c) = PutHeader(2 * c.lines) /\ RequestText(k, c) = Body(k, c.lines)
    BY <1>1 DEF RequestHeader, RequestText
  <2>3. RequestBytes(k, c) = <<PutHeader(2 * c.lines), NL>> \o Body(k, c.lines)
    BY <1>1 DEF RequestBytes
  <2> QED BY <1>1, <2>1, <2>2, <2>3, HeaderSymbols, BodyBytes
<1>2. ASSUME NEW h \in Symbols, h # NL, RequestHeader(c) = h, RequestText(k, c) = <<>>,
             RequestBytes(k, c) = <<h, NL>>
      PROVE  /\ RequestHeader(c) \in Symbols /\ RequestHeader(c) # NL
             /\ RequestText(k, c) \in Seq(Symbols)
             /\ RequestBytes(k, c) = <<RequestHeader(c), NL>> \o RequestText(k, c)
  <2> DEFINE p == <<h, NL>>
  <2>1. NL \in Symbols
    BY HeaderSymbols
  <2>2. p \in Seq(Symbols)
    BY <2>1
  <2> HIDE DEF p
  <2>3. p \o <<>> = p
    BY <2>2, ConcatEmptySeq
  <2> QED BY <1>2, <2>3, EmptySeq DEF p
<1>3. CASE c.cmd = "list"
  <2>1. ListHeader \in Symbols /\ ListHeader # NL
    BY DEF Symbols, ListHeader, NL
  <2>2. /\ RequestHeader(c) = ListHeader /\ RequestText(k, c) = <<>>
        /\ RequestBytes(k, c) = <<ListHeader, NL>>
    BY <1>3 DEF RequestHeader, RequestText, RequestBytes
  <2> QED BY <1>2, <2>1, <2>2
<1>4. CASE c.cmd = "read" /\ c.index \in Nat
  <2>1. GetHeader(c.index) \in [sym : {"get"}, index : Nat]
    BY <1>4 DEF GetHeader
  <2>2. GetHeader(c.index).sym = "get" /\ NL.sym = "newline"
    BY DEF GetHeader, NL
  <2>3. GetHeader(c.index) \in Symbols /\ GetHeader(c.index) # NL
    BY <2>1, <2>2 DEF Symbols
  <2>4. /\ RequestHeader(c) = GetHeader(c.index) /\ RequestText(k, c) = <<>>
        /\ RequestBytes(k, c) = <<GetHeader(c.index), NL>>
    BY <1>4 DEF RequestHeader, RequestText, RequestBytes
  <2> QED BY <1>2, <2>3, <2>4
<1>5. CASE c.cmd = "reset"
  <2>1. ResetHeader \in Symbols /\ ResetHeader # NL
    BY DEF Symbols, ResetHeader, NL
  <2>2. /\ RequestHeader(c) = ResetHeader /\ RequestText(k, c) = <<>>
        /\ RequestBytes(k, c) = <<ResetHeader, NL>>
    BY <1>5 DEF RequestHeader, RequestText, RequestBytes
  <2> QED BY <1>2, <2>1, <2>2
<1> QED BY <1>1, <1>3, <1>4, <1>5, CommandCases

\* Which header was read tells which command was typed.
LEMMA PutHeaderMeansSend ==
  ASSUME NEW c \in Commands
  PROVE  /\ RequestHeader(c).sym = "put" <=> c.cmd = "send"
         /\ c.cmd = "send" => c.lines \in Nat /\ RequestHeader(c).length = 2 * c.lines
<1>1. CASE c.cmd = "send" /\ c.lines \in Nat
  <2>1. RequestHeader(c) = PutHeader(2 * c.lines)
    BY <1>1 DEF RequestHeader
  <2> QED BY <1>1, <2>1 DEF PutHeader
<1>2. CASE c.cmd = "list"
  BY <1>2 DEF RequestHeader, ListHeader
<1>3. CASE c.cmd = "read" /\ c.index \in Nat
  BY <1>3 DEF RequestHeader, GetHeader
<1>4. CASE c.cmd = "reset"
  BY <1>4 DEF RequestHeader, ResetHeader
<1> QED BY <1>1, <1>2, <1>3, <1>4, CommandCases

Replies == [kind : Kinds, text : Seq(Symbols)]

LEMMA ReplyIsFramed ==
  ASSUME NEW r \in Replies
  PROVE  /\ ReplyHeader(r) \in Symbols /\ ReplyHeader(r) # NL
         /\ ReplyText(r) \in Seq(Symbols)
         /\ ReplyBytes(r) = <<ReplyHeader(r), NL>> \o ReplyText(r)
<1>1. r.text \in Seq(Symbols) /\ Len(r.text) \in Nat
  <2>1. r.text \in Seq(Symbols)
    BY DEF Replies
  <2> QED BY <2>1, LenProperties
<1>2. ASSUME NEW h \in Symbols, h # NL, ReplyHeader(r) = h, ReplyText(r) = <<>>,
             ReplyBytes(r) = <<h, NL>>
      PROVE  /\ ReplyHeader(r) \in Symbols /\ ReplyHeader(r) # NL
             /\ ReplyText(r) \in Seq(Symbols)
             /\ ReplyBytes(r) = <<ReplyHeader(r), NL>> \o ReplyText(r)
  <2> DEFINE p == <<h, NL>>
  <2>1. NL \in Symbols
    BY HeaderSymbols
  <2>2. p \in Seq(Symbols)
    BY <2>1
  <2> HIDE DEF p
  <2>3. p \o <<>> = p
    BY <2>2, ConcatEmptySeq
  <2> QED BY <1>2, <2>3, EmptySeq DEF p
<1>3. CASE r.kind = "OK"
  <2>1. OkHeader \in Symbols /\ OkHeader # NL
    BY DEF Symbols, OkHeader, NL
  <2>2. ReplyHeader(r) = OkHeader /\ ReplyText(r) = <<>> /\ ReplyBytes(r) = <<OkHeader, NL>>
    BY <1>3 DEF ReplyHeader, ReplyText, ReplyBytes
  <2> QED BY <1>2, <2>1, <2>2
<1>4. CASE r.kind = "list"
  <2>1. NumberHeader(Len(r.text)) \in [sym : {"list line", "list of"}, number : Nat]
    BY <1>1 DEF NumberHeader
  <2>2. NumberHeader(Len(r.text)).sym = "list of" /\ NL.sym = "newline"
    BY DEF NumberHeader, NL
  <2>3. NumberHeader(Len(r.text)) \in Symbols /\ NumberHeader(Len(r.text)) # NL
    BY <2>1, <2>2 DEF Symbols
  <2>4. /\ ReplyHeader(r) = NumberHeader(Len(r.text)) /\ ReplyText(r) = ListBytes(Len(r.text))
        /\ ReplyBytes(r) = <<NumberHeader(Len(r.text)), NL>> \o ListBytes(Len(r.text))
    BY <1>4 DEF ReplyHeader, ReplyText, ReplyBytes
  <2> QED BY <1>1, <2>3, <2>4, ListBytesAre
<1>5. CASE r.kind = "message"
  <2>1. MessageHeader(Len(r.text)) \in [sym : {"put", "message"}, length : Nat]
    BY <1>1 DEF MessageHeader
  <2>2. MessageHeader(Len(r.text)).sym = "message" /\ NL.sym = "newline"
    BY DEF MessageHeader, NL
  <2>3. MessageHeader(Len(r.text)) \in Symbols /\ MessageHeader(Len(r.text)) # NL
    BY <2>1, <2>2 DEF Symbols
  <2>4. /\ ReplyHeader(r) = MessageHeader(Len(r.text)) /\ ReplyText(r) = r.text
        /\ ReplyBytes(r) = <<MessageHeader(Len(r.text)), NL>> \o r.text
    BY <1>5 DEF ReplyHeader, ReplyText, ReplyBytes
  <2> QED BY <1>1, <2>3, <2>4
<1>6. CASE r.kind \notin {"OK", "list", "message"}
  <2>1. ErrorHeader \in Symbols /\ ErrorHeader # NL
    BY DEF Symbols, ErrorHeader, NL
  <2>2. ReplyHeader(r) = ErrorHeader /\ ReplyText(r) = <<>> /\ ReplyBytes(r) = <<ErrorHeader, NL>>
    BY <1>6 DEF ReplyHeader, ReplyText, ReplyBytes
  <2> QED BY <1>2, <2>1, <2>2
<1> QED BY <1>3, <1>4, <1>5, <1>6

LEMMA ReplyIsWritten ==
  ASSUME NEW r \in Replies
  PROVE  ReplyBytes(r) \in Seq(Symbols) /\ ReplyBytes(r) # <<>>
<1> DEFINE h == ReplyHeader(r)
           s == ReplyText(r)
           f == <<h, NL>> \o s
<1>1. h \in Symbols /\ s \in Seq(Symbols) /\ ReplyBytes(r) = f
  BY ReplyIsFramed
<1> HIDE DEF h, s
<1>2. f \in Seq(Symbols) /\ Len(f) = Len(s) + 2 /\ Len(s) \in Nat
  BY <1>1, FramedBytes, LenProperties
<1> HIDE DEF f
<1>3. Len(f) # 0
  BY <1>2
<1> QED BY <1>1, <1>2, <1>3, EmptySeq

-----------------------------------------------------------------------------
(* The types of the variables.                                             *)

LEMMA TypeInit == Init => TypeOK
<1> SUFFICES ASSUME Init PROVE TypeOK
  OBVIOUS
<1>1. <<>> \in Seq(Symbols) /\ <<>> \in Seq(Seq(Symbols)) /\ <<>> \in Seq(Commands)
  BY EmptySeq
<1>2. {shown, reply} \subseteq [kind : Kinds, text : Seq(Symbols)]
  BY <1>1 DEF Init, Nothing, Kinds
<1>3. \A s \in {up, down, client_out, client_in, client_cache, handler_out,
               handler_in, handler_cache} : s \in Seq(Symbols)
  BY <1>1 DEF Init
<1> QED BY <1>1, <1>2, <1>3 DEF Init, TypeOK

LEMMA TypeCommand ==
  ASSUME TypeOK, NEW c \in Commands, Command(c)
  PROVE  TypeOK'
<1> USE DEF Command, wires, handler
<1>1. /\ commands' \in Seq(Commands) /\ Len(commands') \in Nat
  BY AppendProperties, LenProperties DEF TypeOK
<1>2. client_out' \in Seq(Symbols)
  <2> DEFINE k == Len(commands')
  <2>1. client_out' = RequestBytes(k, c)
    OBVIOUS
  <2> HIDE DEF k
  <2>2. k \in Nat
    BY <1>1 DEF k
  <2> DEFINE h == RequestHeader(c)
             s == RequestText(k, c)
  <2>3. h \in Symbols /\ s \in Seq(Symbols) /\ RequestBytes(k, c) = <<h, NL>> \o s
    BY <2>2, RequestIsFramed
  <2> HIDE DEF h, s
  <2>4. <<h, NL>> \o s \in Seq(Symbols)
    BY <2>3, FramedBytes
  <2> QED BY <2>1, <2>3, <2>4
<1>3. shown' \in Replies
  BY EmptySeq DEF Nothing, Replies, Kinds
<1> QED BY <1>1, <1>2, <1>3, EmptySeq DEF TypeOK, Replies

LEMMA TypeExit ==
  ASSUME TypeOK, Exit
  PROVE  TypeOK'
<1> USE DEF Exit, handler
<1>1. PICK n \in 0..Len(up) : up' = SubSeq(up, 1, n)
  OBVIOUS
<1>2. up' \in Seq(Symbols)
  BY <1>1, Buffers, RecvParts
<1> QED BY <1>2, EmptySeq DEF TypeOK

LEMMA TypeSendRequest ==
  ASSUME TypeOK, SendRequest \/ SendRequestFails
  PROVE  TypeOK'
<1>1. CASE SendRequest
  <2> USE <1>1 DEF SendRequest, handler
  <2>1. PICK n \in 1..Len(client_out) :
          /\ up' = up \o SubSeq(client_out, 1, n)
          /\ client_out' = SubSeq(client_out, n + 1, Len(client_out))
    OBVIOUS
  <2>2. n \in 0..Len(client_out)
    BY Buffers, LenProperties
  <2>3. up' \in Seq(Symbols) /\ client_out' \in Seq(Symbols)
    BY <2>1, <2>2, Buffers, RecvMoves, RecvParts
  <2> QED BY <2>3 DEF TypeOK
<1>2. CASE SendRequestFails
  BY <1>2, EmptySeq DEF SendRequestFails, wires, handler, TypeOK
<1> QED BY <1>1, <1>2

LEMMA FormatType ==
  ASSUME NEW line \in Seq(Symbols), NEW cache \in Seq(Symbols), cache # <<>>
  PROVE  Format(line, cache) \in Replies
<1>1. {Failure, Ok} \subseteq Replies
  BY EmptySeq DEF Failure, Ok, Replies, Kinds
<1>2. CompleteLines(Tail(cache)) \in Seq(Symbols)
  <2>1. Tail(cache) \in Seq(Symbols)
    BY HeadTailProperties
  <2> QED BY <2>1, LinesInCache
<1>3. [kind |-> "list", text |-> CompleteLines(Tail(cache))] \in Replies
  BY <1>2 DEF Replies, Kinds
<1> QED BY <1>1, <1>3 DEF Format

LEMMA FirstOfLine ==
  ASSUME NEW line \in Seq(Symbols), Len(line) = 1
  PROVE  line[1] \in Symbols
<1>1. 1 \in 1..Len(line)
  OBVIOUS
<1> QED BY <1>1, ElementOfSeq

\* What recv returns is some of the bytes in flight.
LEMMA RecvSome ==
  ASSUME NEW s \in Seq(Symbols), NEW u \in Seq(Symbols), NEW n \in 1..Len(u)
  PROVE  /\ s \o SubSeq(u, 1, n) \in Seq(Symbols)
         /\ SubSeq(u, n + 1, Len(u)) \in Seq(Symbols)
         /\ (s \o SubSeq(u, 1, n)) \o SubSeq(u, n + 1, Len(u)) = s \o u
         /\ s \o SubSeq(u, 1, n) # <<>>
<1> DEFINE v == SubSeq(u, 1, n)
           a == s \o v
<1>1. n \in 0..Len(u) /\ Len(u) \in Nat /\ Len(s) \in Nat
  BY LenProperties
<1>2. v \in Seq(Symbols) /\ Len(v) = n /\ SubSeq(u, n + 1, Len(u)) \in Seq(Symbols)
  BY <1>1, RecvParts
<1>3. a \in Seq(Symbols) /\ a \o SubSeq(u, n + 1, Len(u)) = s \o u
  BY <1>1, RecvMoves
<1> HIDE DEF v
<1>4. Len(a) = Len(s) + Len(v)
  BY <1>2, ConcatProperties
<1> HIDE DEF a
<1>5. Len(a) # 0
  BY <1>1, <1>2, <1>4
<1> QED BY <1>2, <1>3, <1>5, EmptySeq DEF a, v

\* A line that was read, and the cache after it.
LEMMA LineAndCache ==
  ASSUME NEW a \in Seq(Symbols), NEW cache \in Seq(Symbols), HasNewline(a)
  PROVE  /\ LineOf(a) \in Seq(Symbols) /\ RestOf(a) \in Seq(Symbols)
         /\ cache \o RestOf(a) \in Seq(Symbols) /\ cache \o RestOf(a) # <<>>
<1> DEFINE b == RestOf(a)
           w == cache \o b
<1>1. /\ LineOf(a) \in Seq(Symbols) /\ b \in Seq(Symbols)
      /\ Len(b) = Len(a) - FirstNewline(a) + 1 /\ FirstNewline(a) \in 1..Len(a)
  BY LineAndRest, FirstNewlineIsFirst
<1>2. Len(a) \in Nat /\ Len(cache) \in Nat
  BY LenProperties
<1>3. Len(b) >= 1
  BY <1>1, <1>2
<1> HIDE DEF b
<1>4. w \in Seq(Symbols) /\ Len(w) = Len(cache) + Len(b)
  BY <1>1, ConcatProperties
<1> HIDE DEF w
<1>5. Len(w) # 0
  BY <1>2, <1>3, <1>4
<1> QED BY <1>1, <1>4, <1>5, EmptySeq DEF w, b

LEMMA TypeGetResponse ==
  ASSUME TypeOK, GetResponse
  PROVE  TypeOK'
<1> USE DEF handler
<1>1. client_pc = "get_response" /\ UNCHANGED <<up, client_out, commands, behind, handler>>
  BY DEF GetResponse
<1> DEFINE response(n) == client_in \o SubSeq(down, 1, n)
           rest(n) == SubSeq(down, n + 1, Len(down))
           cache(n) == client_cache \o RestOf(response(n))
<1>2. PICK n \in 1..Len(down) :
        /\ down' = rest(n)
        /\ IF ~HasNewline(response(n))
           THEN /\ client_in' = response(n)
                /\ UNCHANGED <<client_pc, client_cache, length, shown>>
           ELSE /\ client_cache' = cache(n)
                /\ IF IsMessage(LineOf(response(n)))
                   THEN /\ client_pc' = "receive_message"
                        /\ client_in' = cache(n)
                        /\ length' = LineOf(response(n))[1].length
                        /\ UNCHANGED shown
                   ELSE /\ client_pc' = "prompt"
                        /\ client_in' = <<>>
                        /\ shown' = Format(LineOf(response(n)), cache(n))
                        /\ UNCHANGED length
  BY DEF GetResponse
<1>3. /\ response(n) \in Seq(Symbols) /\ rest(n) \in Seq(Symbols)
      /\ HasNewline(response(n)) =>
           /\ LineOf(response(n)) \in Seq(Symbols)
           /\ cache(n) \in Seq(Symbols) /\ cache(n) # <<>>
  <2>1. client_in \in Seq(Symbols) /\ down \in Seq(Symbols) /\ client_cache \in Seq(Symbols)
    BY Buffers
  <2>2. response(n) \in Seq(Symbols) /\ rest(n) \in Seq(Symbols)
    BY <2>1, RecvSome
  <2> HIDE DEF response
  <2> QED BY <2>1, <2>2, LineAndCache
<1> HIDE DEF response, rest, cache
<1>4. CASE ~HasNewline(response(n))
  BY <1>1, <1>2, <1>3, <1>4 DEF TypeOK
<1>5. CASE HasNewline(response(n)) /\ IsMessage(LineOf(response(n)))
  <2>1. LineOf(response(n))[1] \in Symbols /\ LineOf(response(n))[1].sym = "message"
    BY <1>3, <1>5, FirstOfLine DEF IsMessage
  <2>2. LineOf(response(n))[1].length \in Nat
    BY <2>1, SymbolFields
  <2> QED BY <1>1, <1>2, <1>3, <1>5, <2>2 DEF TypeOK
<1>6. CASE HasNewline(response(n)) /\ ~IsMessage(LineOf(response(n)))
  <2>1. shown' \in Replies
    BY <1>2, <1>3, <1>6, FormatType
  <2> QED BY <1>1, <1>2, <1>3, <1>6, <2>1, EmptySeq DEF TypeOK, Replies
<1> QED BY <1>4, <1>5, <1>6

LEMMA TypeReceiveMore ==
  ASSUME TypeOK, ReceiveMore
  PROVE  TypeOK'
<1> USE DEF ReceiveMore, handler
<1>1. PICK n \in 1..Len(down) :
        /\ client_in' = client_in \o SubSeq(down, 1, n)
        /\ down' = SubSeq(down, n + 1, Len(down))
  OBVIOUS
<1>2. client_in' \in Seq(Symbols) /\ down' \in Seq(Symbols)
  BY <1>1, Buffers, RecvSome
<1> QED BY <1>2 DEF TypeOK

LEMMA TypeShowMessage ==
  ASSUME TypeOK, ShowMessage
  PROVE  TypeOK'
<1> USE DEF ShowMessage, wires, handler
<1>1. StripMessage(client_in) \in Seq(Symbols)
  BY Buffers, StrippedBytes
<1>2. shown' \in Replies
  BY <1>1 DEF Replies, Kinds
<1> QED BY <1>2, EmptySeq DEF TypeOK, Replies

LEMMA TypeServerIsGone ==
  ASSUME TypeOK, ServerIsGone
  PROVE  TypeOK'
<1> USE DEF ServerIsGone, handler
<1>1. shown' \in Replies
  BY EmptySeq DEF Closed, Replies, Kinds
<1> QED BY <1>1, EmptySeq DEF TypeOK, Replies

\* What handle_request() may leave in the handler's variables.
HandlerTypes ==
  /\ handler_out \in Seq(Symbols) /\ handler_in \in Seq(Symbols)
  /\ handler_cache \in Seq(Symbols) /\ put_length \in Nat
  /\ handler_pc \in {"get_request", "receive_message", "send_response", "returned"}
  /\ messages \in Seq(Seq(Symbols)) /\ reply \in Replies

LEMMA AnswerTypes ==
  ASSUME TypeOK, NEW r \in Replies, Answer(r), put_length' = put_length,
         messages' \in Seq(Seq(Symbols))
  PROVE  HandlerTypes'
BY ReplyIsWritten, EmptySeq DEF TypeOK, Answer, HandlerTypes

LEMMA RepliesAre ==
  ASSUME TypeOK
  PROVE  {Nothing, Failure, Ok, ListReply} \cup {GetReply(i) : i \in Nat} \subseteq Replies
<1>1. {Nothing, Failure, Ok} \subseteq Replies
  BY EmptySeq DEF Nothing, Failure, Ok, Replies, Kinds
<1>2. messages \in Seq(Seq(Symbols)) /\ Len(messages) \in Nat
      /\ DOMAIN messages = 1..Len(messages)
  BY LenProperties DEF TypeOK
<1>3. ListReply \in Replies
  <2> DEFINE f == [i \in 1..Len(messages) |-> ListLine(i)]
  <2>1. \A i \in Nat : ListLine(i) \in Symbols
    BY DEF ListLine, Symbols
  <2>2. f \in [1..Len(messages) -> Symbols]
    BY <2>1
  <2>3. f \in Seq(Symbols)
    BY <1>2, <2>2, IsASeq
  <2> HIDE DEF f
  <2> QED BY <2>3 DEF ListReply, f, Replies, Kinds
<1>4. ASSUME NEW i \in Nat PROVE GetReply(i) \in Replies
  <2>1. CASE i \in DOMAIN messages
    <3>1. messages[i] \in Seq(Symbols)
      BY <1>2, <2>1, ElementOfSeq
    <3> QED BY <2>1, <3>1 DEF GetReply, Replies, Kinds
  <2>2. CASE i \notin DOMAIN messages
    BY <1>1, <2>2 DEF GetReply
  <2> QED BY <2>1, <2>2
<1> QED BY <1>1, <1>3, <1>4

LEMMA TypeHandleRequest ==
  ASSUME TypeOK, NEW line \in Seq(Symbols), NEW cache \in Seq(Symbols),
         HandleRequest(line, cache)
  PROVE  HandlerTypes'
<1>1. messages \in Seq(Seq(Symbols)) /\ <<>> \in Seq(Seq(Symbols))
  BY EmptySeq DEF TypeOK
<1>2. ASSUME NEW r \in Replies, Answer(r), put_length' = put_length,
             messages' \in {messages, <<>>}
      PROVE  HandlerTypes'
  BY <1>1, <1>2, AnswerTypes
<1>3. CASE Len(line) # 1
  BY <1>2, <1>3, RepliesAre DEF HandleRequest
<1>4. CASE Len(line) = 1
  <2>1. line[1] \in Symbols
    BY <1>4, FirstOfLine
  <2>2. CASE line[1].sym = "put" /\ line[1].length # 0 /\ handler_pc' = "receive_message"
    <3>1. line[1].length \in Nat
      BY <2>1, <2>2, SymbolFields
    <3>2. /\ put_length' = line[1].length
          /\ handler_in' = cache
          /\ handler_cache' = cache
          /\ UNCHANGED <<handler_out, messages, reply>>
      BY <1>4, <2>2 DEF HandleRequest, Answer
    <3> QED BY <2>2, <3>1, <3>2 DEF TypeOK, HandlerTypes, Replies
  <2>3. CASE line[1].sym = "get" /\ Answer(GetReply(line[1].index))
             /\ UNCHANGED <<put_length, messages>>
    <3>1. line[1].index \in Nat
      BY <2>1, <2>3, SymbolFields
    <3> QED BY <1>2, <2>3, <3>1, RepliesAre
  <2>4. CASE Answer(ListReply) /\ UNCHANGED <<put_length, messages>>
    BY <1>2, <2>4, RepliesAre
  <2>5. CASE Answer(Failure) /\ UNCHANGED <<put_length, messages>>
    BY <1>2, <2>5, RepliesAre
  <2>6. CASE Answer(Ok) /\ messages' = <<>> /\ UNCHANGED put_length
    BY <1>2, <2>6, RepliesAre
  <2> QED BY <1>4, <2>2, <2>3, <2>4, <2>5, <2>6 DEF HandleRequest
<1> QED BY <1>3, <1>4

LEMMA ReturnTypes ==
  ASSUME TypeOK, NEW cache \in Seq(Symbols), HandlerReturns(cache)
  PROVE  HandlerTypes'
BY EmptySeq DEF TypeOK, HandlerReturns, HandlerTypes, Replies

LEMMA HandlerTypesSuffice ==
  ASSUME TypeOK, HandlerTypes', up' \in Seq(Symbols), down' \in Seq(Symbols),
         alive' \in BOOLEAN, UNCHANGED client
  PROVE  TypeOK'
BY DEF TypeOK, HandlerTypes, client, Replies

LEMMA TypeGetRequest ==
  ASSUME TypeOK, GetRequest
  PROVE  TypeOK'
<1>1. UNCHANGED <<down, client, alive>>
  BY DEF GetRequest
<1> DEFINE request(n) == handler_in \o SubSeq(up, 1, n)
           rest(n) == SubSeq(up, n + 1, Len(up))
           cache(n) == handler_cache \o RestOf(request(n))
<1>2. PICK n \in 1..Len(up) :
        /\ up' = rest(n)
        /\ IF ~HasNewline(request(n))
           THEN /\ handler_in' = request(n)
                /\ UNCHANGED <<handler_pc, handler_out, handler_cache,
                               put_length, messages, reply>>
           ELSE IF LineOf(request(n)) = <<>> THEN HandlerReturns(cache(n))
                ELSE HandleRequest(LineOf(request(n)), cache(n))
  BY DEF GetRequest
<1>3. /\ request(n) \in Seq(Symbols) /\ rest(n) \in Seq(Symbols)
      /\ HasNewline(request(n)) =>
           LineOf(request(n)) \in Seq(Symbols) /\ cache(n) \in Seq(Symbols)
  <2>1. request(n) \in Seq(Symbols) /\ rest(n) \in Seq(Symbols)
    BY Buffers, RecvSome
  <2>2. handler_cache \in Seq(Symbols)
    BY Buffers
  <2> HIDE DEF request
  <2> QED BY <2>1, <2>2, LineAndCache
<1> HIDE DEF request, rest, cache
<1>4. HandlerTypes'
  <2>1. CASE ~HasNewline(request(n))
    BY <1>2, <1>3, <2>1 DEF TypeOK, HandlerTypes, Replies
  <2>2. CASE HasNewline(request(n))
    BY <1>2, <1>3, <2>2, ReturnTypes, TypeHandleRequest
  <2> QED BY <2>1, <2>2
<1> QED BY <1>1, <1>2, <1>3, <1>4, HandlerTypesSuffice DEF TypeOK

LEMMA TypeReceiveMessage ==
  ASSUME TypeOK, ReceiveMessage
  PROVE  TypeOK'
<1> USE DEF ReceiveMessage, client
<1>1. PICK n \in 1..Len(up) :
        /\ handler_in' = handler_in \o SubSeq(up, 1, n)
        /\ up' = SubSeq(up, n + 1, Len(up))
  OBVIOUS
<1>2. handler_in' \in Seq(Symbols) /\ up' \in Seq(Symbols)
  BY <1>1, Buffers, RecvSome
<1> QED BY <1>2 DEF TypeOK

LEMMA TypeStoreMessage ==
  ASSUME TypeOK, StoreMessage
  PROVE  TypeOK'
<1>1. UNCHANGED <<wires, client, put_length, alive>> /\ Answer(Ok)
  BY DEF StoreMessage
<1>2. PICK contents \in {StripMessage(handler_in), <<>>} : messages' = Append(messages, contents)
  BY DEF StoreMessage
<1>3. contents \in Seq(Symbols)
  BY Buffers, StrippedBytes, EmptySeq
<1>4. messages' \in Seq(Seq(Symbols))
  BY <1>2, <1>3, AppendProperties DEF TypeOK
<1>5. HandlerTypes'
  BY <1>1, <1>4, AnswerTypes, RepliesAre
<1> QED BY <1>1, <1>5, HandlerTypesSuffice DEF TypeOK, wires

LEMMA TypeSendResponse ==
  ASSUME TypeOK, SendResponse \/ SendResponseFails \/ OtherWorkerKills
  PROVE  TypeOK'
<1>1. CASE SendResponse
  <2> USE <1>1 DEF SendResponse, client
  <2>1. PICK n \in 1..Len(handler_out) :
          /\ down' = down \o SubSeq(handler_out, 1, n)
          /\ handler_out' = SubSeq(handler_out, n + 1, Len(handler_out))
    OBVIOUS
  <2>2. down' \in Seq(Symbols) /\ handler_out' \in Seq(Symbols)
    BY <2>1, Buffers, RecvSome
  <2> QED BY <2>2 DEF TypeOK
<1>2. CASE SendResponseFails
  BY <1>2, EmptySeq DEF SendResponseFails, wires, client, TypeOK
<1>3. CASE OtherWorkerKills
  BY <1>3 DEF OtherWorkerKills, wires, client, TypeOK
<1> QED BY <1>1, <1>2, <1>3

LEMMA TypeStep == TypeOK /\ [Next]_vars => TypeOK'
<1> SUFFICES ASSUME TypeOK, [Next]_vars PROVE TypeOK'
  OBVIOUS
<1>1. ASSUME NEW c \in Commands, Command(c) PROVE TypeOK'
  BY <1>1, TypeCommand
<1>2. CASE Exit \/ OtherWorkerKills
  BY <1>2, TypeExit, TypeSendResponse
<1>3. CASE ClientStep
  BY <1>3, TypeSendRequest, TypeGetResponse, TypeReceiveMore, TypeShowMessage,
     TypeServerIsGone DEF ClientStep
<1>4. CASE HandlerStep
  <2>1. CASE ClientIsDone
    <3>1. HandlerReturns(handler_cache) /\ UNCHANGED <<wires, client, alive>>
      BY <2>1 DEF ClientIsDone
    <3> QED BY <3>1, Buffers, ReturnTypes, HandlerTypesSuffice DEF TypeOK, wires
  <2> QED BY <1>4, <2>1, TypeGetRequest, TypeReceiveMessage, TypeStoreMessage,
          TypeSendResponse DEF HandlerStep
<1>5. CASE UNCHANGED vars
  BY <1>5 DEF vars, wires, client, handler, TypeOK
<1> QED BY <1>1, <1>2, <1>3, <1>4, <1>5 DEF Next

\* However requests, messages and answers are cut, whatever a client that has
\* left or a server that was killed leaves behind, every buffer holds what the
\* code puts there and the two programs stay where their loops can be.
THEOREM SessionTypeCorrect == Spec => []TypeOK
<1>1. Init => TypeOK
  BY TypeInit
<1>2. TypeOK /\ [Next]_vars => TypeOK'
  BY TypeStep
<1> QED BY <1>1, <1>2, PTL DEF Spec

-----------------------------------------------------------------------------
(* The inductive invariant.                                                *)

K == Len(commands)
Incoming == (handler_in \o up) \o client_out
Outgoing == (client_in \o down) \o handler_out
Sending == client_pc \in {"send_request", "get_response"}

BuffersFit ==
  /\ client_pc # "send_request" => client_out = <<>>
  /\ client_pc \notin {"get_response", "receive_message"} => client_in = <<>>
  /\ handler_pc \in {"get_request", "send_response"} => handler_cache = <<>>
  /\ handler_pc = "get_request" => ~HasNewline(handler_in)
  /\ handler_pc = "send_response" => handler_in = <<>> /\ handler_out # <<>>
  /\ reply \in {Nothing, Failure, Ok} \/ reply.kind \in {"list", "message"}

\* The last command has not been answered, and what it puts is not stored.
Unanswered ==
  /\ K > 0
  /\ client_pc = "left" \/ (Sending /\ Outgoing = <<>>)
  /\ \A i \in DOMAIN messages : messages[i] # <<>> => messages[i][1].of < K

\* The newline of an earlier message may still be to be read, then the request.
AtRequest ==
  \E t \in Leftovers :
    \/ Part(client_pc, Incoming, t)
    \/ Part(client_pc, Incoming, t \o RequestBytes(K, commands[K])) /\ Unanswered

\* Of a put the newline of its header and its body are left.
AtMessage ==
  /\ Unanswered
  /\ commands[K].cmd = "send" /\ commands[K].lines # 0
  /\ put_length = 2 * commands[K].lines
  /\ Part(client_pc, Incoming, <<NL>> \o Body(K, commands[K].lines))

AtAnswer == \E t \in Leftovers : Part(client_pc, Incoming, t)

ServerSide ==
  alive /\ ~behind =>
    /\ handler_pc = "get_request" => AtRequest
    /\ handler_pc = "receive_message" => AtMessage
    /\ handler_pc = "send_response" => AtAnswer

\* What a waiting client has to read is the whole answer to its last request.
ClientSide ==
  ~behind =>
    /\ Sending => ~HasNewline(client_in) /\ client_cache = <<>>
    /\ Sending /\ Outgoing # <<>> => reply # Nothing /\ Outgoing = ReplyBytes(reply)
    /\ client_pc = "receive_message" =>
         /\ reply.kind = "message" /\ length = Len(reply.text) /\ length # 0
         /\ Outgoing = <<NL>> \o reply.text

Sent(k) == commands[k].cmd = "send" /\ commands[k].lines # 0

Stored ==
  ~behind =>
    /\ \A i \in DOMAIN messages :
         messages[i] # <<>> => \E k \in DOMAIN commands : Sent(k) /\ messages[i] = Typed(k)
    /\ \A i \in DOMAIN messages :
         messages[i] = <<>> =>
           /\ i = Len(messages) /\ client_pc = "left" /\ up = <<>> /\ handler_in = <<>>
           /\ handler_pc # "receive_message"
    /\ \A i, j \in DOMAIN messages :
         i < j /\ messages[j] # <<>> => messages[i][1].of < messages[j][1].of
    /\ reply.kind = "message" /\ reply.text # <<>> => reply.text[Len(reply.text)] # NL

IInv == TypeOK /\ BuffersFit /\ ServerSide /\ ClientSide /\ Stored /\ ShownIsAnswer

LEMMA LeftoverBytes == Leftovers \subseteq Seq(Symbols)
<1>1. NL \in Symbols
  BY HeaderSymbols
<1>2. <<NL>> \in Seq(Symbols)
  BY <1>1
<1> QED BY <1>2, EmptySeq DEF Leftovers

\* A stored message tells which command put it, and ends in no newline.
LEMMA TypedBytes ==
  ASSUME TypeOK, NEW k \in DOMAIN commands, Sent(k)
  PROVE  /\ k \in 1..K /\ K \in Nat
         /\ commands[k].lines \in Nat \ {0}
         /\ Typed(k) = WithoutLastNewline(Body(k, commands[k].lines))
         /\ Typed(k) \in Seq(Symbols) /\ Typed(k) # <<>>
         /\ Typed(k)[1].of = k /\ Typed(k)[Len(Typed(k))] # NL
<1>1. commands \in Seq(Commands) /\ DOMAIN commands = 1..K /\ K \in Nat
  BY LenProperties DEF TypeOK, K
<1>2. commands[k] \in Commands
  BY <1>1, ElementOfSeq
<1>3. commands[k].lines \in Nat \ {0}
  BY <1>2, CommandCases DEF Sent
<1>4. Typed(k) = WithoutLastNewline(Body(k, commands[k].lines))
  BY DEF Sent, Typed
<1>5. k \in Nat
  BY <1>1
<1> DEFINE l == commands[k].lines
           w == WithoutLastNewline(Body(k, l))
<1>6. l \in Nat \ {0} /\ Typed(k) = w
  BY <1>3, <1>4
<1> HIDE DEF l
<1>7. w \in Seq(Symbols) /\ w # <<>> /\ w[1] = Chr(k) /\ w[Len(w)] # NL
  BY <1>5, <1>6, WholeBody
<1> HIDE DEF w
<1>8. Typed(k)[1].of = k
  BY <1>6, <1>7 DEF Chr
<1> QED BY <1>1, <1>3, <1>4, <1>6, <1>7, <1>8

LEMMA ConcatThree ==
  ASSUME NEW a \in Seq(Symbols), NEW b \in Seq(Symbols), NEW c \in Seq(Symbols)
  PROVE  /\ (a \o b) \o c \in Seq(Symbols) /\ a \o b \in Seq(Symbols)
         /\ b \o c \in Seq(Symbols) /\ (a \o b) \o c = a \o (b \o c)
<1>1. a \o b \in Seq(Symbols) /\ b \o c \in Seq(Symbols)
  BY ConcatProperties
<1>2. (a \o b) \o c \in Seq(Symbols)
  BY <1>1, ConcatProperties
<1> QED BY <1>1, <1>2, ConcatAssociative

\* What a client sends and receives is moved, not changed.
LEMMA StreamBytes ==
  ASSUME TypeOK
  PROVE  /\ Incoming \in Seq(Symbols) /\ handler_in \o up \in Seq(Symbols)
         /\ up \o client_out \in Seq(Symbols)
         /\ Incoming = handler_in \o (up \o client_out)
         /\ Outgoing \in Seq(Symbols) /\ client_in \o down \in Seq(Symbols)
         /\ down \o handler_out \in Seq(Symbols)
         /\ Outgoing = client_in \o (down \o handler_out)
<1>1. /\ handler_in \in Seq(Symbols) /\ up \in Seq(Symbols) /\ client_out \in Seq(Symbols)
      /\ client_in \in Seq(Symbols) /\ down \in Seq(Symbols) /\ handler_out \in Seq(Symbols)
  BY Buffers
<1>2. /\ Incoming \in Seq(Symbols) /\ handler_in \o up \in Seq(Symbols)
      /\ up \o client_out \in Seq(Symbols)
      /\ Incoming = handler_in \o (up \o client_out)
  <2>1. /\ (handler_in \o up) \o client_out \in Seq(Symbols)
        /\ handler_in \o up \in Seq(Symbols) /\ up \o client_out \in Seq(Symbols)
        /\ (handler_in \o up) \o client_out = handler_in \o (up \o client_out)
    <3>1. handler_in \in Seq(Symbols) /\ up \in Seq(Symbols) /\ client_out \in Seq(Symbols)
      BY <1>1
    <3> QED BY <3>1, ConcatThree
  <2> QED BY <2>1 DEF Incoming
<1>3. /\ Outgoing \in Seq(Symbols) /\ client_in \o down \in Seq(Symbols)
      /\ down \o handler_out \in Seq(Symbols)
      /\ Outgoing = client_in \o (down \o handler_out)
  <2>1. /\ (client_in \o down) \o handler_out \in Seq(Symbols)
        /\ client_in \o down \in Seq(Symbols) /\ down \o handler_out \in Seq(Symbols)
        /\ (client_in \o down) \o handler_out = client_in \o (down \o handler_out)
    <3>1. client_in \in Seq(Symbols) /\ down \in Seq(Symbols) /\ handler_out \in Seq(Symbols)
      BY <1>1
    <3> QED BY <3>1, ConcatThree
  <2> QED BY <2>1 DEF Outgoing
<1> QED BY <1>2, <1>3

LEMMA StreamBytesNext ==
  TypeOK' => (/\ Incoming \in Seq(Symbols) /\ Outgoing \in Seq(Symbols)
              /\ Incoming = handler_in \o (up \o client_out)
              /\ Outgoing = client_in \o (down \o handler_out))'
<1>1. TypeOK => /\ Incoming \in Seq(Symbols) /\ Outgoing \in Seq(Symbols)
                /\ Incoming = handler_in \o (up \o client_out)
                /\ Outgoing = client_in \o (down \o handler_out)
  BY StreamBytes
<1> QED BY <1>1, PTL

\* The command that was typed last, and what it writes.
LEMMA LastRequest ==
  ASSUME TypeOK, K > 0
  PROVE  /\ K \in Nat /\ K \in DOMAIN commands /\ commands[K] \in Commands
         /\ RequestBytes(K, commands[K]) \in Seq(Symbols)
         /\ \A t \in Leftovers : t \o RequestBytes(K, commands[K]) \in Seq(Symbols)
<1>1. commands \in Seq(Commands) /\ K \in Nat /\ DOMAIN commands = 1..K
  BY LenProperties DEF TypeOK, K
<1>2. K \in DOMAIN commands
  BY <1>1
<1>3. commands[K] \in Commands
  BY <1>1, <1>2, ElementOfSeq
<1> DEFINE c == commands[K]
           h == RequestHeader(c)
           s == RequestText(K, c)
           r == RequestBytes(K, c)
<1>4. h \in Symbols /\ s \in Seq(Symbols) /\ r = <<h, NL>> \o s
  BY <1>1, <1>3, RequestIsFramed
<1> HIDE DEF h, s, r
<1>5. r \in Seq(Symbols)
  BY <1>4, FramedBytes
<1>6. \A t \in Leftovers : t \o r \in Seq(Symbols)
  BY <1>5, LeftoverBytes, ConcatProperties
<1> QED BY <1>1, <1>2, <1>3, <1>5, <1>6 DEF r

LEMMA InitIInv == Init => IInv
<1> SUFFICES ASSUME Init PROVE IInv
  OBVIOUS
<1> USE DEF Init
<1>1. TypeOK
  BY TypeInit
<1>2. ~HasNewline(<<>>)
  BY EmptySeq DEF HasNewline
<1>3. BuffersFit
  BY <1>2 DEF BuffersFit
<1>4. Incoming = <<>> /\ Outgoing = <<>>
  BY ConcatEmptySeq, EmptySeq DEF Incoming, Outgoing
<1>5. ServerSide
  <2>1. Part(client_pc, Incoming, <<>>)
    BY <1>4, EmptySeq DEF Part, Begins
  <2> QED BY <2>1 DEF ServerSide, AtRequest, Leftovers
<1>6. ClientSide
  BY DEF ClientSide, Sending
<1>7. Stored
  <2>1. DOMAIN messages = {}
    BY EmptySeq
  <2> QED BY <2>1 DEF Stored, Nothing
<1>8. ShownIsAnswer
  BY DEF ShownIsAnswer, Nothing
<1> QED BY <1>1, <1>3, <1>5, <1>6, <1>7, <1>8 DEF IInv

-----------------------------------------------------------------------------
(* The steps of the client.                                                *)

\* A step that moves bytes, and takes no command, keeps what the server is owed.
LEMMA ServerSideStays ==
  ASSUME ServerSide, Incoming' = Incoming, alive' => alive,
         client_pc' = "left" <=> client_pc = "left",
         Sending /\ Outgoing = <<>> => Sending' /\ Outgoing' = <<>>,
         UNCHANGED <<commands, behind, handler_pc, put_length, messages>>
  PROVE  ServerSide'
<1>1. SUFFICES ASSUME alive, ~behind
               PROVE  /\ handler_pc = "get_request" => AtRequest'
                      /\ handler_pc = "receive_message" => AtMessage'
                      /\ handler_pc = "send_response" => AtAnswer'
  BY DEF ServerSide
<1>2. \A r : Part(client_pc, Incoming, r) => Part(client_pc', Incoming', r)
  BY DEF Part
<1>3. Unanswered => Unanswered'
  BY DEF Unanswered, K
<1>4. AtRequest => AtRequest'
  BY <1>2, <1>3 DEF AtRequest, K
<1>5. AtMessage => AtMessage'
  BY <1>2, <1>3 DEF AtMessage, K
<1>6. AtAnswer => AtAnswer'
  BY <1>2 DEF AtAnswer
<1> QED BY <1>1, <1>4, <1>5, <1>6 DEF ServerSide

\* What is stored stays stored while commands are only added.
LEMMA StoredStays ==
  ASSUME TypeOK, Stored, ~behind', ~behind,
         UNCHANGED <<messages, reply>>,
         DOMAIN commands \subseteq DOMAIN commands',
         \A k \in DOMAIN commands : commands'[k] = commands[k],
         client_pc = "left" /\ up = <<>> => client_pc' = "left" /\ up' = <<>>,
         client_pc = "left" /\ up = <<>> /\ handler_in = <<>> => handler_in' = <<>>,
         handler_pc' = "receive_message" => handler_pc = "receive_message" \/ handler_in # <<>> \/ up # <<>>
  PROVE  Stored'
<1>1. ASSUME NEW k \in DOMAIN commands
      PROVE  k \in DOMAIN commands' /\ Sent(k)' = Sent(k) /\ Typed(k)' = Typed(k)
  BY DEF Sent, Typed
<1>2. ASSUME NEW i \in DOMAIN messages, messages[i] # <<>>
      PROVE  \E k \in DOMAIN commands' : Sent(k)' /\ messages[i] = Typed(k)'
  <2>1. PICK k \in DOMAIN commands : Sent(k) /\ messages[i] = Typed(k)
    BY <1>2 DEF Stored
  <2> QED BY <1>1, <2>1
<1>3. ASSUME NEW i \in DOMAIN messages, messages[i] = <<>>
      PROVE  /\ i = Len(messages) /\ client_pc' = "left" /\ up' = <<>> /\ handler_in' = <<>>
             /\ handler_pc' # "receive_message"
  BY <1>3 DEF Stored
<1> QED BY <1>2, <1>3 DEF Stored

LEMMA CommandKeeps ==
  ASSUME IInv, NEW c \in Commands, Command(c)
  PROVE  BuffersFit' /\ ServerSide' /\ ClientSide' /\ Stored' /\ ShownIsAnswer'
<1> USE DEF IInv
<1>0. PICK k \in Nat : k = K + 1
  BY LenProperties DEF TypeOK, K
<1>1. /\ client_pc = "prompt" /\ commands' = Append(commands, c)
      /\ client_out' = RequestBytes(Len(commands'), c) /\ client_cache' = <<>>
      /\ behind' = (behind \/ down # <<>> \/ handler_out # <<>>)
      /\ client_pc' = "send_request"
      /\ UNCHANGED <<wires, client_in, length, handler>>
  BY DEF Command
<1>2. /\ commands \in Seq(Commands) /\ K \in Nat /\ DOMAIN commands = 1..K
      /\ K' = k /\ DOMAIN commands' = 1..k /\ commands'[k] = c
      /\ \A i \in DOMAIN commands : commands'[i] = commands[i]
      /\ DOMAIN commands \subseteq DOMAIN commands'
  <2>1. commands \in Seq(Commands) /\ K \in Nat /\ DOMAIN commands = 1..K
    BY LenProperties DEF TypeOK, K
  <2>2. /\ Len(commands') = K + 1 /\ commands' \in Seq(Commands)
        /\ commands'[K + 1] = c /\ \A i \in 1..K : commands'[i] = commands[i]
    BY <1>1, <2>1, AppendProperties DEF K
  <2>3. DOMAIN commands' = 1..k
    BY <1>0, <2>2, LenProperties
  <2> QED BY <1>0, <2>1, <2>2, <2>3 DEF K
<1>3. BuffersFit'
  BY <1>1 DEF BuffersFit, wires, handler
<1>4. ShownIsAnswer'
  BY <1>1 DEF ShownIsAnswer
<1>5. CASE behind'
  BY <1>3, <1>4, <1>5 DEF ServerSide, ClientSide, Stored
<1>6. CASE ~behind'
  <2>1. ~behind /\ down = <<>> /\ handler_out = <<>>
    BY <1>1, <1>6 DEF TypeOK
  <2>2. client_out = <<>> /\ client_in = <<>>
    BY <1>1 DEF BuffersFit
  <2>3. Outgoing' = <<>>
    BY <1>1, <2>1, <2>2, ConcatEmptySeq, EmptySeq DEF Outgoing, wires, handler
  <2>4. Stored'
    BY <1>1, <1>2, <1>6, <2>1, StoredStays DEF wires, handler
  <2>5. ClientSide'
    <3>1. ~HasNewline(client_in')
      BY <1>1, <2>2, EmptySeq DEF HasNewline
    <3> QED BY <1>1, <2>3, <3>1 DEF ClientSide, Sending
  <2>6. ASSUME NEW i \in DOMAIN messages, messages[i] # <<>>
        PROVE  messages[i][1].of < k
    <3>1. PICK j \in DOMAIN commands : Sent(j) /\ messages[i] = Typed(j)
      BY <2>1, <2>6 DEF Stored
    <3>2. j \in 1..K /\ Typed(j)[1].of = j
      BY <3>1, TypedBytes
    <3> QED BY <1>0, <1>2, <3>1, <3>2
  <2>7. Unanswered'
    BY <1>0, <1>1, <1>2, <2>3, <2>6 DEF Unanswered, Sending, handler
  <2>8. ~Unanswered
    BY <1>1 DEF Unanswered, Sending
  <2>9. ASSUME alive, handler_pc = "get_request"
        PROVE  AtRequest'
    <3>1. PICK t \in Leftovers : Part(client_pc, Incoming, t)
      BY <2>1, <2>8, <2>9 DEF ServerSide, AtRequest
    <3>2. Incoming = t
      BY <1>1, <3>1 DEF Part
    <3>3. handler_in \o up \in Seq(Symbols) /\ Incoming = handler_in \o up
      <4>1. handler_in \o up \in Seq(Symbols)
        BY StreamBytes
      <4> QED BY <2>2, <4>1, ConcatEmptySeq DEF Incoming
    <3> DEFINE r == RequestBytes(k, c)
    <3>4. Incoming' = t \o r
      BY <1>1, <1>2, <3>2, <3>3 DEF Incoming, wires, handler, K
    <3>5. t \o r = (t \o RequestBytes(K, commands[K]))'
      BY <1>2
    <3>6. t \o r \in Seq(Symbols)
      <4>1. Incoming' \in Seq(Symbols)
        <5>1. TypeOK'
          BY TypeCommand
        <5> QED BY <5>1, StreamBytesNext
      <4> QED BY <3>4, <4>1
    <3> DEFINE w == t \o r
    <3>7. Part(client_pc', w, w)
      <4>1. w \in Seq(Symbols) /\ Len(w) \in Nat
        BY <3>6, LenProperties
      <4> HIDE DEF w
      <4> QED BY <4>1 DEF Part, Begins
    <3> HIDE DEF r
    <3>8. Part(client_pc', Incoming', (t \o RequestBytes(K, commands[K]))')
      BY <3>4, <3>5, <3>7
    <3> QED BY <2>7, <3>8 DEF AtRequest
  <2>10. ServerSide'
    <3>1. alive => handler_pc # "receive_message"
      BY <2>1, <2>8 DEF ServerSide, AtMessage
    <3>2. handler_pc # "send_response"
      BY <2>1 DEF BuffersFit
    <3> QED BY <1>1, <2>9, <3>1, <3>2 DEF ServerSide, handler
  <2> QED BY <1>3, <1>4, <2>4, <2>5, <2>10
<1> QED BY <1>5, <1>6

\* What was to be read of a client that leaves may be cut anywhere.
LEMMA ExitKeeps ==
  ASSUME IInv, Exit
  PROVE  BuffersFit' /\ ServerSide' /\ ClientSide' /\ Stored' /\ ShownIsAnswer'
<1> USE DEF IInv
<1>1. /\ client_pc # "left" /\ client_pc' = "left" /\ client_out' = <<>>
      /\ client_in' = <<>> /\ UNCHANGED <<commands, behind, handler>>
  BY DEF Exit
<1>2. PICK n \in 0..Len(up) : up' = SubSeq(up, 1, n)
  BY DEF Exit
<1>3. BuffersFit'
  BY <1>1 DEF BuffersFit, handler
<1>4. ClientSide' /\ ShownIsAnswer'
  BY <1>1 DEF ClientSide, Sending, ShownIsAnswer
<1>5. Stored'
  <2>1. CASE behind
    BY <1>1, <2>1 DEF Stored
  <2>2. CASE ~behind
    <3>1. UNCHANGED <<messages, reply, commands, behind, handler_in, handler_pc>>
      BY <1>1 DEF handler
    <3> QED BY <1>1, <2>2, <3>1, StoredStays
  <2> QED BY <2>1, <2>2
<1>6. Incoming' \in Seq(Symbols) /\ Incoming \in Seq(Symbols) /\ Begins(Incoming', Incoming)
  <2>1. handler_in \in Seq(Symbols) /\ up \in Seq(Symbols) /\ client_out \in Seq(Symbols)
    BY Buffers
  <2> DEFINE p == handler_in \o SubSeq(up, 1, n)
             z == handler_in \o up
             w == z \o client_out
  <2>2. p \in Seq(Symbols) /\ Begins(p, z)
    BY <2>1, CutBegins
  <2>3. z \in Seq(Symbols)
    BY <2>1, ConcatProperties
  <2> HIDE DEF p, z
  <2>4. w \in Seq(Symbols) /\ Begins(z, w)
    BY <2>1, <2>3, BeginsConcat
  <2> HIDE DEF w
  <2>5. Begins(p, w)
    BY <2>2, <2>3, <2>4, BeginsTrans
  <2>6. p \o <<>> = p
    BY <2>2, ConcatEmptySeq
  <2>7. Incoming' = p /\ Incoming = w
    BY <1>1, <1>2, <2>6 DEF Incoming, handler, p, z, w
  <2> QED BY <2>2, <2>4, <2>5, <2>7
<1>7. ServerSide'
  <2>1. SUFFICES ASSUME alive, ~behind
                 PROVE  /\ handler_pc = "get_request" => AtRequest'
                        /\ handler_pc = "receive_message" => AtMessage'
                        /\ handler_pc = "send_response" => AtAnswer'
    BY <1>1 DEF ServerSide, handler
  <2>2. ASSUME NEW r \in Seq(Symbols), Part(client_pc, Incoming, r)
        PROVE  Part(client_pc', Incoming', r)
    BY <1>1, <1>6, <2>2, PartCut
  <2>3. Unanswered => Unanswered'
    BY <1>1 DEF Unanswered, K, handler
  <2>4. CASE handler_pc = "get_request"
    <3>1. PICK t \in Leftovers :
            \/ Part(client_pc, Incoming, t)
            \/ Part(client_pc, Incoming, t \o RequestBytes(K, commands[K])) /\ Unanswered
      BY <2>1, <2>4 DEF ServerSide, AtRequest
    <3>2. CASE Part(client_pc, Incoming, t)
      BY <2>2, <3>2, LeftoverBytes, <2>4 DEF AtRequest
    <3>3. CASE Part(client_pc, Incoming, t \o RequestBytes(K, commands[K])) /\ Unanswered
      <4>1. t \o RequestBytes(K, commands[K]) \in Seq(Symbols)
        BY <3>3, LastRequest DEF Unanswered
      <4>2. Part(client_pc', Incoming', t \o RequestBytes(K, commands[K]))
        BY <2>2, <3>3, <4>1
      <4> QED BY <1>1, <2>3, <2>4, <3>3, <4>2 DEF AtRequest, K
    <3> QED BY <3>1, <3>2, <3>3
  <2>5. CASE handler_pc = "receive_message"
    <3>1. AtMessage
      BY <2>1, <2>5 DEF ServerSide
    <3> DEFINE r == <<NL>> \o Body(K, commands[K].lines)
    <3>2. r \in Seq(Symbols)
      <4>1. K \in Nat /\ commands[K] \in Commands
        BY <3>1, LastRequest DEF AtMessage, Unanswered
      <4>2. commands[K].lines \in Nat
        BY <3>1, <4>1, CommandCases DEF AtMessage
      <4> QED BY <4>1, <4>2, MessageBytes
    <3> HIDE DEF r
    <3>3. Part(client_pc', Incoming', r)
      BY <2>2, <3>1, <3>2 DEF AtMessage, r
    <3> QED BY <1>1, <2>3, <2>5, <3>1, <3>3 DEF AtMessage, K, handler, r
  <2>6. CASE handler_pc = "send_response"
    <3>1. PICK t \in Leftovers : Part(client_pc, Incoming, t)
      BY <2>1, <2>6 DEF ServerSide, AtAnswer
    <3> QED BY <2>2, <2>6, <3>1, LeftoverBytes DEF AtAnswer
  <2> QED BY <2>4, <2>5, <2>6
<1> QED BY <1>3, <1>4, <1>5, <1>7

LEMMA SendRequestKeeps ==
  ASSUME IInv, SendRequest, TypeOK'
  PROVE  BuffersFit' /\ ServerSide' /\ ClientSide' /\ Stored' /\ ShownIsAnswer'
<1> USE DEF IInv
<1>1. /\ client_pc = "send_request" /\ client_pc' \in {"send_request", "get_response"}
      /\ client_pc' = "get_response" => client_out' = <<>>
      /\ UNCHANGED <<down, client_in, client_cache, length, commands, behind, handler>>
  BY DEF SendRequest
<1>2. PICK n \in 1..Len(client_out) :
        /\ up' = up \o SubSeq(client_out, 1, n)
        /\ client_out' = SubSeq(client_out, n + 1, Len(client_out))
  BY DEF SendRequest
<1>3. Incoming' = Incoming
  <2>1. up' \o client_out' = up \o client_out
    <3>1. up \in Seq(Symbols) /\ client_out \in Seq(Symbols)
      BY Buffers
    <3>2. (up \o SubSeq(client_out, 1, n)) \o SubSeq(client_out, n + 1, Len(client_out))
            = up \o client_out
      BY <3>1, RecvSome
    <3> QED BY <1>2, <3>2
  <2>2. Incoming = handler_in \o (up \o client_out)
    BY StreamBytes
  <2>3. Incoming' = handler_in' \o (up' \o client_out')
    BY StreamBytesNext
  <2> QED BY <1>1, <2>1, <2>2, <2>3 DEF handler
<1>4. Outgoing' = Outgoing
  BY <1>1 DEF Outgoing, handler
<1>5. BuffersFit'
  BY <1>1 DEF BuffersFit, handler
<1>6. ServerSide'
  <2>1. Sending' /\ UNCHANGED <<commands, behind, handler_pc, put_length, messages, alive>>
    BY <1>1 DEF Sending, handler
  <2> QED BY <1>1, <1>3, <1>4, <2>1, ServerSideStays
<1>7. ClientSide'
  BY <1>1, <1>4 DEF ClientSide, Sending, handler
<1>8. ShownIsAnswer'
  BY <1>1 DEF ShownIsAnswer
<1>9. Stored'
  <2>1. CASE behind
    BY <1>1, <2>1 DEF Stored
  <2>2. CASE ~behind
    <3>1. UNCHANGED <<messages, reply, commands, behind, handler_in, handler_pc>>
      BY <1>1 DEF handler
    <3> QED BY <1>1, <2>2, <3>1, StoredStays
  <2> QED BY <2>1, <2>2
<1> QED BY <1>5, <1>6, <1>7, <1>8, <1>9

\* The server process is gone: what it would have been owed no longer matters.
LEMMA ServerGoneKeeps ==
  ASSUME IInv, SendRequestFails \/ ServerIsGone \/ OtherWorkerKills
  PROVE  BuffersFit' /\ ServerSide' /\ ClientSide' /\ Stored' /\ ShownIsAnswer'
<1> USE DEF IInv
<1>1. ~alive' /\ UNCHANGED <<commands, behind, messages, reply, handler_in, handler_pc,
                            handler_out, handler_cache, up>>
  BY DEF SendRequestFails, ServerIsGone, OtherWorkerKills, handler, client, wires
<1>2. ServerSide'
  BY <1>1 DEF ServerSide
<1>3. Stored'
  <2>1. CASE behind
    BY <1>1, <2>1 DEF Stored
  <2>2. CASE ~behind
    <3>1. client_pc = "left" => client_pc' = "left"
      BY DEF SendRequestFails, ServerIsGone, OtherWorkerKills, client
    <3> QED BY <1>1, <2>2, <3>1, StoredStays
  <2> QED BY <2>1, <2>2
<1>4. CASE SendRequestFails
  <2>1. /\ client_pc = "send_request" /\ client_pc' \in {"get_response", "left"}
        /\ client_out' = <<>>
        /\ UNCHANGED <<down, client_in, client_cache, length, behind, reply, handler_out>>
    BY <1>1, <1>4 DEF SendRequestFails, wires, handler
  <2>2. Outgoing' = Outgoing
    BY <2>1 DEF Outgoing
  <2>3. BuffersFit'
    BY <1>1, <2>1 DEF BuffersFit
  <2>4. ClientSide'
    BY <2>1, <2>2 DEF ClientSide, Sending
  <2>5. ShownIsAnswer'
    BY <2>1 DEF ShownIsAnswer
  <2> QED BY <1>2, <1>3, <2>3, <2>4, <2>5
<1>5. CASE ServerIsGone
  <2>1. /\ client_pc \in {"get_response", "receive_message"} /\ client_pc' = "prompt"
        /\ client_in' = <<>> /\ shown' = Closed /\ client_out' = client_out
    BY <1>5 DEF ServerIsGone
  <2>2. BuffersFit'
    BY <1>1, <2>1 DEF BuffersFit
  <2>3. ClientSide' /\ ShownIsAnswer'
    BY <2>1 DEF ClientSide, Sending, ShownIsAnswer, Closed
  <2> QED BY <1>2, <1>3, <2>2, <2>3
<1>6. CASE OtherWorkerKills
  <2>1. UNCHANGED <<wires, client, handler_pc, handler_out, handler_in, handler_cache, reply>>
    BY <1>6 DEF OtherWorkerKills
  <2>2. BuffersFit'
    BY <2>1 DEF BuffersFit, client
  <2>3. ClientSide'
    BY <2>1 DEF ClientSide, Sending, Outgoing, client, wires
  <2>4. ShownIsAnswer'
    BY <2>1 DEF ShownIsAnswer, client, wires
  <2> QED BY <1>2, <1>3, <2>2, <2>3, <2>4
<1> QED BY <1>4, <1>5, <1>6

LEMMA ReceiveMoreKeeps ==
  ASSUME IInv, ReceiveMore, TypeOK'
  PROVE  BuffersFit' /\ ServerSide' /\ ClientSide' /\ Stored' /\ ShownIsAnswer'
<1> USE DEF IInv
<1>1. /\ client_pc = "receive_message"
      /\ UNCHANGED <<up, client_pc, client_out, client_cache, length, shown,
                     commands, behind, handler>>
  BY DEF ReceiveMore
<1>2. PICK n \in 1..Len(down) :
        /\ client_in' = client_in \o SubSeq(down, 1, n)
        /\ down' = SubSeq(down, n + 1, Len(down))
  BY DEF ReceiveMore
<1>3. Outgoing' = Outgoing
  <2>1. client_in \in Seq(Symbols) /\ down \in Seq(Symbols)
    BY Buffers
  <2>2. (client_in \o SubSeq(down, 1, n)) \o SubSeq(down, n + 1, Len(down)) = client_in \o down
    BY <2>1, RecvSome
  <2> QED BY <1>1, <1>2, <2>2 DEF Outgoing, handler
<1>4. Incoming' = Incoming
  BY <1>1 DEF Incoming, handler
<1>5. BuffersFit'
  BY <1>1 DEF BuffersFit, handler
<1>6. ServerSide'
  <2>1. ~Sending /\ UNCHANGED <<commands, behind, handler_pc, put_length, messages, alive>>
    BY <1>1 DEF Sending, handler
  <2> QED BY <1>1, <1>4, <2>1, ServerSideStays
<1>7. ClientSide'
  BY <1>1, <1>3 DEF ClientSide, Sending, handler
<1>8. ShownIsAnswer'
  BY <1>1 DEF ShownIsAnswer
<1>9. Stored'
  <2>1. CASE behind
    BY <1>1, <2>1 DEF Stored
  <2>2. CASE ~behind
    <3>1. UNCHANGED <<messages, reply, commands, behind, handler_in, handler_pc>>
      BY <1>1 DEF handler
    <3> QED BY <1>1, <2>2, <3>1, StoredStays
  <2> QED BY <2>1, <2>2
<1> QED BY <1>5, <1>6, <1>7, <1>8, <1>9

LEMMA SendResponseKeeps ==
  ASSUME IInv, SendResponse, TypeOK'
  PROVE  BuffersFit' /\ ServerSide' /\ ClientSide' /\ Stored' /\ ShownIsAnswer'
<1> USE DEF IInv
<1>1. /\ handler_pc = "send_response" /\ client_pc # "left"
      /\ handler_pc' \in {"send_response", "get_request"}
      /\ handler_pc' = "send_response" => handler_out' # <<>>
      /\ UNCHANGED <<up, client, handler_in, handler_cache, put_length, messages, reply, alive>>
  BY DEF SendResponse
<1>2. PICK n \in 1..Len(handler_out) :
        /\ down' = down \o SubSeq(handler_out, 1, n)
        /\ handler_out' = SubSeq(handler_out, n + 1, Len(handler_out))
  BY DEF SendResponse
<1>3. Outgoing' = Outgoing /\ down' # <<>>
  <2>1. down \in Seq(Symbols) /\ handler_out \in Seq(Symbols)
    BY Buffers
  <2>2. /\ (down \o SubSeq(handler_out, 1, n)) \o SubSeq(handler_out, n + 1, Len(handler_out))
             = down \o handler_out
        /\ down \o SubSeq(handler_out, 1, n) # <<>>
    BY <2>1, RecvSome
  <2>3. Outgoing = client_in \o (down \o handler_out)
    BY StreamBytes
  <2>4. Outgoing' = client_in' \o (down' \o handler_out')
    BY StreamBytesNext
  <2> QED BY <1>1, <1>2, <2>2, <2>3, <2>4 DEF client
<1>4. Incoming' = Incoming
  BY <1>1 DEF Incoming, client
<1>5. BuffersFit'
  <2>1. ~HasNewline(<<>>)
    BY EmptySeq DEF HasNewline
  <2> QED BY <1>1, <2>1 DEF BuffersFit, client
<1>6. ServerSide'
  <2>1. SUFFICES ASSUME alive, ~behind PROVE AtRequest' /\ AtAnswer'
    BY <1>1 DEF ServerSide, client
  <2>2. PICK t \in Leftovers : Part(client_pc, Incoming, t)
    BY <1>1, <2>1 DEF ServerSide, AtAnswer
  <2>3. Part(client_pc', Incoming', t)
    BY <1>1, <1>4, <2>2 DEF client
  <2> QED BY <2>3 DEF AtRequest, AtAnswer
<1>7. ClientSide'
  BY <1>1, <1>3 DEF ClientSide, Sending, client
<1>8. ShownIsAnswer'
  <2>1. handler_out # <<>>
    BY <1>1 DEF BuffersFit
  <2> QED BY <1>1, <1>3, <2>1 DEF ShownIsAnswer, client
<1>9. Stored'
  <2>1. CASE behind
    BY <1>1, <2>1 DEF Stored, client
  <2>2. CASE ~behind
    <3>1. UNCHANGED <<messages, reply, commands, behind, handler_in, up, client_pc>>
      BY <1>1 DEF client
    <3> QED BY <1>1, <2>2, <3>1, StoredStays
  <2> QED BY <2>1, <2>2
<1> QED BY <1>5, <1>6, <1>7, <1>8, <1>9

LEMMA SendResponseFailsKeeps ==
  ASSUME IInv, SendResponseFails
  PROVE  BuffersFit' /\ ServerSide' /\ ClientSide' /\ Stored' /\ ShownIsAnswer'
<1> USE DEF IInv
<1>1. /\ alive /\ handler_pc = "send_response" /\ client_pc = "left"
      /\ \/ handler_pc' = "get_request" /\ alive'
         \/ handler_pc' = "send_response" /\ ~alive' /\ handler_out' = handler_out
      /\ UNCHANGED <<wires, client, handler_in, handler_cache, put_length, messages, reply>>
  BY DEF SendResponseFails
<1>2. BuffersFit'
  <2>1. ~HasNewline(<<>>)
    BY EmptySeq DEF HasNewline
  <2> QED BY <1>1, <2>1 DEF BuffersFit, client
<1>3. ServerSide'
  <2>1. SUFFICES ASSUME alive', ~behind PROVE AtRequest'
    BY <1>1 DEF ServerSide, client
  <2>2. PICK t \in Leftovers : Part(client_pc, Incoming, t)
    BY <1>1, <2>1 DEF ServerSide, AtAnswer
  <2>3. Part(client_pc', Incoming', t)
    BY <1>1, <2>2 DEF client, wires, Incoming
  <2> QED BY <2>3 DEF AtRequest
<1>4. ClientSide' /\ ShownIsAnswer'
  BY <1>1 DEF ClientSide, Sending, ShownIsAnswer, client
<1>5. Stored'
  <2>1. CASE behind
    BY <1>1, <2>1 DEF Stored, client
  <2>2. CASE ~behind
    <3>1. UNCHANGED <<messages, reply, commands, behind, handler_in, up, client_pc>>
      BY <1>1 DEF client, wires
    <3> QED BY <1>1, <2>2, <3>1, StoredStays
  <2> QED BY <2>1, <2>2
<1> QED BY <1>2, <1>3, <1>4, <1>5

LEMMA ClientIsDoneKeeps ==
  ASSUME IInv, ClientIsDone
  PROVE  BuffersFit' /\ ServerSide' /\ ClientSide' /\ Stored' /\ ShownIsAnswer'
<1> USE DEF IInv
<1>1. /\ client_pc = "left" /\ handler_pc' = "returned" /\ handler_in' = <<>>
      /\ UNCHANGED <<wires, client, handler_out, messages, reply, alive>>
  BY DEF ClientIsDone, HandlerReturns
<1>2. BuffersFit'
  BY <1>1 DEF BuffersFit, client
<1>3. ServerSide'
  BY <1>1 DEF ServerSide
<1>4. ClientSide' /\ ShownIsAnswer'
  BY <1>1 DEF ClientSide, Sending, ShownIsAnswer, client
<1>5. Stored'
  <2>1. CASE behind
    BY <1>1, <2>1 DEF Stored, client
  <2>2. CASE ~behind
    <3>1. UNCHANGED <<messages, reply, commands, behind, up, client_pc>>
      BY <1>1 DEF client, wires
    <3> QED BY <1>1, <2>2, <3>1, StoredStays
  <2> QED BY <2>1, <2>2
<1> QED BY <1>2, <1>3, <1>4, <1>5

LEMMA ReceiveMessageKeeps ==
  ASSUME IInv, ReceiveMessage
  PROVE  BuffersFit' /\ ServerSide' /\ ClientSide' /\ Stored' /\ ShownIsAnswer'
<1> USE DEF IInv
<1>1. /\ handler_pc = "receive_message"
      /\ UNCHANGED <<down, client, handler_pc, handler_out, handler_cache,
                     put_length, messages, reply, alive>>
  BY DEF ReceiveMessage
<1>2. PICK n \in 1..Len(up) :
        /\ handler_in' = handler_in \o SubSeq(up, 1, n)
        /\ up' = SubSeq(up, n + 1, Len(up))
  BY DEF ReceiveMessage
<1>3. Incoming' = Incoming
  <2>1. handler_in \in Seq(Symbols) /\ up \in Seq(Symbols)
    BY Buffers
  <2>2. (handler_in \o SubSeq(up, 1, n)) \o SubSeq(up, n + 1, Len(up)) = handler_in \o up
    BY <2>1, RecvSome
  <2> QED BY <1>1, <1>2, <2>2 DEF Incoming, client
<1>4. up # <<>>
  BY <1>2, EmptySeq
<1>5. BuffersFit'
  BY <1>1 DEF BuffersFit, client
<1>6. Outgoing' = Outgoing /\ Sending' = Sending
  BY <1>1 DEF Outgoing, Sending, client
<1>7. ServerSide'
  <2>1. UNCHANGED <<commands, behind, handler_pc, put_length, messages, alive, client_pc>>
    BY <1>1 DEF client
  <2> QED BY <1>3, <1>6, <2>1, ServerSideStays
<1>8. ClientSide'
  BY <1>1, <1>6 DEF ClientSide, client
<1>9. ShownIsAnswer'
  BY <1>1 DEF ShownIsAnswer, client
<1>10. Stored'
  <2>1. CASE behind
    BY <1>1, <2>1 DEF Stored, client
  <2>2. CASE ~behind
    <3>1. UNCHANGED <<messages, reply, commands, behind, client_pc, handler_pc>>
      BY <1>1 DEF client
    <3> QED BY <1>1, <1>4, <2>2, <3>1, StoredStays
  <2> QED BY <2>1, <2>2
<1> QED BY <1>5, <1>7, <1>8, <1>9, <1>10

LEMMA StutterKeeps ==
  ASSUME IInv, UNCHANGED vars
  PROVE  BuffersFit' /\ ServerSide' /\ ClientSide' /\ Stored' /\ ShownIsAnswer'
<1> USE DEF IInv
<1>1. UNCHANGED <<up, down, client_pc, client_out, client_in, client_cache, length, shown,
                  commands, behind, handler_pc, handler_out, handler_in, handler_cache,
                  put_length, messages, reply, alive>>
  BY DEF vars, wires, client, handler
<1>2. Incoming' = Incoming /\ Outgoing' = Outgoing /\ Sending' = Sending
  BY <1>1 DEF Incoming, Outgoing, Sending
<1>3. BuffersFit'
  BY <1>1 DEF BuffersFit
<1>4. ServerSide'
  BY <1>1, <1>2, ServerSideStays
<1>5. ClientSide'
  BY <1>1, <1>2 DEF ClientSide
<1>6. Stored'
  <2>1. CASE behind
    BY <1>1, <2>1 DEF Stored
  <2>2. CASE ~behind
    BY <1>1, <2>2, StoredStays
  <2> QED BY <2>1, <2>2
<1>7. ShownIsAnswer'
  BY <1>1 DEF ShownIsAnswer
<1> QED BY <1>3, <1>4, <1>5, <1>6, <1>7

LEMMA LastNewlineGone ==
  ASSUME NEW s \in Seq(Symbols), s # <<>>, s[Len(s)] = NL
  PROVE  /\ WithoutLastNewline(s) \in Seq(Symbols)
         /\ Len(s) \in Nat \ {0} /\ Len(WithoutLastNewline(s)) = Len(s) - 1
         /\ \A j \in 1..(Len(s) - 1) : WithoutLastNewline(s)[j] = s[j]
<1> DEFINE w == WithoutLastNewline(s)
<1>1. Len(s) \in Nat /\ Len(s) # 0
  BY EmptySeq, LenProperties
<1>2. Len(s) \in 1..Len(s)
  BY <1>1
<1>3. w = Erase(s, Len(s))
  BY DEF WithoutLastNewline
<1> HIDE DEF w
<1>4. /\ w \in Seq(Symbols) /\ Len(w) = Len(s) - 1
      /\ \A j \in 1..(Len(s) - 1) : w[j] = IF j < Len(s) THEN s[j] ELSE s[j + 1]
  BY <1>2, <1>3, EraseBytes
<1>5. \A j \in 1..(Len(s) - 1) : j < Len(s)
  BY <1>1
<1>6. \A j \in 1..(Len(s) - 1) : w[j] = s[j]
  BY <1>4, <1>5
<1> QED BY <1>1, <1>4, <1>6 DEF w

\* receive_message() of the client counts the newline of the cache: it shows
\* what the server sent, or all of it but the last byte.
LEMMA MessageShown ==
  ASSUME NEW s \in Seq(Symbols), NEW u \in Seq(Symbols), NEW text \in Seq(Symbols),
         Len(text) # 0, text[Len(text)] # NL, Len(s) >= Len(text), s \o u = <<NL>> \o text
  PROVE  /\ StripMessage(s) \in Seq(Symbols)
         /\ Len(StripMessage(s)) <= Len(text)
         /\ StripMessage(s) = SubSeq(text, 1, Len(StripMessage(s)))
         /\ u = <<>> => Len(StripMessage(s)) = Len(text)
<1> DEFINE m == <<NL>> \o text
           z == s \o u
           x == Erase(s, 1)
           w == WithoutLastNewline(x)
           L == Len(text)
<1>1. /\ m \in Seq(Symbols) /\ Len(m) = L + 1 /\ m[1] = NL
      /\ \A i \in 1..L : m[i + 1] = text[i]
  <2>1. NL \in Symbols
    BY HeaderSymbols
  <2> QED BY <2>1, FramedBytes
<1>2. /\ z = m /\ Len(z) = Len(s) + Len(u)
      /\ \A i \in 1..(Len(s) + Len(u)) : z[i] = IF i <= Len(s) THEN s[i] ELSE u[i - Len(s)]
  BY ConcatProperties
<1>3. Len(s) \in Nat /\ Len(u) \in Nat /\ L \in Nat /\ L # 0 /\ Len(s) >= L /\ text[L] # NL
  BY LenProperties
<1> HIDE DEF m, z, L
<1>4. Len(s) \in {L, L + 1} /\ Len(u) = L + 1 - Len(s) /\ 1 \in 1..Len(s)
  BY <1>1, <1>2, <1>3
<1>5. \A i \in 1..Len(s) : s[i] = m[i]
  <2> SUFFICES ASSUME NEW i \in 1..Len(s) PROVE s[i] = m[i]
    OBVIOUS
  <2>1. i \in 1..(Len(s) + Len(u)) /\ i <= Len(s)
    BY <1>3
  <2> QED BY <1>2, <2>1
<1>6. WithoutFirstNewline(s) = x
  <2>1. s[1] = NL
    BY <1>1, <1>4, <1>5
  <2>2. HasNewline(s)
    BY <1>4, <2>1, LenProperties DEF HasNewline
  <2>3. /\ FirstNewline(s) \in 1..Len(s)
        /\ \A j \in 1..(FirstNewline(s) - 1) : s[j] # NL
    BY <2>2, FirstNewlineIsFirst
  <2>4. ~(FirstNewline(s) > 1)
    <3> SUFFICES ASSUME FirstNewline(s) > 1 PROVE FALSE
      OBVIOUS
    <3>1. 1 \in 1..(FirstNewline(s) - 1)
      BY <2>3
    <3> QED BY <2>1, <2>3, <3>1
  <2>5. FirstNewline(s) = 1
    BY <1>3, <2>3, <2>4
  <2> QED BY <2>2, <2>5 DEF WithoutFirstNewline
<1>7. /\ x \in Seq(Symbols) /\ Len(x) = Len(s) - 1
      /\ \A j \in 1..(Len(s) - 1) : x[j] = text[j]
  <2>1. /\ x \in Seq(Symbols) /\ Len(x) = Len(s) - 1
        /\ \A j \in 1..(Len(s) - 1) : x[j] = IF j < 1 THEN s[j] ELSE s[j + 1]
    BY <1>4, EraseBytes
  <2> HIDE DEF x
  <2>2. ASSUME NEW j \in 1..(Len(s) - 1) PROVE x[j] = text[j]
    <3>1. j + 1 \in 1..Len(s) /\ j \in 1..L /\ ~(j < 1)
      BY <1>3, <1>4
    <3> QED BY <1>1, <1>5, <2>1, <3>1
  <2> QED BY <2>1, <2>2
<1> HIDE DEF x
<1>8. /\ w \in Seq(Symbols) /\ Len(w) \in Nat /\ Len(w) <= Len(x)
      /\ \A j \in 1..Len(w) : w[j] = x[j]
      /\ w = x \/ (Len(x) # 0 /\ x[Len(x)] = NL)
  <2>1. CASE x # <<>> /\ x[Len(x)] = NL
    <3>1. /\ w \in Seq(Symbols) /\ Len(w) = Len(x) - 1 /\ Len(x) \in Nat \ {0}
          /\ \A j \in 1..(Len(x) - 1) : w[j] = x[j]
      BY <1>7, <2>1, LastNewlineGone
    <3> HIDE DEF w
    <3> QED BY <2>1, <3>1
  <2>2. CASE ~(x # <<>> /\ x[Len(x)] = NL)
    <3>1. w = x
      BY <2>2 DEF WithoutLastNewline
    <3> QED BY <1>3, <1>4, <1>7, <3>1
  <2> QED BY <2>1, <2>2
<1> HIDE DEF w
<1>9. Len(w) <= L /\ \A j \in 1..Len(w) : w[j] = text[j]
  <2>1. Len(w) <= L
    BY <1>3, <1>4, <1>7, <1>8
  <2>2. ASSUME NEW j \in 1..Len(w) PROVE w[j] = text[j]
    <3>1. j \in 1..(Len(s) - 1)
      BY <1>3, <1>4, <1>7, <1>8
    <3> QED BY <1>7, <1>8, <3>1
  <2> QED BY <2>1, <2>2
<1>10. w = SubSeq(text, 1, Len(w))
  <2> DEFINE v == SubSeq(text, 1, Len(w))
  <2>1. Len(w) \in 0..Len(text)
    BY <1>3, <1>8, <1>9 DEF L
  <2>2. v \in Seq(Symbols) /\ Len(v) = Len(w) /\ \A i \in 1..Len(w) : v[i] = text[i]
    BY <2>1, RecvParts
  <2> HIDE DEF v
  <2>3. v = w
    BY <1>8, <1>9, <2>2, SeqEqual
  <2> QED BY <2>3 DEF v
<1>11. u = <<>> => Len(w) = L
  <2> SUFFICES ASSUME u = <<>> PROVE Len(w) = L
    OBVIOUS
  <2>1. Len(u) = 0
    BY EmptySeq
  <2>2. Len(s) = L + 1 /\ Len(x) = L /\ L \in 1..(Len(s) - 1)
    BY <1>3, <1>4, <1>7, <2>1
  <2>3. x[Len(x)] # NL
    BY <1>3, <1>7, <2>2
  <2> QED BY <1>8, <2>2, <2>3
<1>12. StripMessage(s) = w
  BY <1>6 DEF StripMessage, w
<1> QED BY <1>8, <1>9, <1>10, <1>11, <1>12 DEF L

LEMMA ShowMessageKeeps ==
  ASSUME IInv, ShowMessage
  PROVE  BuffersFit' /\ ServerSide' /\ ClientSide' /\ Stored' /\ ShownIsAnswer'
<1> USE DEF IInv
<1>1. /\ client_pc = "receive_message" /\ client_pc' = "prompt" /\ client_in' = <<>>
      /\ Len(client_in) >= length
      /\ shown' = [kind |-> "message", text |-> StripMessage(client_in)]
      /\ UNCHANGED <<wires, client_out, client_cache, length, commands, behind, handler>>
  BY DEF ShowMessage
<1>2. BuffersFit'
  BY <1>1 DEF BuffersFit, handler
<1>3. Incoming' = Incoming /\ ~Sending
  BY <1>1 DEF Incoming, Sending, handler, wires
<1>4. ServerSide'
  <2>1. UNCHANGED <<commands, behind, handler_pc, put_length, messages, alive>>
    BY <1>1 DEF handler
  <2> QED BY <1>1, <1>3, <2>1, ServerSideStays
<1>5. ClientSide'
  BY <1>1 DEF ClientSide, Sending
<1>6. Stored'
  <2>1. CASE behind
    BY <1>1, <2>1 DEF Stored
  <2>2. CASE ~behind
    <3>1. UNCHANGED <<messages, reply, commands, behind, handler_in, handler_pc, up>>
      BY <1>1 DEF handler, wires
    <3> QED BY <1>1, <2>2, <3>1, StoredStays
  <2> QED BY <2>1, <2>2
<1>7. ShownIsAnswer'
  <2>1. SUFFICES ASSUME ~behind PROVE ShownIsAnswer'
    BY <1>1 DEF ShownIsAnswer
  <2> DEFINE text == reply.text
             u == down \o handler_out
             w == StripMessage(client_in)
  <2>2. /\ reply.kind = "message" /\ length = Len(text) /\ length # 0
        /\ Outgoing = <<NL>> \o text
    BY <1>1, <2>1 DEF ClientSide
  <2>3. text \in Seq(Symbols) /\ text # <<>>
    BY <2>2, EmptySeq DEF TypeOK
  <2>4. text[Len(text)] # NL
    BY <2>1, <2>2, <2>3 DEF Stored
  <2>5. client_in \in Seq(Symbols) /\ u \in Seq(Symbols) /\ client_in \o u = <<NL>> \o text
    BY <2>2, Buffers, StreamBytes
  <2>6. Len(text) # 0 /\ Len(client_in) >= Len(text)
    BY <1>1, <2>2
  <2> HIDE DEF text, u
  <2>7. /\ Len(w) <= Len(text) /\ w = SubSeq(text, 1, Len(w))
        /\ u = <<>> => Len(w) = Len(text)
    <3> DEFINE s == client_in
    <3>1. s \in Seq(Symbols) /\ u \in Seq(Symbols) /\ text \in Seq(Symbols)
      BY <2>3, <2>5
    <3>2. Len(text) # 0 /\ text[Len(text)] # NL /\ Len(s) >= Len(text) /\ s \o u = <<NL>> \o text
      BY <2>4, <2>5, <2>6
    <3> HIDE DEF s, w
    <3>3. /\ Len(StripMessage(s)) <= Len(text)
          /\ StripMessage(s) = SubSeq(text, 1, Len(StripMessage(s)))
          /\ u = <<>> => Len(StripMessage(s)) = Len(text)
      BY <3>1, <3>2, MessageShown
    <3> QED BY <3>3 DEF s, w
  <2>8. shown'.kind = "message" /\ shown'.text = w
    BY <1>1
  <2> HIDE DEF w
  <2>9. reply' = reply /\ Said(reply) = text
    BY <1>1, <2>2 DEF Said, handler, text
  <2>10. Said(reply)' = text
    BY <1>1, <2>2 DEF Said, handler, text
  <2>11. (down' = <<>> /\ handler_out' = <<>>) => u = <<>>
    BY <1>1, EmptySeq, ConcatEmptySeq DEF wires, handler, u
  <2> QED BY <2>2, <2>7, <2>8, <2>9, <2>10, <2>11 DEF ShownIsAnswer
<1> QED BY <1>2, <1>4, <1>5, <1>6, <1>7

\* receive_list() shows the lines that have arrived, in order and without the
\* last newline; of the whole list all of it.
LEMMA ListLines ==
  ASSUME NEW N \in Nat, NEW p \in Seq(Symbols), NEW u \in Seq(Symbols),
         p \o u = ListBytes(N)
  PROVE  LET w == CompleteLines(p)
             said == WithoutLastNewline(ListBytes(N))
         IN  /\ w \in Seq(Symbols) /\ Len(w) <= Len(said) /\ w = SubSeq(said, 1, Len(w))
             /\ u = <<>> => Len(w) = Len(said)
             /\ u = <<>> /\ N # 0 => w # <<>>
<1> DEFINE b == ListBytes(N)
           said == WithoutLastNewline(b)
           ends == {i \in DOMAIN p : p[i] = NL}
           empty == {i \in ends : i = 1 \/ i - 1 \in ends}
           complete == {i \in ends : \A j \in empty : i < j}
           last == Max(complete \cup {0})
           v == SubSeq(p, 1, last)
           w == WithoutLastNewline(v)
           L == Len(p)
<1>1. /\ b \in Seq(Symbols) /\ Len(b) = 2 * N /\ 2 * N \in Nat
      /\ \A i \in 1..(2 * N) : b[i] = IF i % 2 = 1 THEN ListLine((i + 1) \div 2) ELSE NL
  <2>1. 2 * N \in Nat
    OBVIOUS
  <2> QED BY <2>1, ListBytesAre
<1>2. \A i \in 1..(2 * N) : b[i] = NL <=> i % 2 = 0
  <2>1. \A i : ListLine(i) # NL
    BY DEF ListLine, NL
  <2>2. \A i \in 1..(2 * N) : i % 2 = 0 <=> i % 2 # 1
    BY <1>1
  <2> HIDE DEF b
  <2> QED BY <1>1, <2>1, <2>2
<1> HIDE DEF b
<1>3. L \in Nat /\ Len(u) \in Nat /\ DOMAIN p = 1..L /\ L + Len(u) = 2 * N
      /\ \A i \in 1..L : p[i] = b[i]
  <2> DEFINE z == p \o u
  <2>1. /\ z = b /\ Len(z) = L + Len(u)
        /\ \A i \in 1..(L + Len(u)) : z[i] = IF i <= L THEN p[i] ELSE u[i - L]
    BY ConcatProperties DEF b
  <2>2. L \in Nat /\ Len(u) \in Nat /\ DOMAIN p = 1..L
    BY LenProperties
  <2> HIDE DEF z
  <2>3. ASSUME NEW i \in 1..L PROVE p[i] = b[i]
    <3>1. i \in 1..(L + Len(u)) /\ i <= L
      BY <2>2
    <3> QED BY <2>1, <3>1
  <2> QED BY <1>1, <2>1, <2>2, <2>3
<1> HIDE DEF L
<1>4. ends = {i \in 1..L : i % 2 = 0}
  <2>1. \A i \in 1..L : i \in 1..(2 * N)
    BY <1>1, <1>3
  <2> QED BY <1>2, <1>3, <2>1
<1> HIDE DEF ends
<1>5. empty = {}
  <2> SUFFICES ASSUME NEW i \in ends, i = 1 \/ i - 1 \in ends PROVE FALSE
    OBVIOUS
  <2>1. i \in Nat /\ i % 2 = 0
    BY <1>3, <1>4
  <2>2. i # 1 /\ (i - 1) % 2 # 0
    BY <2>1
  <2>3. i - 1 \in ends => (i - 1) % 2 = 0
    BY <1>4
  <2> QED BY <2>2, <2>3
<1>6. complete = ends
  BY <1>5
<1> HIDE DEF empty, complete
<1>7. /\ last \in ends \cup {0} /\ \A y \in ends \cup {0} : y <= last
      /\ last \in 0..L
  <2>1. ends \cup {0} \subseteq 0..L /\ ends \cup {0} # {}
    BY <1>3, <1>4
  <2> QED BY <1>3, <1>6, <2>1, MaxOfLengths
<1>8. /\ v \in Seq(Symbols) /\ Len(v) = last /\ \A i \in 1..last : v[i] = p[i]
  <2> HIDE DEF last
  <2> QED BY <1>7, RecvParts DEF L
<1> HIDE DEF last, v
<1>9. CompleteLines(p) = w
  BY DEF CompleteLines, w, v, last, complete, empty, ends
<1>10. /\ w \in Seq(Symbols) /\ Len(w) = (IF last = 0 THEN 0 ELSE last - 1)
       /\ \A j \in 1..Len(w) : w[j] = b[j]
  <2>1. CASE last = 0
    <3>1. v = <<>>
      BY <1>8, <2>1, EmptySeq
    <3>2. w = <<>>
      BY <3>1 DEF WithoutLastNewline
    <3> QED BY <2>1, <3>2, EmptySeq
  <2>2. CASE last # 0
    <3>1. last \in 1..L /\ last % 2 = 0 /\ last \in 1..last /\ last \in 1..(2 * N)
      BY <1>1, <1>3, <1>4, <1>7, <2>2
    <3>2. v[Len(v)] = NL
      BY <1>2, <1>3, <1>8, <3>1
    <3>3. v # <<>>
      BY <1>8, <2>2, EmptySeq
    <3>4. w \in Seq(Symbols) /\ Len(w) = Len(v) - 1 /\ \A j \in 1..(Len(v) - 1) : w[j] = v[j]
      BY <1>8, <3>2, <3>3, LastNewlineGone
    <3> HIDE DEF w
    <3>5. ASSUME NEW j \in 1..(last - 1) PROVE w[j] = b[j]
      <4>1. j \in 1..L /\ j \in 1..last
        BY <1>3, <3>1
      <4> QED BY <1>3, <1>8, <3>4, <4>1
    <3> QED BY <1>8, <2>2, <3>4, <3>5
  <2> QED BY <2>1, <2>2
<1> HIDE DEF w
<1>11. /\ said \in Seq(Symbols) /\ Len(said) = (IF N = 0 THEN 0 ELSE 2 * N - 1)
       /\ \A j \in 1..Len(said) : said[j] = b[j]
  <2>1. CASE N = 0
    <3>1. b = <<>>
      BY <1>1, <2>1, EmptySeq
    <3>2. said = <<>>
      BY <3>1 DEF WithoutLastNewline
    <3> QED BY <2>1, <3>2, EmptySeq
  <2>2. CASE N # 0
    <3>1. 2 * N \in 1..(2 * N) /\ (2 * N) % 2 = 0
      BY <1>1, <2>2
    <3>2. b[Len(b)] = NL
      BY <1>1, <1>2, <3>1
    <3>3. b # <<>>
      BY <1>1, <2>2, EmptySeq
    <3>4. /\ said \in Seq(Symbols) /\ Len(said) = Len(b) - 1
          /\ \A j \in 1..(Len(b) - 1) : said[j] = b[j]
      BY <1>1, <3>2, <3>3, LastNewlineGone
    <3> QED BY <1>1, <2>2, <3>4
  <2> QED BY <2>1, <2>2
<1> HIDE DEF said
<1>12. Len(w) <= Len(said) /\ Len(w) \in 0..Len(said)
  <2>1. last \in Nat /\ last <= 2 * N
    BY <1>3, <1>7
  <2>2. CASE N = 0
    <3>1. last = 0
      BY <2>1, <2>2
    <3> QED BY <1>10, <1>11, <2>2, <3>1
  <2>3. CASE N # 0
    <3>1. Len(said) = 2 * N - 1 /\ Len(w) \in Nat /\ Len(w) <= 2 * N - 1
      BY <1>10, <1>11, <2>1, <2>3
    <3> QED BY <3>1
  <2> QED BY <2>2, <2>3
<1>13. w = SubSeq(said, 1, Len(w))
  <2> DEFINE x == SubSeq(said, 1, Len(w))
  <2>1. x \in Seq(Symbols) /\ Len(x) = Len(w) /\ \A i \in 1..Len(w) : x[i] = said[i]
    BY <1>11, <1>12, RecvParts
  <2> HIDE DEF x
  <2>2. \A i \in 1..Len(w) : i \in 1..Len(said)
    BY <1>12
  <2>3. \A i \in 1..Len(w) : x[i] = w[i]
    BY <1>10, <1>11, <2>1, <2>2
  <2>4. x = w
    BY <1>10, <2>1, <2>3, SeqEqual
  <2> QED BY <2>4 DEF x
<1>14. ASSUME u = <<>>
       PROVE  Len(w) = Len(said) /\ (N # 0 => w # <<>>)
  <2>1. L = 2 * N
    <3>1. Len(u) = 0
      BY <1>14, EmptySeq
    <3> QED BY <1>1, <1>3, <3>1
  <2>2. CASE N = 0
    BY <1>10, <1>11, <1>7, <2>1, <2>2
  <2>3. CASE N # 0
    <3>1. 2 * N \in ends
      BY <1>1, <1>4, <2>1, <2>3
    <3>2. last = 2 * N
      BY <1>1, <1>7, <2>1, <3>1
    <3>3. Len(w) = 2 * N - 1 /\ Len(w) # 0
      BY <1>1, <1>10, <2>3, <3>2
    <3> QED BY <1>11, <2>3, <3>3, EmptySeq
  <2> QED BY <2>2, <2>3
<1> QED BY <1>9, <1>10, <1>12, <1>13, <1>14 DEF said, b

\* Which header was read tells which answer it is.
LEMMA ReplyHeaders ==
  ASSUME NEW r \in Replies
  PROVE  /\ ReplyHeader(r).sym = "OK" <=> r.kind = "OK"
         /\ ReplyHeader(r).sym = "list of" <=> r.kind = "list"
         /\ ReplyHeader(r).sym = "message" <=> r.kind = "message"
         /\ r.kind = "list" => ReplyHeader(r).number = Len(r.text)
         /\ r.kind = "message" => ReplyHeader(r).length = Len(r.text)
<1>1. CASE r.kind = "OK"
  BY <1>1 DEF ReplyHeader, OkHeader
<1>2. CASE r.kind = "list"
  BY <1>2 DEF ReplyHeader, NumberHeader
<1>3. CASE r.kind = "message"
  BY <1>3 DEF ReplyHeader, MessageHeader
<1>4. CASE r.kind \notin {"OK", "list", "message"}
  BY <1>4 DEF ReplyHeader, ErrorHeader
<1> QED BY <1>1, <1>2, <1>3, <1>4

\* What the cache and what is still to be read are together.
AfterHeader(s) == <<NL>> \o s

LEMMA CacheTail ==
  ASSUME NEW cache \in Seq(Symbols), NEW u \in Seq(Symbols), NEW s \in Seq(Symbols),
         cache # <<>>, cache \o u = AfterHeader(s)
  PROVE  Tail(cache) \in Seq(Symbols) /\ Tail(cache) \o u = s
<1> DEFINE p == Tail(cache)
           w == p \o u
           z == cache \o u
           m == AfterHeader(s)
<1>1. /\ p \in Seq(Symbols) /\ Len(p) = Len(cache) - 1
      /\ \A i \in 1..Len(p) : p[i] = cache[i + 1]
  BY HeadTailProperties
<1> HIDE DEF p
<1>2. Len(cache) \in Nat /\ Len(cache) >= 1 /\ Len(s) \in Nat
  <2>1. Len(cache) \in Nat /\ Len(cache) # 0 /\ Len(s) \in Nat
    BY EmptySeq, LenProperties
  <2> QED BY <2>1
<1>3. /\ w \in Seq(Symbols) /\ Len(w) = Len(z) - 1
      /\ \A i \in 1..(Len(z) - 1) : w[i] = z[i + 1]
  <2>1. /\ p \in Seq(Symbols) /\ Len(cache) >= 1 /\ Len(p) = Len(cache) - 1
        /\ \A i \in 1..(Len(cache) - 1) : p[i] = cache[i + 1]
    BY <1>1, <1>2
  <2>2. /\ p \o u \in Seq(Symbols) /\ Len(p \o u) = Len(cache \o u) - 1
        /\ Len(cache \o u) >= 1
        /\ \A i \in 1..(Len(cache \o u) - 1) : (p \o u)[i] = (cache \o u)[i + 1]
    BY <2>1, ShiftConcat
  <2> QED BY <2>2
<1>4. z = m /\ Len(m) = Len(s) + 1 /\ \A i \in 1..Len(s) : m[i + 1] = s[i]
  <2>1. NL \in Symbols
    BY HeaderSymbols
  <2> QED BY <2>1, FramedBytes DEF AfterHeader
<1> HIDE DEF w, z, m
<1>5. Len(w) = Len(s) /\ \A i \in 1..Len(w) : w[i] = s[i]
  <2>1. Len(w) = Len(s) /\ Len(z) - 1 = Len(s)
    BY <1>2, <1>3, <1>4
  <2>2. \A i \in 1..Len(s) : w[i] = z[i + 1]
    BY <1>3, <2>1
  <2> QED BY <1>4, <2>1, <2>2
<1>6. w = s
  BY <1>3, <1>5, SeqEqual
<1> QED BY <1>1, <1>6 DEF p, w

\* f is what the client shows of the answer r while u of it is still to be read.
AnswerFits(f, r, u) ==
  /\ \/ f.kind = r.kind
     \/ /\ f.kind = "error"
        /\ \/ r.kind \in {"list", "message"} /\ r.text = <<>>
           \/ r.kind = "list" /\ u # <<>>
  /\ Len(f.text) <= Len(Said(r))
  /\ f.text = SubSeq(Said(r), 1, Len(f.text))
  /\ u = <<>> => Len(f.text) = Len(Said(r))

LEMMA EmptyCut ==
  ASSUME NEW s \in Seq(Symbols)
  PROVE  <<>> = SubSeq(s, 1, 0)
<1>1. 0 \in 0..Len(s)
  BY LenProperties
<1>2. SubSeq(s, 1, 0) \in Seq(Symbols) /\ Len(SubSeq(s, 1, 0)) = 0
  BY <1>1, RecvParts
<1> QED BY <1>2, EmptySeq

LEMMA AnswerShown ==
  ASSUME NEW r \in Replies, r \in {Failure, Ok} \/ r.kind \in {"list", "message"},
         NEW line \in Seq(Symbols), Len(line) = 1, line[1] = ReplyHeader(r),
         ~IsMessage(line), NEW cache \in Seq(Symbols), NEW u \in Seq(Symbols),
         cache # <<>>, cache \o u = AfterHeader(ReplyText(r))
  PROVE  AnswerFits(Format(line, cache), r, u)
<1> DEFINE p == Tail(cache)
<1>1. r.text \in Seq(Symbols) /\ Len(r.text) \in Nat
  <2>1. r.text \in Seq(Symbols)
    BY DEF Replies
  <2> QED BY <2>1, LenProperties
<1>2. CASE r \in {Failure, Ok}
  <2>1. r.text = <<>> /\ r.kind \in {"OK", "error"} /\ r = (IF r.kind = "OK" THEN Ok ELSE Failure)
    BY <1>2 DEF Failure, Ok
  <2>2. Said(r) = <<>>
    BY <2>1 DEF Said
  <2>3. Format(line, cache) = r
    <3>1. CASE r.kind = "OK"
      <4>1. line[1].sym = "OK"
        BY <3>1, ReplyHeaders
      <4> QED BY <2>1, <3>1, <4>1 DEF Format
    <3>2. CASE r.kind = "error"
      <4>1. line[1].sym # "OK" /\ line[1].sym # "list of"
        BY <3>2, ReplyHeaders
      <4> QED BY <2>1, <3>2, <4>1 DEF Format
    <3> QED BY <2>1, <3>1, <3>2
  <2>4. <<>> \in Seq(Symbols) /\ Len(<<>>) = 0 /\ <<>> = SubSeq(<<>>, 1, 0)
    BY EmptySeq, EmptyCut
  <2> HIDE DEF p
  <2>5. AnswerFits(r, r, u)
    BY <2>1, <2>2, <2>4 DEF AnswerFits
  <2> QED BY <2>3, <2>5
<1>3. CASE r.kind = "message"
  <2>1. line[1].sym = "message" /\ line[1].length = Len(r.text)
    BY <1>3, ReplyHeaders
  <2>2. Len(r.text) = 0
    BY <2>1 DEF IsMessage
  <2>3. r.text = <<>>
    BY <1>1, <2>2, EmptySeq
  <2>4. Format(line, cache) = Failure /\ Said(r) = <<>>
    BY <1>3, <2>1, <2>3 DEF Format, Said
  <2> QED BY <1>3, <2>3, <2>4, EmptySeq, EmptyCut DEF AnswerFits, Failure
<1>4. CASE r.kind = "list"
  <2>1. line[1].sym = "list of" /\ line[1].number = Len(r.text)
    BY <1>4, ReplyHeaders
  <2> DEFINE N == Len(r.text)
             b == ListBytes(N)
             w == CompleteLines(p)
             said == WithoutLastNewline(b)
  <2>2. b \in Seq(Symbols) /\ ReplyText(r) = b /\ Said(r) = said
    BY <1>1, <1>4, ListBytesAre DEF ReplyText, Said
  <2> HIDE DEF b
  <2>3. p \in Seq(Symbols) /\ p \o u = b
    <3>1. cache \o u = AfterHeader(b)
      BY <2>2
    <3>2. b \in Seq(Symbols)
      BY <2>2
    <3>3. Tail(cache) \in Seq(Symbols) /\ Tail(cache) \o u = b
      BY <3>1, <3>2, CacheTail
    <3> QED BY <3>3
  <2>4. said \in Seq(Symbols)
    BY <2>2, StrippedEnd
  <2> HIDE DEF p
  <2>5. /\ Len(w) <= Len(said) /\ w = SubSeq(said, 1, Len(w))
        /\ u = <<>> => Len(w) = Len(said)
        /\ u = <<>> /\ N # 0 => w # <<>>
    BY <1>1, <2>3, ListLines DEF b
  <2> HIDE DEF w, said
  <2>6. CASE N # 0 /\ w # <<>>
    <3>1. Format(line, cache) = [kind |-> "list", text |-> w]
      BY <2>1, <2>6 DEF Format, p, w
    <3> QED BY <1>4, <2>2, <2>5, <3>1 DEF AnswerFits
  <2>7. CASE N = 0
    <3>1. Format(line, cache) = Failure
      BY <2>1, <2>7 DEF Format
    <3>2. r.text = <<>>
      BY <1>1, <2>7, EmptySeq
    <3>3. said = <<>>
      <4>1. b = <<>>
        BY <2>2, <2>7, ListBytesAre, EmptySeq DEF b
      <4> QED BY <4>1 DEF said, WithoutLastNewline
    <3> QED BY <1>4, <2>2, <3>1, <3>2, <3>3, EmptySeq, EmptyCut DEF AnswerFits, Failure
  <2>8. CASE N # 0 /\ w = <<>>
    <3>1. Format(line, cache) = Failure
      BY <2>1, <2>8 DEF Format, p, w
    <3>2. u # <<>>
      BY <2>5, <2>8
    <3>3. <<>> = SubSeq(said, 1, 0) /\ Len(said) >= 0
      BY <2>4, EmptyCut, LenProperties
    <3> QED BY <1>4, <2>2, <3>1, <3>2, <3>3, EmptySeq DEF AnswerFits, Failure
  <2> QED BY <2>6, <2>7, <2>8
<1> QED BY <1>2, <1>3, <1>4

LEMMA NonEmpty ==
  ASSUME NEW a \in Seq(Symbols), NEW u \in Seq(Symbols), a # <<>>
  PROVE  a \o u # <<>>
<1> DEFINE z == a \o u
<1>1. Len(a) \in Nat /\ Len(u) \in Nat /\ Len(a) # 0
  BY EmptySeq, LenProperties
<1>2. Len(z) = Len(a) + Len(u)
  BY ConcatProperties
<1> HIDE DEF z
<1>3. Len(z) # 0
  BY <1>1, <1>2
<1>4. z # <<>>
  BY <1>3, EmptySeq
<1> QED BY <1>4 DEF z

\* The header of the answer has been read: the newline after it and the text
\* are in the cache or still to be read.
LEMMA ReplyRead ==
  ASSUME NEW r \in Replies, NEW a \in Seq(Symbols), NEW u \in Seq(Symbols),
         HasNewline(a), a \o u = ReplyBytes(r)
  PROVE  /\ LineOf(a) \in Seq(Symbols) /\ Len(LineOf(a)) = 1 /\ LineOf(a)[1] = ReplyHeader(r)
         /\ RestOf(a) \in Seq(Symbols) /\ RestOf(a) # <<>>
         /\ RestOf(a) \o u = AfterHeader(ReplyText(r))
<1> DEFINE h == ReplyHeader(r)
           s == ReplyText(r)
           f == <<h, NL>> \o s
<1>1. h \in Symbols /\ h # NL /\ s \in Seq(Symbols) /\ ReplyBytes(r) = f
  BY ReplyIsFramed
<1> HIDE DEF h, s
<1>2. f \in Seq(Symbols)
  BY <1>1, FramedBytes
<1> HIDE DEF f
<1>3. Part("prompt", a \o u, f)
  <2>1. a \o u = f /\ Len(f) \in Nat
    BY <1>1, <1>2, LenProperties
  <2> QED BY <2>1 DEF Part, Begins
<1>4. Part("prompt", a \o u, <<h, NL>> \o s)
  BY <1>3 DEF f
<1>5. /\ Len(LineOf(a)) = 1 /\ LineOf(a)[1] = h
      /\ RestOf(a) \in Seq(Symbols) /\ RestOf(a) # <<>>
      /\ Part("prompt", RestOf(a) \o u, <<NL>> \o s)
  BY <1>1, <1>4, HeaderRead
<1>6. RestOf(a) \o u = <<NL>> \o s
  BY <1>5 DEF Part
<1>7. LineOf(a) \in Seq(Symbols)
  BY LineAndRest
<1> QED BY <1>5, <1>6, <1>7 DEF h, s, AfterHeader

LEMMA GetResponseKeeps ==
  ASSUME IInv, GetResponse, TypeOK'
  PROVE  BuffersFit' /\ ServerSide' /\ ClientSide' /\ Stored' /\ ShownIsAnswer'
<1> USE DEF IInv
<1>1. /\ client_pc = "get_response" /\ UNCHANGED <<up, client_out, commands, behind, handler>>
  BY DEF GetResponse
<1> DEFINE response(n) == client_in \o SubSeq(down, 1, n)
           rest(n) == SubSeq(down, n + 1, Len(down))
           cache(n) == client_cache \o RestOf(response(n))
<1>2. PICK n \in 1..Len(down) :
        /\ down' = rest(n)
        /\ IF ~HasNewline(response(n))
           THEN /\ client_in' = response(n)
                /\ UNCHANGED <<client_pc, client_cache, length, shown>>
           ELSE /\ client_cache' = cache(n)
                /\ IF IsMessage(LineOf(response(n)))
                   THEN /\ client_pc' = "receive_message"
                        /\ client_in' = cache(n)
                        /\ length' = LineOf(response(n))[1].length
                        /\ UNCHANGED shown
                   ELSE /\ client_pc' = "prompt"
                        /\ client_in' = <<>>
                        /\ shown' = Format(LineOf(response(n)), cache(n))
                        /\ UNCHANGED length
  BY DEF GetResponse
<1> DEFINE a == response(n)
           u == down' \o handler_out'
<1>3. /\ client_in \in Seq(Symbols) /\ down \in Seq(Symbols) /\ handler_out \in Seq(Symbols)
      /\ client_cache \in Seq(Symbols)
  BY Buffers
<1>4. /\ a \in Seq(Symbols) /\ rest(n) \in Seq(Symbols) /\ a \o rest(n) = client_in \o down
      /\ a # <<>>
  BY <1>3, RecvSome
<1> HIDE DEF response, rest
<1>5. u \in Seq(Symbols) /\ Outgoing = a \o u /\ Outgoing # <<>>
  <2>1. /\ rest(n) \o handler_out \in Seq(Symbols)
        /\ (a \o rest(n)) \o handler_out = a \o (rest(n) \o handler_out)
    <3> DEFINE v == rest(n)
    <3>1. a \in Seq(Symbols) /\ v \in Seq(Symbols) /\ handler_out \in Seq(Symbols)
      BY <1>3, <1>4
    <3> HIDE DEF v, a
    <3>2. v \o handler_out \in Seq(Symbols) /\ (a \o v) \o handler_out = a \o (v \o handler_out)
      BY <3>1, ConcatThree
    <3> QED BY <3>2 DEF v, a
  <2>2. u = rest(n) \o handler_out
    BY <1>1, <1>2 DEF handler
  <2>3. Outgoing = a \o u
    BY <1>4, <2>1, <2>2 DEF Outgoing
  <2> QED BY <1>4, <2>1, <2>2, <2>3, NonEmpty
<1>6. Incoming' = Incoming /\ Sending
  BY <1>1 DEF Incoming, Sending, handler
<1>7. Outgoing' = client_in' \o u
  BY StreamBytesNext
<1>8. /\ UNCHANGED <<commands, behind, handler_pc, put_length, messages, alive, reply,
                     handler_in, up, client_out>>
      /\ client_pc' \in {"get_response", "receive_message", "prompt"}
  BY <1>1, <1>2 DEF handler
<1>9. Stored'
  <2>1. CASE behind
    BY <1>8, <2>1 DEF Stored
  <2>2. CASE ~behind
    BY <1>1, <1>8, <2>2, StoredStays
  <2> QED BY <2>1, <2>2
<1>10. ServerSide'
  BY <1>1, <1>5, <1>6, <1>8, ServerSideStays
<1>11. BuffersFit'
  <2>1. client_pc' = "prompt" => client_in' = <<>>
    BY <1>1, <1>2
  <2> QED BY <1>1, <1>8, <2>1 DEF BuffersFit, handler
<1>12. CASE ~HasNewline(a)
  <2>1. client_in' = a /\ UNCHANGED <<client_pc, client_cache, length>>
    BY <1>2, <1>12
  <2>2. Outgoing' = Outgoing
    BY <1>5, <1>7, <2>1
  <2>3. ClientSide'
    BY <1>1, <1>6, <1>8, <1>12, <2>1, <2>2 DEF ClientSide, Sending
  <2>4. ShownIsAnswer'
    BY <1>1, <2>1 DEF ShownIsAnswer
  <2> QED BY <1>9, <1>10, <1>11, <2>3, <2>4
<1>13. CASE HasNewline(a) /\ behind
  BY <1>8, <1>9, <1>10, <1>11, <1>13 DEF ClientSide, ShownIsAnswer
<1>14. CASE HasNewline(a) /\ ~behind
  <2> DEFINE line == LineOf(a)
             c == RestOf(a)
  <2>1. client_cache = <<>> /\ reply # Nothing /\ a \o u = ReplyBytes(reply)
    BY <1>5, <1>6, <1>14 DEF ClientSide
  <2>2. reply \in Replies
    BY DEF TypeOK, Replies
  <2>3. /\ line \in Seq(Symbols) /\ Len(line) = 1 /\ line[1] = ReplyHeader(reply)
        /\ c \in Seq(Symbols) /\ c # <<>> /\ c \o u = AfterHeader(ReplyText(reply))
    <3> HIDE DEF u
    <3> QED BY <1>4, <1>5, <1>14, <2>1, <2>2, ReplyRead
  <2>4. cache(n) = c
    BY <2>1, <2>3, ConcatEmptySeq
  <2> HIDE DEF line, c, cache
  <2>5. CASE IsMessage(line)
    <3>1. client_pc' = "receive_message" /\ client_in' = c /\ length' = line[1].length
      BY <1>2, <1>14, <2>4, <2>5 DEF line
    <3>2. line[1].sym = "message" /\ line[1].length # 0
      BY <2>5 DEF IsMessage
    <3>3. reply.kind = "message" /\ length' = Len(reply.text) /\ length' # 0
      BY <2>2, <2>3, <3>1, <3>2, ReplyHeaders
    <3>4. Outgoing' = <<NL>> \o reply.text
      BY <1>7, <2>3, <3>1, <3>3 DEF AfterHeader, ReplyText
    <3>5. ClientSide'
      BY <1>8, <3>1, <3>3, <3>4 DEF ClientSide, Sending
    <3>6. ShownIsAnswer'
      BY <3>1 DEF ShownIsAnswer
    <3> QED BY <1>9, <1>10, <1>11, <3>5, <3>6
  <2>6. CASE ~IsMessage(line)
    <3>1. client_pc' = "prompt" /\ shown' = Format(line, c)
      BY <1>2, <1>14, <2>4, <2>6 DEF line
    <3>2. ClientSide'
      BY <3>1 DEF ClientSide, Sending
    <3>3. reply \in {Failure, Ok} \/ reply.kind \in {"list", "message"}
      BY <2>1 DEF BuffersFit
    <3>4. AnswerFits(Format(line, c), reply, u)
      <4> HIDE DEF u
      <4> QED BY <1>5, <2>2, <2>3, <2>6, <3>3, AnswerShown
    <3>5. AnswerFits(shown', reply, u)
      BY <3>1, <3>4
    <3>6. (down' = <<>> /\ handler_out' = <<>>) => u = <<>>
      BY EmptySeq, ConcatEmptySeq
    <3>7. Said(reply)' = Said(reply)
      BY <1>8 DEF Said
    <3> HIDE DEF u
    <3>8. ShownIsAnswer'
      BY <1>8, <3>5, <3>6, <3>7 DEF ShownIsAnswer, AnswerFits
    <3> QED BY <1>9, <1>10, <1>11, <3>2, <3>8
  <2> QED BY <2>5, <2>6
<1> QED BY <1>12, <1>13, <1>14

-----------------------------------------------------------------------------
(* The steps of the server.                                                *)

\* The header of a request has been read: the newline after it and a message
\* are in the cache or still to be read.
LEMMA RequestRead ==
  ASSUME NEW k \in Nat, NEW c \in Commands, NEW a \in Seq(Symbols),
         NEW u \in Seq(Symbols), NEW at, HasNewline(a),
         Part(at, a \o u, RequestBytes(k, c))
  PROVE  /\ LineOf(a) \in Seq(Symbols) /\ Len(LineOf(a)) = 1
         /\ LineOf(a)[1] = RequestHeader(c)
         /\ RestOf(a) \in Seq(Symbols) /\ RestOf(a) # <<>>
         /\ Part(at, RestOf(a) \o u, AfterHeader(RequestText(k, c)))
<1> DEFINE h == RequestHeader(c)
           s == RequestText(k, c)
<1>1. h \in Symbols /\ h # NL /\ s \in Seq(Symbols)
      /\ RequestBytes(k, c) = <<h, NL>> \o s
  BY RequestIsFramed
<1> HIDE DEF h, s
<1>2. Part(at, a \o u, <<h, NL>> \o s)
  BY <1>1
<1>3. /\ Len(LineOf(a)) = 1 /\ LineOf(a)[1] = h
      /\ RestOf(a) \in Seq(Symbols) /\ RestOf(a) # <<>>
      /\ Part(at, RestOf(a) \o u, <<NL>> \o s)
  BY <1>1, <1>2, HeaderRead
<1>4. LineOf(a) \in Seq(Symbols)
  BY LineAndRest
<1> QED BY <1>3, <1>4 DEF h, s, AfterHeader

\* After a request without a message nothing of it is left.
LEMMA NoMessageLeft ==
  ASSUME NEW b \in Seq(Symbols), NEW u \in Seq(Symbols), NEW at, b # <<>>,
         Part(at, b \o u, AfterHeader(<<>>))
  PROVE  u = <<>>
<1> DEFINE z == b \o u
           m == AfterHeader(<<>>)
<1>1. Len(m) = 1
  <2>1. NL \in Symbols /\ <<>> \in Seq(Symbols) /\ Len(<<>>) = 0
    BY HeaderSymbols, EmptySeq
  <2>2. Len(<<NL>> \o <<>>) = Len(<<>>) + 1
    BY <2>1, FramedBytes
  <2> QED BY <2>1, <2>2 DEF AfterHeader
<1>2. Len(b) \in Nat /\ Len(u) \in Nat /\ Len(b) # 0
  BY EmptySeq, LenProperties
<1>3. Len(z) = Len(b) + Len(u)
  BY ConcatProperties
<1>4. Len(z) <= Len(m)
  BY DEF Part, Begins
<1> HIDE DEF z, m
<1>5. Len(u) = 0
  BY <1>1, <1>2, <1>3, <1>4
<1> QED BY <1>5, EmptySeq

LEMMA AnswerKeeps ==
  ASSUME IInv, TypeOK', NEW r \in Replies, Answer(r), UNCHANGED <<down, client>>,
         r \in {Failure, Ok} \/ r.kind \in {"list", "message"},
         ~behind => client_pc = "left" \/ (Sending /\ Outgoing = <<>>),
         ~behind => \E t \in Leftovers : Part(client_pc, up' \o client_out, t)
  PROVE  BuffersFit' /\ ServerSide' /\ ClientSide' /\ ShownIsAnswer'
<1> USE DEF IInv
<1>1. /\ reply' = r /\ handler_out' = ReplyBytes(r) /\ handler_cache' = <<>>
      /\ handler_in' = <<>> /\ handler_pc' = "send_response"
  BY DEF Answer
<1>2. UNCHANGED <<client_pc, client_out, client_in, client_cache, length, shown,
                  commands, behind, down>>
  BY DEF client
<1>3. handler_out' # <<>>
  BY <1>1, ReplyIsWritten
<1>4. BuffersFit'
  BY <1>1, <1>2, <1>3 DEF BuffersFit
<1>5. CASE behind
  BY <1>1, <1>2, <1>4, <1>5 DEF ServerSide, ClientSide, ShownIsAnswer
<1>6. CASE ~behind
  <2>1. client_pc = "left" \/ (Sending /\ Outgoing = <<>>)
    BY <1>6
  <2>2. ShownIsAnswer'
    BY <1>2, <2>1 DEF ShownIsAnswer, Sending
  <2>3. AtAnswer'
    <3>1. PICK t \in Leftovers : Part(client_pc, up' \o client_out, t)
      BY <1>6
    <3> DEFINE w == up' \o client_out'
    <3>2. up' \in Seq(Symbols) /\ client_out' \in Seq(Symbols)
      BY DEF TypeOK
    <3>3. w \in Seq(Symbols)
      BY <3>2, ConcatProperties
    <3>4. Incoming' = handler_in' \o w
      BY StreamBytesNext
    <3> HIDE DEF w
    <3>5. Incoming' = w
      BY <1>1, <3>3, <3>4, ConcatEmptySeq
    <3>6. Part(client_pc', Incoming', t)
      BY <1>2, <3>1, <3>5 DEF w
    <3> QED BY <3>6 DEF AtAnswer
  <2>4. ServerSide'
    BY <1>1, <2>3 DEF ServerSide
  <2>5. ASSUME Outgoing = <<>>
        PROVE  Outgoing' = ReplyBytes(r)
    <3> DEFINE z == client_in \o down
               o == ReplyBytes(r)
    <3>1. z \in Seq(Symbols) /\ handler_out \in Seq(Symbols)
      BY StreamBytes, Buffers
    <3>2. Outgoing' = z \o o /\ Outgoing = z \o handler_out
      BY <1>1, <1>2 DEF Outgoing
    <3>3. o \in Seq(Symbols)
      BY ReplyIsWritten
    <3> HIDE DEF z, o
    <3>4. z = <<>>
      BY <2>5, <3>1, <3>2, NonEmpty
    <3> QED BY <3>2, <3>3, <3>4, ConcatEmptySeq DEF o
  <2>6. r # Nothing
    BY DEF Nothing, Failure, Ok
  <2>7. ClientSide'
    BY <1>1, <1>2, <1>6, <2>1, <2>5, <2>6 DEF ClientSide, Sending
  <2> QED BY <1>4, <2>2, <2>4, <2>7
<1> QED BY <1>5, <1>6

LEMMA StoreMessageKeeps ==
  ASSUME IInv, StoreMessage, TypeOK'
  PROVE  BuffersFit' /\ ServerSide' /\ ClientSide' /\ Stored' /\ ShownIsAnswer'
<1> USE DEF IInv
<1>1. /\ alive /\ handler_pc = "receive_message" /\ Answer(Ok)
      /\ UNCHANGED <<wires, client, put_length, alive>>
  BY DEF StoreMessage
<1>2. UNCHANGED <<up, down, client_pc, client_out, commands, behind>>
      /\ handler_in' = <<>> /\ handler_pc' = "send_response" /\ reply' = Ok
  BY <1>1 DEF Answer, wires, client
<1>3. Ok \in Replies
  BY RepliesAre
<1>4. CASE behind
  <2>1. Stored'
    BY <1>2, <1>4 DEF Stored
  <2> QED BY <1>1, <1>2, <1>3, <1>4, <2>1, AnswerKeeps DEF wires
<1>5. CASE ~behind
  <2>1. AtMessage /\ Unanswered
    BY <1>1, <1>5 DEF ServerSide, AtMessage
  <2>2. K \in DOMAIN commands /\ Sent(K)
    BY <2>1, LastRequest DEF AtMessage, Unanswered, Sent
  <2> DEFINE l == commands[K].lines
             u == up \o client_out
             N == Len(messages)
  <2>3. /\ K \in Nat /\ l \in Nat \ {0} /\ Typed(K) = WithoutLastNewline(Body(K, l))
        /\ Typed(K) \in Seq(Symbols) /\ Typed(K) # <<>> /\ Typed(K)[1].of = K
    BY <2>2, TypedBytes
  <2>4. put_length = 2 * l /\ Part(client_pc, handler_in \o u, <<NL>> \o Body(K, l))
    BY <2>1, StreamBytes DEF AtMessage
  <2>5. handler_in \in Seq(Symbols) /\ u \in Seq(Symbols)
    BY Buffers, StreamBytes
  <2>6. messages \in Seq(Seq(Symbols)) /\ N \in Nat /\ DOMAIN messages = 1..N
    BY LenProperties DEF TypeOK
  <2>7. \A i \in DOMAIN messages : messages[i] # <<>>
    BY <1>1, <1>5 DEF Stored
  <2>8. ASSUME NEW m \in Seq(Symbols), messages' = Append(messages, m)
        PROVE  /\ DOMAIN messages' = 1..(N + 1) /\ Len(messages') = N + 1
               /\ messages'[N + 1] = m
               /\ \A i \in 1..N : messages'[i] = messages[i]
    <3>1. /\ messages' \in Seq(Seq(Symbols)) /\ Len(messages') = N + 1
          /\ messages'[N + 1] = m /\ \A i \in 1..N : messages'[i] = messages[i]
      BY <2>6, <2>8, AppendProperties
    <3> QED BY <3>1, LenProperties
  <2> HIDE DEF l, u
  <2>9. /\ \E t \in Leftovers : Part(client_pc, u, t)
        /\ Stored'
    <3>1. CASE Len(handler_in) >= put_length /\ messages' = Append(messages, StripMessage(handler_in))
      <4>1. Len(handler_in) >= 2 * l
        BY <2>4, <3>1
      <4>2. StripMessage(handler_in) = Typed(K) /\ \E t \in Leftovers : Part(client_pc, u, t)
        BY <2>3, <2>4, <2>5, <4>1, MessageRead
      <4>3. /\ DOMAIN messages' = 1..(N + 1) /\ messages'[N + 1] = Typed(K)
            /\ \A i \in 1..N : messages'[i] = messages[i]
        BY <2>3, <2>8, <3>1, <4>2
      <4>4. \A k \in DOMAIN commands : Sent(k)' = Sent(k) /\ Typed(k)' = Typed(k)
        BY <1>2 DEF Sent, Typed
      <4>5. \A i \in DOMAIN messages' : i = N + 1 \/ i \in 1..N
        BY <2>6, <4>3
      <4>6. \A i \in DOMAIN messages' : messages'[i] # <<>>
        BY <2>3, <2>6, <2>7, <4>3, <4>5
      <4>7. ASSUME NEW i \in DOMAIN messages'
            PROVE  \E k \in DOMAIN commands' : Sent(k)' /\ messages'[i] = Typed(k)'
        <5>1. CASE i = N + 1
          BY <1>2, <2>2, <4>3, <4>4, <5>1
        <5>2. CASE i \in 1..N
          <6>1. PICK k \in DOMAIN commands : Sent(k) /\ messages[i] = Typed(k)
            BY <1>5, <2>6, <2>7, <5>2 DEF Stored
          <6> QED BY <1>2, <4>3, <4>4, <5>2, <6>1
        <5> QED BY <4>5, <5>1, <5>2
      <4>8. ASSUME NEW i \in DOMAIN messages', NEW j \in DOMAIN messages', i < j
            PROVE  messages'[i][1].of < messages'[j][1].of
        <5>1. i \in 1..N
          BY <2>6, <4>3, <4>8
        <5>2. CASE j = N + 1
          <6>1. messages[i][1].of < K
            BY <2>1, <2>6, <2>7, <5>1 DEF Unanswered
          <6> QED BY <2>3, <4>3, <5>1, <5>2, <6>1
        <5>3. CASE j \in 1..N
          <6>1. messages[i][1].of < messages[j][1].of
            BY <1>5, <2>6, <2>7, <4>8, <5>1, <5>3 DEF Stored
          <6> QED BY <4>3, <5>1, <5>3, <6>1
        <5> QED BY <4>5, <5>2, <5>3
      <4>9. Stored'
        BY <1>2, <4>6, <4>7, <4>8 DEF Stored, Ok
      <4> QED BY <4>2, <4>9
    <3>2. CASE client_pc = "left" /\ up = <<>> /\ messages' = Append(messages, <<>>)
      <4>1. client_out = <<>>
        BY <3>2 DEF BuffersFit
      <4>2. u = <<>>
        BY <3>2, <4>1, EmptySeq, ConcatEmptySeq DEF u
      <4>3. Part(client_pc, u, <<>>)
        BY <4>2, EmptySeq DEF Part, Begins
      <4>4. <<>> \in Seq(Symbols)
        BY EmptySeq
      <4>5. /\ DOMAIN messages' = 1..(N + 1) /\ Len(messages') = N + 1
            /\ messages'[N + 1] = <<>>
            /\ \A i \in 1..N : messages'[i] = messages[i]
        BY <2>8, <3>2, <4>4
      <4>6. \A k \in DOMAIN commands : Sent(k)' = Sent(k) /\ Typed(k)' = Typed(k)
        BY <1>2 DEF Sent, Typed
      <4>7. \A i \in DOMAIN messages' : i = N + 1 \/ i \in 1..N
        BY <2>6, <4>5
      <4>8. ASSUME NEW i \in DOMAIN messages', messages'[i] = <<>>
            PROVE  i = Len(messages')
        BY <2>6, <2>7, <4>5, <4>7, <4>8
      <4>9. ASSUME NEW i \in DOMAIN messages', messages'[i] # <<>>
            PROVE  i \in 1..N /\ \E k \in DOMAIN commands' : Sent(k)' /\ messages'[i] = Typed(k)'
        <5>1. i \in 1..N
          BY <4>5, <4>7, <4>9
        <5>2. PICK k \in DOMAIN commands : Sent(k) /\ messages[i] = Typed(k)
          BY <1>5, <2>6, <2>7, <5>1 DEF Stored
        <5> QED BY <1>2, <4>5, <4>6, <5>1, <5>2
      <4>10. ASSUME NEW i \in DOMAIN messages', NEW j \in DOMAIN messages', i < j,
                    messages'[j] # <<>>
             PROVE  messages'[i][1].of < messages'[j][1].of
        <5>1. j \in 1..N
          BY <4>9, <4>10
        <5>2. i \in 1..N
          BY <2>6, <4>5, <4>10, <5>1
        <5>3. messages[i][1].of < messages[j][1].of
          BY <1>5, <2>6, <2>7, <4>10, <5>1, <5>2 DEF Stored
        <5> QED BY <4>5, <5>1, <5>2, <5>3
      <4>11. Stored'
        BY <1>2, <3>2, <4>8, <4>9, <4>10 DEF Stored, Ok
      <4> QED BY <4>3, <4>11 DEF Leftovers
    <3> QED BY <3>1, <3>2 DEF StoreMessage
  <2>10. \E t \in Leftovers : Part(client_pc, up' \o client_out, t)
    BY <1>2, <2>9 DEF u
  <2>11. client_pc = "left" \/ (Sending /\ Outgoing = <<>>)
    BY <2>1 DEF Unanswered
  <2> QED BY <1>1, <1>2, <1>3, <2>9, <2>10, <2>11, AnswerKeeps
<1> QED BY <1>4, <1>5

\* What handle_request() may answer.
LEMMA AnswerOrMessage ==
  ASSUME NEW line \in Seq(Symbols), NEW cache, HandleRequest(line, cache)
  PROVE  \/ /\ Len(line) = 1 /\ line[1].sym = "put" /\ line[1].length # 0
            /\ handler_pc' = "receive_message" /\ put_length' = line[1].length
            /\ handler_in' = cache
            /\ UNCHANGED <<handler_out, messages, reply>>
         \/ /\ ~(Len(line) = 1 /\ line[1].sym = "put" /\ line[1].length # 0)
            /\ messages' \in {messages, <<>>}
            /\ \E r \in {Failure, Ok, ListReply} \cup {GetReply(i) : i \in Nat} : Answer(r)
<1>1. CASE Len(line) # 1
  BY <1>1 DEF HandleRequest
<1>2. CASE Len(line) = 1
  <2>1. line[1] \in Symbols
    BY <1>2, FirstOfLine
  <2>2. CASE line[1].sym = "put" /\ line[1].length # 0
    BY <1>2, <2>2 DEF HandleRequest
  <2>3. CASE ~(line[1].sym = "put" /\ line[1].length # 0)
    <3>1. CASE line[1].sym = "get" /\ Answer(GetReply(line[1].index)) /\ messages' = messages
      <4>1. line[1].index \in Nat
        BY <2>1, <3>1, SymbolFields
      <4> QED BY <1>2, <2>3, <3>1, <4>1
    <3>2. CASE Answer(ListReply) /\ messages' = messages
      BY <1>2, <2>3, <3>2
    <3>3. CASE Answer(Failure) /\ messages' = messages
      BY <1>2, <2>3, <3>3
    <3>4. CASE Answer(Ok) /\ messages' = <<>>
      BY <1>2, <2>3, <3>4
    <3> QED BY <1>2, <2>3, <3>1, <3>2, <3>3, <3>4 DEF HandleRequest
  <2> QED BY <2>2, <2>3
<1> QED BY <1>1, <1>2

\* No message that is stored ends in a newline, and so no answer with one does.
LEMMA AnswerEnds ==
  ASSUME IInv, ~behind,
         NEW r \in {Failure, Ok, ListReply} \cup {GetReply(i) : i \in Nat},
         r.kind = "message", r.text # <<>>
  PROVE  r.text[Len(r.text)] # NL
<1> USE DEF IInv
<1>1. PICK i \in Nat : r = GetReply(i)
  BY DEF Failure, Ok, ListReply
<1>2. i \in DOMAIN messages /\ r.text = messages[i]
  BY <1>1 DEF GetReply, Failure
<1>3. PICK k \in DOMAIN commands : Sent(k) /\ messages[i] = Typed(k)
  BY <1>2 DEF Stored
<1>4. Typed(k)[Len(Typed(k))] # NL
  BY <1>3, TypedBytes
<1> QED BY <1>2, <1>3, <1>4

LEMMA GetRequestKeeps ==
  ASSUME IInv, GetRequest, TypeOK'
  PROVE  BuffersFit' /\ ServerSide' /\ ClientSide' /\ Stored' /\ ShownIsAnswer'
<1> USE DEF IInv
<1>1. /\ alive /\ handler_pc = "get_request" /\ UNCHANGED <<down, client, alive>>
  BY DEF GetRequest
<1> DEFINE request(n) == handler_in \o SubSeq(up, 1, n)
           rest(n) == SubSeq(up, n + 1, Len(up))
           cache(n) == handler_cache \o RestOf(request(n))
<1>2. PICK n \in 1..Len(up) :
        /\ up' = rest(n)
        /\ IF ~HasNewline(request(n))
           THEN /\ handler_in' = request(n)
                /\ UNCHANGED <<handler_pc, handler_out, handler_cache,
                               put_length, messages, reply>>
           ELSE IF LineOf(request(n)) = <<>> THEN HandlerReturns(cache(n))
                ELSE HandleRequest(LineOf(request(n)), cache(n))
  BY DEF GetRequest
<1> DEFINE a == request(n)
           u == up' \o client_out'
           line == LineOf(a)
           b == RestOf(a)
<1>3. handler_in \in Seq(Symbols) /\ up \in Seq(Symbols) /\ client_out \in Seq(Symbols)
  BY Buffers
<1>4. a \in Seq(Symbols) /\ rest(n) \in Seq(Symbols) /\ a \o rest(n) = handler_in \o up
  BY <1>3, RecvSome
<1>5. up # <<>>
  BY <1>2, EmptySeq
<1> HIDE DEF request, rest
<1>6. u \in Seq(Symbols) /\ Incoming = a \o u /\ Incoming' = handler_in' \o u
  <2> DEFINE v == rest(n)
  <2>1. a \in Seq(Symbols) /\ v \in Seq(Symbols) /\ client_out \in Seq(Symbols)
    BY <1>3, <1>4
  <2> HIDE DEF v, a
  <2>2. v \o client_out \in Seq(Symbols) /\ (a \o v) \o client_out = a \o (v \o client_out)
    BY <2>1, ConcatThree
  <2>3. u = v \o client_out
    BY <1>1, <1>2 DEF client, v
  <2>4. Incoming = a \o u
    BY <1>4, <2>2, <2>3 DEF Incoming, v
  <2>5. Incoming' = handler_in' \o u
    BY StreamBytesNext
  <2> QED BY <2>2, <2>3, <2>4, <2>5
<1> HIDE DEF u
<1>7. UNCHANGED <<client_pc, client_out, client_in, client_cache, length, shown,
                  commands, behind, down>> /\ Sending' = Sending
  BY <1>1 DEF client, Sending
<1>8. ASSUME UNCHANGED <<messages, reply>>
      PROVE  Stored'
  <2>1. CASE behind
    BY <1>7, <2>1 DEF Stored
  <2>2. CASE ~behind
    BY <1>5, <1>7, <1>8, <2>2, StoredStays
  <2> QED BY <2>1, <2>2
<1>9. ASSUME UNCHANGED <<handler_out, reply>>
      PROVE  ClientSide' /\ ShownIsAnswer' /\ Outgoing' = Outgoing
  <2>1. Outgoing' = Outgoing
    BY <1>7, <1>9 DEF Outgoing
  <2> QED BY <1>7, <1>9, <2>1 DEF ClientSide, ShownIsAnswer
<1>10. CASE ~HasNewline(a)
  <2>1. handler_in' = a
        /\ UNCHANGED <<handler_pc, handler_out, handler_cache, put_length, messages, reply>>
    BY <1>2, <1>10
  <2>2. Incoming' = Incoming
    BY <1>6, <2>1
  <2>3. BuffersFit'
    BY <1>1, <1>7, <1>10, <2>1 DEF BuffersFit
  <2>4. ServerSide'
    BY <1>1, <1>7, <1>9, <2>1, <2>2, ServerSideStays
  <2> QED BY <1>8, <1>9, <2>1, <2>3, <2>4
<1>11. CASE HasNewline(a) /\ line = <<>>
  <2>1. handler_pc' = "returned" /\ handler_in' = <<>> /\ UNCHANGED <<handler_out, messages, reply>>
    BY <1>2, <1>11 DEF HandlerReturns
  <2>2. BuffersFit'
    BY <1>7, <2>1 DEF BuffersFit
  <2>3. ServerSide'
    BY <2>1 DEF ServerSide
  <2> QED BY <1>8, <1>9, <2>1, <2>2, <2>3
<1>12. CASE HasNewline(a) /\ line # <<>>
  <2>1. HandleRequest(line, cache(n)) /\ line \in Seq(Symbols)
    BY <1>2, <1>4, <1>12, LineAndRest
  <2> DEFINE c == commands[K]
             R == RequestBytes(K, c)
  \* The request is that of the last command.
  <2>2. ASSUME ~behind
        PROVE  /\ Unanswered /\ K \in Nat /\ c \in Commands
               /\ Len(line) = 1 /\ line[1] = RequestHeader(c)
               /\ b \in Seq(Symbols) /\ b # <<>>
               /\ Part(client_pc, b \o u, AfterHeader(RequestText(K, c)))
    <3>1. PICK t \in Leftovers :
            \/ Part(client_pc, a \o u, t)
            \/ Part(client_pc, a \o u, t \o R) /\ Unanswered
      BY <1>1, <1>6, <2>2 DEF ServerSide, AtRequest
    <3> HIDE DEF a, R
    <3>2. ~Part(client_pc, a \o u, t)
      <4> SUFFICES ASSUME Part(client_pc, a \o u, t) PROVE FALSE
        OBVIOUS
      <4>1. t \in Seq(Symbols) /\ <<>> \in Seq(Symbols)
        BY LeftoverBytes, EmptySeq
      <4>2. t \o <<>> = t
        BY <4>1, ConcatEmptySeq
      <4>3. Begins(a \o u, t \o <<>>)
        BY <4>2 DEF Part
      <4> QED BY <1>4, <1>6, <1>12, <4>1, <4>3, NothingLeft
    <3>3. Part(client_pc, a \o u, t \o R) /\ Unanswered
      BY <3>1, <3>2
    <3>4. K \in Nat /\ c \in Commands /\ R \in Seq(Symbols)
      BY <3>3, LastRequest DEF Unanswered, R
    <3>5. t \o R = R
      <4>1. Begins(a \o u, t \o R)
        BY <3>3 DEF Part
      <4> QED BY <1>4, <1>6, <1>12, <3>4, <4>1, NothingLeft
    <3>6. Part(client_pc, a \o u, RequestBytes(K, c))
      BY <3>3, <3>5 DEF R
    <3> DEFINE k == K
               d == c
    <3>7. k \in Nat /\ d \in Commands /\ Part(client_pc, a \o u, RequestBytes(k, d))
      BY <3>4, <3>6
    <3> HIDE DEF k, d
    <3>8. /\ Len(LineOf(a)) = 1 /\ LineOf(a)[1] = RequestHeader(d)
          /\ RestOf(a) \in Seq(Symbols) /\ RestOf(a) # <<>>
          /\ Part(client_pc, RestOf(a) \o u, AfterHeader(RequestText(k, d)))
      BY <1>4, <1>6, <1>12, <3>7, RequestRead
    <3> QED BY <3>3, <3>4, <3>8 DEF k, d
  <2>3. cache(n) = b
    <3>1. handler_cache = <<>>
      BY <1>1 DEF BuffersFit
    <3>2. b \in Seq(Symbols)
      BY <1>4, <1>12, LineAndRest
    <3> QED BY <3>1, <3>2, ConcatEmptySeq
  <2> HIDE DEF line, b, cache
  <2>4. CASE /\ Len(line) = 1 /\ line[1].sym = "put" /\ line[1].length # 0
             /\ handler_pc' = "receive_message" /\ put_length' = line[1].length
             /\ handler_in' = b
             /\ UNCHANGED <<handler_out, messages, reply>>
    <3>1. BuffersFit'
      BY <1>7, <2>4 DEF BuffersFit
    <3>2. ServerSide'
      <4>1. SUFFICES ASSUME ~behind PROVE AtMessage'
        BY <1>7, <2>4 DEF ServerSide
      <4>2. c.cmd = "send" /\ c.lines \in Nat /\ line[1].length = 2 * c.lines
        BY <2>2, <2>4, <4>1, PutHeaderMeansSend
      <4>3. c.lines # 0
        BY <2>4, <4>2
      <4>4. Unanswered'
        BY <1>7, <1>9, <2>2, <2>4, <4>1 DEF Unanswered, K
      <4>5. Part(client_pc, b \o u, <<NL>> \o Body(K, c.lines))
        BY <2>2, <4>1, <4>2 DEF AfterHeader, RequestText
      <4>6. Incoming' = b \o u
        BY <1>6, <2>4
      <4> QED BY <1>7, <2>4, <4>2, <4>3, <4>4, <4>5, <4>6 DEF AtMessage, K
    <3> QED BY <1>8, <1>9, <2>4, <3>1, <3>2
  <2>5. ASSUME ~(Len(line) = 1 /\ line[1].sym = "put" /\ line[1].length # 0),
               messages' \in {messages, <<>>},
               NEW r \in {Failure, Ok, ListReply} \cup {GetReply(i) : i \in Nat},
               Answer(r)
        PROVE  BuffersFit' /\ ServerSide' /\ ClientSide' /\ Stored' /\ ShownIsAnswer'
    <3>1. r \in Replies /\ (r \in {Failure, Ok} \/ r.kind \in {"list", "message"})
      <4>1. r \in Replies
        BY <2>5, RepliesAre
      <4> QED BY <4>1, <2>5 DEF ListReply, GetReply
    <3>2. ASSUME ~behind
          PROVE  /\ client_pc = "left" \/ (Sending /\ Outgoing = <<>>)
                 /\ \E t \in Leftovers : Part(client_pc, up' \o client_out, t)
      <4>1. RequestText(K, c) = <<>>
        <5>1. CASE c.cmd = "send"
          <6>1. line[1].sym = "put" /\ c.lines \in Nat /\ line[1].length = 2 * c.lines
            BY <2>2, <3>2, <5>1, PutHeaderMeansSend
          <6>2. c.lines = 0
            BY <2>2, <2>5, <3>2, <6>1
          <6>3. Body(K, 0) \in Seq(Symbols) /\ Len(Body(K, 0)) = 0
            <7>1. K \in Nat /\ 0 \in Nat
              BY <2>2, <3>2
            <7>2. Body(K, 0) \in Seq(Symbols) /\ Len(Body(K, 0)) = 2 * 0
              BY <7>1, BodyBytes
            <7> QED BY <7>2
          <6>4. Body(K, 0) = <<>>
            BY <6>3, EmptySeq
          <6> QED BY <5>1, <6>2, <6>4 DEF RequestText
        <5>2. CASE c.cmd # "send"
          BY <5>2 DEF RequestText
        <5> QED BY <5>1, <5>2
      <4>2. b \in Seq(Symbols) /\ b # <<>> /\ Part(client_pc, b \o u, AfterHeader(<<>>))
        BY <2>2, <3>2, <4>1
      <4>3. u = <<>>
        BY <1>6, <4>2, NoMessageLeft
      <4>4. Part(client_pc, u, <<>>)
        BY <4>3, EmptySeq DEF Part, Begins
      <4>5. u = up' \o client_out
        BY <1>7 DEF u
      <4> QED BY <2>2, <3>2, <4>4, <4>5 DEF Leftovers, Unanswered
    <3>3. BuffersFit' /\ ServerSide' /\ ClientSide' /\ ShownIsAnswer'
      BY <1>1, <2>5, <3>1, <3>2, AnswerKeeps
    <3>4. Stored'
      <4>1. SUFFICES ASSUME ~behind PROVE Stored'
        BY <1>7 DEF Stored
      <4>2. reply' = r
        BY <2>5 DEF Answer
      <4>3. r.kind = "message" /\ r.text # <<>> => r.text[Len(r.text)] # NL
        BY <2>5, <4>1, AnswerEnds
      <4>4. CASE messages' = <<>>
        <5>1. DOMAIN messages' = {}
          BY <4>4, EmptySeq
        <5> QED BY <4>2, <4>3, <5>1 DEF Stored
      <4>5. CASE messages' = messages
        <5>1. \A i \in DOMAIN messages : messages[i] # <<>>
          BY <1>5, <4>1 DEF Stored
        <5>2. \A k \in DOMAIN commands : Sent(k)' = Sent(k) /\ Typed(k)' = Typed(k)
          BY <1>7 DEF Sent, Typed
        <5>3. ASSUME NEW i \in DOMAIN messages
              PROVE  \E k \in DOMAIN commands' : Sent(k)' /\ messages[i] = Typed(k)'
          BY <1>7, <4>1, <5>1, <5>2 DEF Stored
        <5> QED BY <4>1, <4>2, <4>3, <4>5, <5>1, <5>3 DEF Stored
      <4> QED BY <2>5, <4>4, <4>5
    <3> QED BY <3>3, <3>4
  <2> QED BY <2>1, <2>3, <2>4, <2>5, AnswerOrMessage
<1> QED BY <1>10, <1>11, <1>12

-----------------------------------------------------------------------------
(* The session.                                                            *)

LEMMA StepIInv == IInv /\ [Next]_vars => IInv'
<1> SUFFICES ASSUME IInv, [Next]_vars PROVE IInv'
  OBVIOUS
<1>1. TypeOK'
  BY TypeStep DEF IInv
<1>2. ASSUME NEW c \in Commands, Command(c) PROVE IInv'
  BY <1>1, <1>2, CommandKeeps DEF IInv
<1>3. CASE Exit
  BY <1>1, <1>3, ExitKeeps DEF IInv
<1>4. CASE ClientStep
  <2>1. CASE SendRequest
    BY <1>1, <2>1, SendRequestKeeps DEF IInv
  <2>2. CASE SendRequestFails \/ ServerIsGone
    BY <1>1, <2>2, ServerGoneKeeps DEF IInv
  <2>3. CASE GetResponse
    BY <1>1, <2>3, GetResponseKeeps DEF IInv
  <2>4. CASE ReceiveMore
    BY <1>1, <2>4, ReceiveMoreKeeps DEF IInv
  <2>5. CASE ShowMessage
    BY <1>1, <2>5, ShowMessageKeeps DEF IInv
  <2> QED BY <1>4, <2>1, <2>2, <2>3, <2>4, <2>5 DEF ClientStep
<1>5. CASE HandlerStep
  <2>1. CASE GetRequest
    BY <1>1, <2>1, GetRequestKeeps DEF IInv
  <2>2. CASE ClientIsDone
    BY <1>1, <2>2, ClientIsDoneKeeps DEF IInv
  <2>3. CASE ReceiveMessage
    BY <1>1, <2>3, ReceiveMessageKeeps DEF IInv
  <2>4. CASE StoreMessage
    BY <1>1, <2>4, StoreMessageKeeps DEF IInv
  <2>5. CASE SendResponse
    BY <1>1, <2>5, SendResponseKeeps DEF IInv
  <2>6. CASE SendResponseFails
    BY <1>1, <2>6, SendResponseFailsKeeps DEF IInv
  <2> QED BY <1>5, <2>1, <2>2, <2>3, <2>4, <2>5, <2>6 DEF HandlerStep
<1>6. CASE OtherWorkerKills
  BY <1>1, <1>6, ServerGoneKeeps DEF IInv
<1>7. CASE UNCHANGED vars
  BY <1>1, <1>7, StutterKeeps DEF IInv
<1> QED BY <1>2, <1>3, <1>4, <1>5, <1>6, <1>7 DEF Next

LEMMA StoredIsWhole == IInv => StoredWhole
<1> SUFFICES ASSUME IInv, ~behind
             PROVE  /\ \A i \in DOMAIN messages :
                         IF messages[i] = <<>>
                         THEN i = Len(messages) /\ client_pc = "left"
                         ELSE \E k \in DOMAIN commands : messages[i] = Typed(k)
                    /\ \A i, j \in DOMAIN messages :
                         i < j /\ messages[j] # <<>> => messages[i][1].of < messages[j][1].of
  BY DEF StoredWhole
<1> QED BY DEF IInv, Stored

\* However many commands, however long the messages and wherever the bytes of a
\* put are split, and although receive_message() may stop before the last byte
\* (client-handler.cc:30-33): while the client reads every answer to its end,
\* what is stored is what was typed, in the order typed, and a message is empty
\* only if the client left before all of it arrived.
THEOREM MessagesStoredWhole == Spec => []StoredWhole
<1>1. Init => IInv
  BY InitIInv
<1>2. IInv /\ [Next]_vars => IInv'
  BY StepIInv
<1>3. IInv => StoredWhole
  BY StoredIsWhole
<1> QED BY <1>1, <1>2, <1>3, PTL DEF Spec

\* While the client reads every answer to its end, what it prints is the answer
\* to the command typed or the beginning of it, and all of it once nothing of
\* it is on its way; or an error instead of an empty list or message, or of a
\* list of which no line has arrived (client.cc:204-265).
THEOREM AnswerIsShown == Spec => []ShownIsAnswer
<1>1. Init => IInv
  BY InitIInv
<1>2. IInv /\ [Next]_vars => IInv'
  BY StepIInv
<1>3. IInv => ShownIsAnswer
  BY DEF IInv
<1> QED BY <1>1, <1>2, <1>3, PTL DEF Spec
=============================================================================
