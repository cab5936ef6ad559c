----------------------------- MODULE HttpProofs -----------------------------
(***************************************************************************)
(* Proofs about HttpExchange for any names, sizes and ranges: what can end *)
(* the server, which code is answered, which bytes of a file a range has,  *)
(* and that the tester and the server agree on where an answer ends.       *)
(***************************************************************************)
EXTENDS HttpExchange, SequenceTheorems, TLAPS

-----------------------------------------------------------------------------
(* Reading a file.                                                         *)

LEMMA BytesAre ==
  ASSUME NEW first \in Nat, NEW last \in Int, last >= first - 1
  PROVE  /\ Bytes(first, last) \in Seq(Bodies)
         /\ Len(Bytes(first, last)) = last - first + 1
         /\ \A i \in 1..(last - first + 1) : Bytes(first, last)[i] = [at |-> first + i - 1]
<1> DEFINE n == last - first + 1
<1>1. n \in Nat
  OBVIOUS
<1>2. \A i \in 1..n : [at |-> first + i - 1] \in Bodies
  <2> SUFFICES ASSUME NEW i \in 1..n PROVE [at |-> first + i - 1] \in Bodies
    OBVIOUS
  <2>1. first + i - 1 \in Nat
    OBVIOUS
  <2> QED BY <2>1 DEF Bodies
<1>3. Bytes(first, last) = [i \in 1..n |-> [at |-> first + i - 1]]
  BY DEF Bytes
<1>4. Bytes(first, last) \in [1..n -> Bodies]
  BY <1>2, <1>3
<1>5. Bytes(first, last) \in Seq(Bodies) /\ Len(Bytes(first, last)) = n
  BY <1>1, <1>4, IsASeq, LenProperties
<1> QED BY <1>3, <1>5

\* The bytes of a part of the file, as RangeIsExact states them.
LEMMA BytesBetween ==
  ASSUME NEW first \in Nat, NEW last \in Int, last >= first - 1
  PROVE  LET b == Bytes(first, last) IN
         /\ \A i \in DOMAIN b : b[i].at = first + i - 1
         /\ {b[i].at : i \in DOMAIN b} = {k \in Nat : first <= k /\ k <= last}
<1> DEFINE b == Bytes(first, last)
<1>1. DOMAIN b = 1..(last - first + 1)
  BY BytesAre
<1>2. \A i \in DOMAIN b : b[i].at = first + i - 1
  <2>1. \A i \in 1..(last - first + 1) : b[i] = [at |-> first + i - 1]
    BY BytesAre
  <2> QED BY <1>1, <2>1
<1>3. ASSUME NEW k \in Nat, first <= k, k <= last
      PROVE  \E i \in DOMAIN b : b[i].at = k
  <2>1. k - first + 1 \in DOMAIN b
    BY <1>1, <1>3
  <2>2. b[k - first + 1].at = k
    BY <1>2, <2>1
  <2> QED BY <2>1, <2>2
<1>4. ASSUME NEW i \in DOMAIN b
      PROVE  b[i].at \in Nat /\ first <= b[i].at /\ b[i].at <= last
  BY <1>1, <1>2, <1>4
<1> HIDE DEF b
<1>5. {b[i].at : i \in DOMAIN b} = {k \in Nat : first <= k /\ k <= last}
  BY <1>3, <1>4
<1> QED BY <1>2, <1>5 DEF b

LEMMA ReadFileType ==
  ASSUME file.size \in Nat, NEW start \in Nat, NEW n \in Int
  PROVE  ReadFile(start, n) \in Seq(Bodies)
<1>1. CASE start >= file.size \/ n = 0
  BY <1>1, EmptySeq DEF ReadFile
<1>2. CASE start < file.size /\ n # 0 /\ (n < 0 \/ start + n > file.size)
  <2>1. ReadFile(start, n) = Bytes(start, file.size - 1)
    BY <1>2 DEF ReadFile
  <2>2. file.size - 1 \in Int /\ file.size - 1 >= start - 1
    BY <1>2
  <2> QED BY <2>1, <2>2, BytesAre
<1>3. CASE start < file.size /\ n > 0 /\ start + n <= file.size
  <2>1. ReadFile(start, n) = Bytes(start, start + n - 1)
    BY <1>3 DEF ReadFile
  <2>2. start + n - 1 \in Int /\ start + n - 1 >= start - 1
    BY <1>3
  <2> QED BY <2>1, <2>2, BytesAre
<1> QED BY <1>1, <1>2, <1>3

\* What is read for a range.
LEMMA ReadFileRange ==
  ASSUME file.size \in Nat, NEW first \in Nat, NEW last \in Nat
  PROVE  LET b == ReadFile(first, last - first + 1) IN
         /\ \A i \in DOMAIN b : b[i].at = first + i - 1
         /\ {b[i].at : i \in DOMAIN b} =
              {k \in 0..(file.size - 1) : first <= k /\ (k <= last \/ last + 1 < first)}
<1> DEFINE n == last - first + 1
           b == ReadFile(first, n)
           Wanted == {k \in 0..(file.size - 1) : first <= k /\ (k <= last \/ last + 1 < first)}
<1>1. n \in Int
  OBVIOUS
<1>2. CASE first >= file.size \/ n = 0
  <2>1. b = <<>>
    BY <1>2 DEF ReadFile
  <2>2. Wanted = {}
    BY <1>2
  <2> QED BY <2>1, <2>2
<1>3. CASE first < file.size /\ n # 0 /\ (n < 0 \/ first + n > file.size)
  <2>1. b = Bytes(first, file.size - 1)
    BY <1>3 DEF ReadFile
  <2>2. file.size - 1 \in Int /\ file.size - 1 >= first - 1
    BY <1>3
  <2>3. Wanted = {k \in Nat : first <= k /\ k <= file.size - 1}
    BY <1>3
  <2> DEFINE c == Bytes(first, file.size - 1)
  <2>4. /\ \A i \in DOMAIN c : c[i].at = first + i - 1
        /\ {c[i].at : i \in DOMAIN c} = {k \in Nat : first <= k /\ k <= file.size - 1}
    BY <2>2, BytesBetween
  <2> HIDE DEF Wanted, b, c
  <2>5. b = c
    BY <2>1 DEF c
  <2>6. \A i \in DOMAIN b : b[i].at = first + i - 1
    BY <2>4, <2>5
  <2>7. {b[i].at : i \in DOMAIN b} = Wanted
    BY <2>3, <2>4, <2>5
  <2> QED BY <2>6, <2>7 DEF Wanted, b
<1>4. CASE first < file.size /\ n > 0 /\ first + n <= file.size
  <2>1. b = Bytes(first, last)
    BY <1>4 DEF ReadFile
  <2>2. last >= first - 1 /\ last \in Int
    BY <1>4
  <2>3. Wanted = {k \in Nat : first <= k /\ k <= last}
    BY <1>4
  <2> HIDE DEF Wanted, b
  <2> QED BY <2>1, <2>2, <2>3, BytesBetween DEF Wanted, b
<1> QED BY <1>1, <1>2, <1>3, <1>4

-----------------------------------------------------------------------------
(* The inductive invariant.                                                *)

\* Where processHTTP() is fits the request and the file.
PlaceFits ==
  /\ pc \in {"parse", "open"} => file = NotOpened
  /\ pc \in {"open", "stat", "fill"} => IsServed /\ request.headers = "good"
  /\ pc \in {"stat", "fill"} => file.state = "file"
  /\ pc = "stat" /\ disk[request.name].state = "absent" => gone

\* An answer is its headers, and a body of the length that they say.
AnswerSymbols ==
  <<[code |-> response_code, length |-> content_length]>> \o entity_body

\* What is between the server and the tester is the answer, or what is left of
\* it.
ExchangeFits ==
  /\ pc \notin {"idle", "raised"} => tester = "read_headers"
  /\ pc # "idle" => unread = <<>> /\ cache = <<>> /\ tester # "read_bytes"
  /\ tester = "ask" => unread = <<>> /\ cache = <<>>
  /\ pc = "answer" => content_length = Len(entity_body)
  /\ pc = "idle" /\ tester = "read_headers" =>
       cache = <<>> /\ unread = AnswerSymbols /\ content_length = Len(entity_body)
  /\ tester = "read_bytes" =>
       cache \o unread = entity_body /\ length = Len(entity_body) /\ length # 0
  /\ verdict # "short"

IInv ==
  /\ TypeOK
  /\ PlaceFits
  /\ ExchangeFits
  /\ EscapesAreRare
  /\ CodeFits
  /\ RangeIsExact
  /\ AnswersAreFramed
  /\ EmptyIsReportedMissing

LEMMA InitIInv == Init => IInv
<1> SUFFICES ASSUME Init PROVE IInv
  OBVIOUS
<1> USE DEF Init
<1>1. request \in Requests
  BY DEF Requests
<1>2. <<>> \in Seq(Bodies) /\ <<>> \in Seq(Symbols)
  BY EmptySeq
<1>3. TypeOK
  BY <1>1, <1>2 DEF TypeOK, Codes
<1>4. PlaceFits /\ ExchangeFits
  BY DEF PlaceFits, ExchangeFits
<1>5. EscapesAreRare /\ CodeFits /\ RangeIsExact
  BY DEF EscapesAreRare, CodeFits, RangeIsExact
<1>6. AnswersAreFramed /\ EmptyIsReportedMissing
  BY DEF AnswersAreFramed, EmptyIsReportedMissing
<1> QED BY <1>3, <1>4, <1>5, <1>6 DEF IInv

LEMMA RequestParts ==
  ASSUME NEW r \in Requests
  PROVE  /\ r.words \in BOOLEAN /\ r.method \in Methods
         /\ r.headers \in {"good", "malformed", "no host"} /\ r.name \in Names
         /\ IsPair(r.range) => r.range.start \in Nat /\ r.range.end \in Nat
  BY NumbersAssumption DEF Requests, IsPair, NoRange, BadRange

\* Every error is answered by its text, of the length it says.
LEMMA RefuseType ==
  ASSUME NEW code \in Codes, Refuse(code)
  PROVE  /\ pc' = "answer" /\ response_code' = code /\ entity_body' \in Seq(Bodies)
         /\ content_length' = Len(entity_body') /\ content_length' \in Nat
<1>1. ErrorText(code) \in Seq(Bodies)
  <2>1. [text |-> code] \in Bodies
    BY DEF Bodies
  <2> QED BY <2>1 DEF ErrorText
<1> QED BY <1>1, LenProperties DEF Refuse

\* Steps within processHTTP() that come to no answer yet, or to an answer whose
\* code, body and length fit.
LEMMA ProcessStep ==
  ASSUME IInv,
         pc \in {"parse", "open", "stat", "fill"},
         pc' \in {"open", "stat", "fill", "answer", "raised"},
         UNCHANGED <<disk, gone, request, unread, client>>,
         file' \in Entries \cup {NotOpened},
         response_code' \in Codes, entity_body' \in Seq(Bodies), content_length' \in Nat,
         pc' = "answer" => content_length' = Len(entity_body'),
         PlaceFits', EscapesAreRare', CodeFits', RangeIsExact'
  PROVE  IInv'
<1>1. tester = "read_headers" /\ unread = <<>> /\ cache = <<>>
  BY DEF IInv, ExchangeFits
<1>2. TypeOK'
  BY DEF IInv, TypeOK, client
<1>3. ExchangeFits'
  BY <1>1 DEF IInv, ExchangeFits, client
<1>4. AnswersAreFramed' /\ EmptyIsReportedMissing'
  BY <1>1 DEF AnswersAreFramed, EmptyIsReportedMissing, client
<1> QED BY <1>2, <1>3, <1>4 DEF IInv

LEMMA ChangeSafe ==
  ASSUME IInv, NEW n \in Names, Change(n)
  PROVE  IInv'
<1>1. UNCHANGED <<server, unread, client>>
  BY DEF Change
<1>2. PICK e \in Entries : disk' = [disk EXCEPT ![n] = e]
  BY DEF Change
<1>3. gone' = (gone \/ (pc = "stat" /\ n = request.name /\ disk'[n].state = "absent"))
  BY DEF Change
<1>4. gone \in BOOLEAN /\ disk \in [Names -> Entries] /\ request.name \in Names
  BY RequestParts DEF IInv, TypeOK
<1>5. disk' \in [Names -> Entries] /\ gone' \in BOOLEAN
  BY <1>2, <1>3, <1>4
<1>6. TypeOK'
  BY <1>1, <1>5 DEF IInv, TypeOK, server, client
<1>7. gone => gone'
  BY <1>3
<1>8. PlaceFits'
  <2>1. ASSUME pc = "stat", disk'[request.name].state = "absent" PROVE gone'
    <3>1. CASE n = request.name
      BY <1>3, <2>1, <3>1
    <3>2. CASE n # request.name
      <4>1. disk'[request.name] = disk[request.name]
        BY <1>2, <1>4, <3>2
      <4> QED BY <1>7, <2>1, <4>1 DEF IInv, PlaceFits
    <3> QED BY <3>1, <3>2
  <2> QED BY <1>1, <2>1 DEF IInv, PlaceFits, server, IsServed
<1>9. ExchangeFits' /\ CodeFits' /\ RangeIsExact' /\ AnswersAreFramed'
      /\ EmptyIsReportedMissing'
  <2> USE <1>1 DEF IInv, server, client
  <2>1. ExchangeFits'
    BY DEF ExchangeFits, AnswerSymbols
  <2>2. CodeFits'
    BY DEF CodeFits, Asked, IsServed
  <2>3. RangeIsExact'
    BY DEF RangeIsExact
  <2>4. AnswersAreFramed' /\ EmptyIsReportedMissing'
    BY DEF AnswersAreFramed, EmptyIsReportedMissing
  <2> QED BY <2>1, <2>2, <2>3, <2>4
<1>10. EscapesAreRare'
  BY <1>1, <1>7 DEF IInv, server, EscapesAreRare, IsServed, TooLarge
<1> QED BY <1>6, <1>8, <1>9, <1>10 DEF IInv

LEMMA ParseSafe ==
  ASSUME IInv, ParseRequest \/ ParseHeaders
  PROVE  IInv'
<1>1. /\ pc = "parse" /\ UNCHANGED <<disk, gone, request, file, unread, client>>
      /\ file = NotOpened /\ file.state = "not opened"
  <2>1. pc = "parse" /\ UNCHANGED <<disk, gone, request, file, unread, client>>
    BY DEF ParseRequest, ParseHeaders
  <2>2. file = NotOpened
    BY <2>1 DEF IInv, PlaceFits
  <2> QED BY <2>1, <2>2 DEF NotOpened
<1>2. /\ request.words \in BOOLEAN /\ request.method \in Methods
      /\ file' \in Entries \cup {NotOpened}
  BY <1>1, RequestParts DEF IInv, TypeOK
<1>3. ASSUME NEW code \in {400, 501}, Refuse(code),
             code = 501 <=> request.words /\ request.method \in KnownMethods \ SupportedMethods
      PROVE  IInv'
  <2>1. code \in Codes
    BY DEF Codes
  <2>2. /\ pc' = "answer" /\ response_code' = code /\ entity_body' \in Seq(Bodies)
        /\ content_length' = Len(entity_body') /\ content_length' \in Nat
    BY <1>3, <2>1, RefuseType
  <2>3. CodeFits'
    <3>1. \A state \in {"absent", "unreadable", "directory", "file"} : ~Asked(state)'
      BY <1>1 DEF Asked
    <3>2. (request.words /\ request.method \in KnownMethods \ SupportedMethods)'
            <=> request.words /\ request.method \in KnownMethods \ SupportedMethods
      BY <1>1
    <3> QED BY <1>3, <2>2, <3>1, <3>2 DEF CodeFits
  <2>4. PlaceFits' /\ EscapesAreRare' /\ RangeIsExact'
    BY <1>3, <2>2 DEF PlaceFits, EscapesAreRare, RangeIsExact
  <2> QED BY <1>1, <1>2, <2>1, <2>2, <2>3, <2>4, ProcessStep
<1>4. CASE ParseRequest
  <2>1. CASE (~request.words \/ request.method \notin KnownMethods) /\ Refuse(400)
    BY <1>3, <2>1
  <2>2. CASE request.words /\ request.method \in KnownMethods \ SupportedMethods /\ Refuse(501)
    BY <1>3, <2>2
  <2> QED BY <1>4, <2>1, <2>2 DEF ParseRequest
<1>5. CASE ParseHeaders
  <2>1. IsServed
    BY <1>5 DEF ParseHeaders
  <2>2. CASE request.headers # "good" /\ Refuse(400)
    BY <1>3, <2>1, <2>2 DEF IsServed
  <2>3. CASE /\ request.headers = "good" /\ pc' = "open"
             /\ UNCHANGED <<response_code, entity_body, content_length>>
    <3>1. PlaceFits'
      BY <1>1, <2>1, <2>3 DEF PlaceFits, IsServed
    <3>2. EscapesAreRare' /\ CodeFits' /\ RangeIsExact'
      BY <2>3 DEF EscapesAreRare, CodeFits, RangeIsExact
    <3>3. response_code' \in Codes /\ entity_body' \in Seq(Bodies) /\ content_length' \in Nat
      BY <2>3 DEF IInv, TypeOK
    <3> QED BY <1>1, <1>2, <2>3, <3>1, <3>2, <3>3, ProcessStep
  <2> QED BY <1>5, <2>2, <2>3 DEF ParseHeaders
<1> QED BY <1>4, <1>5

LEMMA EntryParts ==
  ASSUME NEW e \in Entries
  PROVE  /\ e.state \in {"absent", "unreadable", "directory", "file"}
         /\ e.size \in Nat
  BY NumbersAssumption DEF Entries

LEMMA OpenSafe ==
  ASSUME IInv, Open
  PROVE  IInv'
<1>1. /\ pc = "open" /\ file' = disk[request.name]
      /\ UNCHANGED <<disk, gone, request, unread, client>>
  BY DEF Open
<1>2. request.name \in Names /\ request.words \in BOOLEAN /\ request.method \in Methods
  BY RequestParts DEF IInv, TypeOK
<1>3. file' \in Entries
  BY <1>1, <1>2 DEF IInv, TypeOK
<1>4. file'.state \in {"absent", "unreadable", "directory", "file"}
  BY <1>3, EntryParts
<1>5. IsServed /\ request.headers = "good"
  BY <1>1 DEF IInv, PlaceFits
<1>6. \A state : Asked(state)' <=> file'.state = state
  BY <1>1, <1>5 DEF Asked, IsServed
<1>7. CASE file'.state = "file"
  <2>1. pc' = "stat" /\ UNCHANGED <<response_code, entity_body, content_length>>
    BY <1>7 DEF Open
  <2>2. PlaceFits'
    <3>1. disk'[request'.name].state = "file"
      BY <1>1, <1>7
    <3> QED BY <1>1, <1>5, <1>7, <2>1, <3>1 DEF PlaceFits, IsServed
  <2>3. EscapesAreRare' /\ CodeFits' /\ RangeIsExact'
    BY <2>1 DEF EscapesAreRare, CodeFits, RangeIsExact
  <2>4. response_code' \in Codes /\ entity_body' \in Seq(Bodies) /\ content_length' \in Nat
    BY <2>1 DEF IInv, TypeOK
  <2> QED BY <1>1, <1>3, <2>1, <2>2, <2>3, <2>4, ProcessStep
<1>8. CASE file'.state # "file"
  <2> DEFINE code == OpenError(file'.state)
  <2>1. Refuse(code)
    BY <1>8 DEF Open
  <2>2. /\ file'.state = "absent" => code = 404
        /\ file'.state = "unreadable" => code = 403
        /\ file'.state = "directory" => code = 500
    BY DEF OpenError
  <2>3. code \in Codes
    BY <1>4, <1>8, <2>2 DEF Codes
  <2> HIDE DEF code
  <2>4. /\ pc' = "answer" /\ response_code' = code /\ entity_body' \in Seq(Bodies)
        /\ content_length' = Len(entity_body') /\ content_length' \in Nat
    BY <2>1, <2>3, RefuseType
  <2>5. CodeFits'
    <3>1. ~(request.words /\ request.method \in KnownMethods \ SupportedMethods)'
      BY <1>1, <1>5 DEF IsServed
    <3> QED BY <1>4, <1>6, <1>8, <2>2, <2>4, <3>1 DEF CodeFits
  <2>6. PlaceFits' /\ EscapesAreRare' /\ RangeIsExact'
    <3>1. response_code' # 206
      BY <1>4, <1>8, <2>2, <2>4
    <3> QED BY <2>4, <3>1 DEF PlaceFits, EscapesAreRare, RangeIsExact
  <2> QED BY <1>1, <1>3, <2>3, <2>4, <2>5, <2>6, ProcessStep
<1> QED BY <1>7, <1>8

LEMMA StatSafe ==
  ASSUME IInv, Stat
  PROVE  IInv'
<1>1. /\ pc = "stat"
      /\ UNCHANGED <<disk, gone, request, file, response_code, entity_body,
                     content_length, unread, client>>
  BY DEF Stat
<1>2. pc' \in {"raised", "fill"} /\ (pc' = "raised" => disk[request.name].state = "absent")
  BY DEF Stat
<1>3. IsServed /\ request.headers = "good" /\ file.state = "file" /\ (pc' = "raised" => gone)
  BY <1>1, <1>2 DEF IInv, PlaceFits
<1>4. PlaceFits'
  BY <1>1, <1>2, <1>3 DEF PlaceFits, IsServed
<1>5. EscapesAreRare'
  BY <1>1, <1>3 DEF EscapesAreRare, IsServed
<1>6. CodeFits' /\ RangeIsExact'
  BY <1>2 DEF CodeFits, RangeIsExact
<1>7. /\ file' \in Entries \cup {NotOpened} /\ response_code' \in Codes
      /\ entity_body' \in Seq(Bodies) /\ content_length' \in Nat
  BY <1>1 DEF IInv, TypeOK
<1> QED BY <1>1, <1>2, <1>4, <1>5, <1>6, <1>7, ProcessStep

LEMMA FillSafe ==
  ASSUME IInv, FillEntity
  PROVE  IInv'
<1>1. pc = "fill" /\ UNCHANGED <<disk, gone, request, file, unread, client>>
  BY DEF FillEntity
<1>2. /\ request.words \in BOOLEAN /\ request.method \in Methods /\ file.size \in Nat
      /\ file' \in Entries \cup {NotOpened}
  <2>1. file \in Entries \cup {NotOpened} /\ NotOpened.size = 0 /\ request \in Requests
    BY DEF IInv, TypeOK, NotOpened
  <2>2. file.size \in Nat
    BY <2>1, EntryParts
  <2> QED BY <1>1, <2>1, <2>2, RequestParts
<1>3. IsServed /\ request.headers = "good" /\ file.state = "file"
  BY <1>1 DEF IInv, PlaceFits
<1>4. \A state : Asked(state)' <=> state = "file"
  BY <1>1, <1>3 DEF Asked, IsServed
<1>5. ~(request.words /\ request.method \in KnownMethods \ SupportedMethods)'
  BY <1>1, <1>3 DEF IsServed
<1>6. request.method = "GET" \/ request.method = "HEAD"
  BY <1>3 DEF IsServed, SupportedMethods
<1>7. IsPair(request.range)' <=> IsPair(request.range)
  BY <1>1 DEF IsPair
<1>8. ASSUME NEW code \in {200, 206, 400}, pc' = "answer", response_code' = code,
             entity_body' \in Seq(Bodies), content_length' = Len(entity_body'),
             code = 206 <=> request.method = "GET" /\ IsPair(request.range),
             code = 200 <=> request.method = "HEAD" \/ request.range = NoRange,
             code = 206 => RangeIsExact'
      PROVE  IInv'
  <2>1. CodeFits'
    <3>1. (request.method = "GET" /\ IsPair(request.range))'
            <=> request.method = "GET" /\ IsPair(request.range)
      BY <1>1, <1>7
    <3>2. (request.method = "HEAD" \/ request.range = NoRange)'
            <=> request.method = "HEAD" \/ request.range = NoRange
      BY <1>1
    <3> QED BY <1>4, <1>5, <1>8, <3>1, <3>2 DEF CodeFits
  <2>2. PlaceFits' /\ EscapesAreRare'
    BY <1>8 DEF PlaceFits, EscapesAreRare
  <2>3. RangeIsExact'
    BY <1>8 DEF RangeIsExact
  <2>4. code \in Codes /\ content_length' \in Nat
    BY <1>8, LenProperties DEF Codes
  <2> QED BY <1>1, <1>2, <1>8, <2>1, <2>2, <2>3, <2>4, ProcessStep
<1>9. CASE request.method = "HEAD" /\ Fill(200, <<>>)
  <2>1. /\ pc' = "answer" /\ response_code' = 200 /\ entity_body' \in Seq(Bodies)
        /\ content_length' = Len(entity_body')
    BY <1>9, EmptySeq DEF Fill
  <2> QED BY <1>8, <1>9, <2>1
<1>10. CASE request.method = "GET" /\ request.range = NoRange /\ Fill(200, ReadFile(0, -1))
  <2>1. ReadFile(0, -1) \in Seq(Bodies)
    BY <1>2, ReadFileType
  <2>2. /\ pc' = "answer" /\ response_code' = 200 /\ entity_body' \in Seq(Bodies)
        /\ content_length' = Len(entity_body')
    BY <1>10, <2>1 DEF Fill
  <2> QED BY <1>8, <1>10, <2>2 DEF IsPair
<1>11. CASE request.method = "GET" /\ request.range = BadRange /\ Refuse(400)
  <2>1. 400 \in Codes
    BY DEF Codes
  <2>2. /\ pc' = "answer" /\ response_code' = 400 /\ entity_body' \in Seq(Bodies)
        /\ content_length' = Len(entity_body')
    BY <1>11, <2>1, RefuseType
  <2>3. BadRange # NoRange
    BY DEF BadRange, NoRange
  <2> QED BY <1>8, <1>11, <2>2, <2>3 DEF IsPair
<1>12. ASSUME request.method = "GET", IsPair(request.range)
       PROVE  IInv'
  <2> DEFINE first == request.range.start
             last == request.range.end
             b == ReadFile(first, last - first + 1)
  <2>1. first \in Nat /\ last \in Nat
    BY <1>12, RequestParts DEF IInv, TypeOK
  <2>2. request.range # NoRange /\ request.range # BadRange
    BY <1>12 DEF IsPair
  <2>3. CASE /\ TooLarge(request.range) /\ pc' = "raised"
             /\ UNCHANGED <<response_code, entity_body, content_length>>
    <3>1. PlaceFits' /\ CodeFits' /\ RangeIsExact'
      BY <2>3 DEF PlaceFits, CodeFits, RangeIsExact
    <3>2. EscapesAreRare'
      BY <1>1, <1>3, <1>7, <1>12, <2>3 DEF EscapesAreRare, IsServed, TooLarge
    <3>3. response_code' \in Codes /\ entity_body' \in Seq(Bodies) /\ content_length' \in Nat
      BY <2>3 DEF IInv, TypeOK
    <3> QED BY <1>1, <1>2, <2>3, <3>1, <3>2, <3>3, ProcessStep
  <2>4. CASE Fill(206, b)
    <3>1. last - first + 1 \in Int
      BY <2>1
    <3>2. b \in Seq(Bodies)
      <4> HIDE DEF first, last
      <4> QED BY <1>2, <2>1, <3>1, ReadFileType
    <3>3. /\ \A i \in DOMAIN b : b[i].at = first + i - 1
          /\ {b[i].at : i \in DOMAIN b} =
               {k \in 0..(file.size - 1) : first <= k /\ (k <= last \/ last + 1 < first)}
      <4> HIDE DEF first, last
      <4> QED BY <1>2, <2>1, ReadFileRange
    <3>4. /\ pc' = "answer" /\ response_code' = 206 /\ entity_body' = b
          /\ content_length' = Len(entity_body')
      BY <2>4 DEF Fill
    <3>5. RangeIsExact'
      BY <1>1, <3>3, <3>4 DEF RangeIsExact
    <3>6. request.method # "HEAD"
      BY <1>12
    <3> HIDE DEF b
    <3> QED BY <1>8, <1>12, <2>2, <3>2, <3>4, <3>5, <3>6
  <2> QED BY <1>12, <2>2, <2>3, <2>4 DEF FillEntity
<1> QED BY <1>9, <1>10, <1>11, <1>12 DEF FillEntity, IsPair

-----------------------------------------------------------------------------
(* The exchange of the answer.                                             *)

LEMMA PartOf ==
  ASSUME NEW S, NEW s \in Seq(S), NEW m \in Nat, m >= 1, NEW n \in Nat, n <= Len(s)
  PROVE  /\ SubSeq(s, m, n) \in Seq(S)
         /\ Len(SubSeq(s, m, n)) = IF m <= n THEN n - m + 1 ELSE 0
         /\ \A i \in 1..(n - m + 1) : SubSeq(s, m, n)[i] = s[m + i - 1]
<1>1. \A i \in m..n : s[i] \in S
  <2> SUFFICES ASSUME NEW i \in m..n PROVE s[i] \in S
    OBVIOUS
  <2>1. i \in 1..Len(s)
    BY LenProperties
  <2> QED BY <2>1, ElementOfSeq
<1>2. m \in Int /\ n \in Int
  OBVIOUS
<1> QED BY <1>1, <1>2, SubSeqProperties

LEMMA AnswerParts ==
  ASSUME TypeOK
  PROVE  /\ entity_body \in Seq(Symbols) /\ AnswerSymbols \in Seq(Symbols)
         /\ Len(AnswerSymbols) = 1 + Len(entity_body)
         /\ AnswerSymbols[1].length = content_length
         /\ SubSeq(AnswerSymbols, 2, Len(AnswerSymbols)) = entity_body
<1> DEFINE h == [code |-> response_code, length |-> content_length]
<1>1. entity_body \in Seq(Symbols)
  <2>1. Bodies \subseteq Symbols
    BY DEF Symbols
  <2> QED BY <2>1, SeqMonotonic DEF TypeOK
<1>2. <<h>> \in Seq(Symbols) /\ Len(<<h>>) = 1 /\ <<h>>[1] = h
  <2>1. h \in Symbols
    BY DEF TypeOK, Symbols
  <2> HIDE DEF h
  <2> QED BY <2>1
<1>3. AnswerSymbols = <<h>> \o entity_body
  BY DEF AnswerSymbols
<1> HIDE DEF h
<1>4. /\ AnswerSymbols \in Seq(Symbols)
      /\ Len(AnswerSymbols) = 1 + Len(entity_body)
      /\ \A i \in 1..(1 + Len(entity_body)) :
           AnswerSymbols[i] = IF i <= 1 THEN <<h>>[i] ELSE entity_body[i - 1]
  BY <1>1, <1>2, <1>3, ConcatProperties
<1>5. Len(entity_body) \in Nat
  BY <1>1, LenProperties
<1>6. AnswerSymbols[1].length = content_length
  <2>1. AnswerSymbols[1] = h
    BY <1>2, <1>4, <1>5
  <2> QED BY <2>1 DEF h
<1>7. SubSeq(AnswerSymbols, 2, Len(AnswerSymbols)) = entity_body
  <2> DEFINE t == SubSeq(AnswerSymbols, 2, Len(AnswerSymbols))
  <2> DEFINE l == 1 + Len(entity_body)
  <2>1. l \in Nat /\ Len(AnswerSymbols) = l /\ l - 2 + 1 = Len(entity_body)
        /\ (2 <= l <=> Len(entity_body) # 0)
    BY <1>4, <1>5
  <2>2. /\ t \in Seq(Symbols) /\ Len(t) = Len(entity_body)
        /\ \A i \in 1..Len(entity_body) : t[i] = AnswerSymbols[2 + i - 1]
    <3> HIDE DEF l
    <3>1. /\ SubSeq(AnswerSymbols, 2, l) \in Seq(Symbols)
          /\ Len(SubSeq(AnswerSymbols, 2, l)) = IF 2 <= l THEN l - 2 + 1 ELSE 0
          /\ \A i \in 1..(l - 2 + 1) : SubSeq(AnswerSymbols, 2, l)[i] = AnswerSymbols[2 + i - 1]
      BY <1>4, <2>1, PartOf
    <3> QED BY <2>1, <3>1
  <2>3. \A i \in 1..Len(entity_body) : t[i] = entity_body[i]
    <3> SUFFICES ASSUME NEW i \in 1..Len(entity_body) PROVE t[i] = entity_body[i]
      OBVIOUS
    <3>1. 2 + i - 1 \in 1..(1 + Len(entity_body)) /\ ~(2 + i - 1 <= 1) /\ 2 + i - 1 - 1 = i
      BY <1>5
    <3> QED BY <1>4, <2>2, <3>1
  <2> HIDE DEF t
  <2> QED BY <1>1, <2>2, <2>3, SeqEqual DEF t
<1> QED BY <1>1, <1>4, <1>6, <1>7

LEMMA AnswerSafe ==
  ASSUME IInv, Answer
  PROVE  IInv'
<1>1. /\ pc = "answer" /\ pc' = "idle"
      /\ UNCHANGED <<disk, gone, request, file, response_code, entity_body, content_length,
                     client>>
  BY DEF Answer
<1>2. tester = "read_headers" /\ unread = <<>> /\ cache = <<>>
      /\ content_length = Len(entity_body) /\ verdict # "short"
  BY <1>1 DEF IInv, ExchangeFits
<1>3. unread' = AnswerSymbols
  <2>1. unread' = (unread \o <<[code |-> response_code, length |-> content_length]>>)
                     \o entity_body
    BY DEF Answer
  <2>2. <<[code |-> response_code, length |-> content_length]>> \in Seq(Symbols)
    <3>1. [code |-> response_code, length |-> content_length] \in Symbols
      BY DEF IInv, TypeOK, Symbols
    <3> QED BY <3>1
  <2>3. unread \o <<[code |-> response_code, length |-> content_length]>>
          = <<[code |-> response_code, length |-> content_length]>>
    BY <1>2, <2>2, ConcatEmptySeq
  <2> QED BY <2>1, <2>3 DEF AnswerSymbols
<1>4. unread' \in Seq(Symbols)
  BY <1>3, AnswerParts DEF IInv
<1>5. TypeOK'
  BY <1>1, <1>4 DEF IInv, TypeOK, client
<1>6. ExchangeFits'
  <2>1. AnswerSymbols' = AnswerSymbols
    BY <1>1 DEF AnswerSymbols
  <2> QED BY <1>1, <1>2, <1>3, <2>1 DEF ExchangeFits, client
<1>7. PlaceFits' /\ EscapesAreRare' /\ CodeFits' /\ RangeIsExact'
  BY <1>1 DEF PlaceFits, EscapesAreRare, CodeFits, RangeIsExact
<1>8. AnswersAreFramed' /\ EmptyIsReportedMissing'
  BY <1>1, <1>2 DEF AnswersAreFramed, EmptyIsReportedMissing, client
<1> QED BY <1>5, <1>6, <1>7, <1>8 DEF IInv

LEMMA AskSafe ==
  ASSUME IInv, NEW r \in Requests, Ask(r)
  PROVE  IInv'
<1>1. /\ tester = "ask" /\ pc = "idle" /\ tester' = "read_headers" /\ pc' = "parse"
      /\ request' = r /\ file' = NotOpened /\ gone' = FALSE
      /\ UNCHANGED <<disk, response_code, entity_body, content_length, unread, cache,
                     length, verdict>>
  BY DEF Ask
<1>2. unread = <<>> /\ cache = <<>> /\ verdict # "short"
  BY <1>1 DEF IInv, ExchangeFits
<1>3. TypeOK'
  BY <1>1 DEF IInv, TypeOK
<1>4. PlaceFits' /\ ExchangeFits'
  BY <1>1, <1>2 DEF PlaceFits, ExchangeFits
<1>5. EscapesAreRare' /\ CodeFits' /\ RangeIsExact'
  BY <1>1 DEF EscapesAreRare, CodeFits, RangeIsExact
<1>6. AnswersAreFramed' /\ EmptyIsReportedMissing'
  BY <1>1 DEF AnswersAreFramed, EmptyIsReportedMissing
<1> QED BY <1>3, <1>4, <1>5, <1>6 DEF IInv

LEMMA SameAnswer ==
  ASSUME CodeFits, RangeIsExact,
         UNCHANGED <<pc, request, file, response_code, entity_body>>
  PROVE  CodeFits' /\ RangeIsExact'
<1>1. CodeFits'
  BY DEF CodeFits, Asked, IsServed
<1>2. RangeIsExact'
  BY DEF RangeIsExact
<1> QED BY <1>1, <1>2

\* What the tester does changes nothing of the server.
LEMMA TesterStep ==
  ASSUME IInv,
         UNCHANGED <<disk, gone, pc, request, file, response_code, entity_body, content_length>>,
         tester \in {"read_headers", "read_bytes"},
         tester' \in {"ask", "read_bytes"},
         unread' \in Seq(Symbols), cache' \in Seq(Symbols), length' \in Nat,
         verdict' \in {"none", "no length", "read", "short"},
         ExchangeFits', AnswersAreFramed', EmptyIsReportedMissing'
  PROVE  IInv'
<1>1. TypeOK'
  BY DEF IInv, TypeOK
<1>2. PlaceFits'
  BY DEF IInv, PlaceFits, IsServed
<1>3. EscapesAreRare'
  BY DEF IInv, EscapesAreRare, IsServed, TooLarge
<1>4. CodeFits' /\ RangeIsExact'
  BY SameAnswer DEF IInv
<1> QED BY <1>1, <1>2, <1>3, <1>4 DEF IInv

\* What the tester holds of a body is no headers.
LEMMA BodyCached ==
  ASSUME TypeOK, tester' = "read_bytes", entity_body' = entity_body,
         cache' \in Seq(Symbols), unread' \in Seq(Symbols), cache' \o unread' = entity_body
  PROVE  AnswersAreFramed'
<1> DEFINE c == cache'
           u == unread'
<1> SUFFICES ASSUME NEW i \in DOMAIN c PROVE c[i] \in Bodies
  BY DEF AnswersAreFramed
<1>1. /\ Len(c) \in Nat /\ Len(u) \in Nat /\ i \in 1..Len(c)
      /\ Len(entity_body) = Len(c) + Len(u)
  BY ConcatProperties, LenProperties
<1>2. i \in 1..Len(entity_body) /\ i <= Len(c)
  BY <1>1
<1>3. c[i] = entity_body[i]
  <2>1. (c \o u)[i] = IF i <= Len(c) THEN c[i] ELSE u[i - Len(c)]
    BY <1>1, <1>2, ConcatProperties
  <2> QED BY <1>2, <2>1
<1>4. entity_body[i] \in Bodies
  BY <1>2, ElementOfSeq DEF TypeOK
<1> QED BY <1>3, <1>4

LEMMA ReadHeadersSafe ==
  ASSUME IInv, ReadHeaders
  PROVE  IInv'
<1>1. /\ tester = "read_headers"
      /\ UNCHANGED <<disk, gone, pc, request, file, response_code, entity_body,
                     content_length>>
  BY DEF ReadHeaders, server
<1> DEFINE received(k) == cache \o SubSeq(unread, 1, k)
<1>2. PICK n \in 1..Len(unread) :
        /\ unread' = SubSeq(unread, n + 1, Len(unread))
        /\ length' = Head(received(n)).length
        /\ cache' = Tail(received(n))
        /\ IF length' = 0
           THEN Reports("no length")
           ELSE tester' = "read_bytes" /\ UNCHANGED verdict
  BY DEF ReadHeaders
<1>3. pc = "idle" /\ cache = <<>> /\ unread = AnswerSymbols
      /\ content_length = Len(entity_body) /\ verdict # "short"
  <2>1. unread # <<>>
    <3>1. ASSUME unread = <<>> PROVE FALSE
      <4>1. Len(unread) = 0
        BY <3>1
      <4>2. n \in 1..0
        BY <4>1
      <4> QED BY <4>2
    <3> QED BY <3>1
  <2>2. pc = "idle"
    BY <2>1 DEF IInv, ExchangeFits
  <2> QED BY <1>1, <2>2 DEF IInv, ExchangeFits
<1>4. /\ entity_body \in Seq(Symbols) /\ unread \in Seq(Symbols)
      /\ Len(unread) = 1 + Len(entity_body) /\ unread[1].length = content_length
      /\ SubSeq(unread, 2, Len(unread)) = entity_body
  BY <1>3, AnswerParts DEF IInv
<1>5. Len(entity_body) \in Nat /\ n \in Nat /\ n >= 1 /\ n <= Len(unread)
  <2>1. Len(entity_body) \in Nat
    BY <1>4, LenProperties
  <2>2. n \in 1..(1 + Len(entity_body)) /\ Len(unread) = 1 + Len(entity_body)
    BY <1>2, <1>4
  <2> QED BY <2>1, <2>2
<1>6. received(n) = SubSeq(unread, 1, n)
  <2>1. SubSeq(unread, 1, n) \in Seq(Symbols)
    BY <1>4, <1>5, PartOf
  <2> QED BY <1>3, <2>1, ConcatEmptySeq
<1> HIDE DEF received
<1>7. /\ Head(received(n)) = unread[1]
      /\ Tail(received(n)) = SubSeq(unread, 2, n)
  <2>1. 1 \in 1..Len(unread) /\ n \in 1..Len(unread)
    BY <1>4, <1>5
  <2>2. /\ Head(SubSeq(unread, 1, n)) = unread[1]
        /\ Tail(SubSeq(unread, 1, n)) = SubSeq(unread, 1 + 1, n)
    BY <1>4, <2>1, HeadTailOfSubSeq
  <2>3. 1 + 1 = 2
    OBVIOUS
  <2> QED BY <1>6, <2>2, <2>3
<1>8. /\ length' = Len(entity_body)
      /\ cache' = SubSeq(unread, 2, n) /\ cache' \in Seq(Symbols)
  <2>1. SubSeq(unread, 2, n) \in Seq(Symbols)
    BY <1>4, <1>5, PartOf
  <2> QED BY <1>2, <1>3, <1>4, <1>7, <2>1
<1>9. /\ unread' \in Seq(Symbols) /\ cache' \o unread' = entity_body
      /\ Len(cache') = n - 1 /\ Len(unread') = Len(unread) - n
  <2> DEFINE l == Len(unread)
  <2>1. /\ l \in Nat /\ n + 1 \in Nat /\ n + 1 >= 1 /\ l <= Len(unread)
        /\ 2 \in 1..(l + 1) /\ n \in (2 - 1)..l /\ l \in n..l
        /\ (n + 1 <= l => l - (n + 1) + 1 = l - n) /\ (~(n + 1 <= l) => l - n = 0)
        /\ (2 <= n => n - 2 + 1 = n - 1) /\ (~(2 <= n) => n - 1 = 0)
    BY <1>4, <1>5
  <2>2. SubSeq(unread, 2, n) \o SubSeq(unread, n + 1, l) = SubSeq(unread, 2, l)
    BY <1>4, <2>1, ConcatAdjacentSubSeq
  <2>3. /\ SubSeq(unread, n + 1, l) \in Seq(Symbols)
        /\ Len(SubSeq(unread, n + 1, l)) = IF n + 1 <= l THEN l - (n + 1) + 1 ELSE 0
    <3> HIDE DEF l
    <3> QED BY <1>4, <2>1, PartOf
  <2>4. Len(SubSeq(unread, 2, n)) = IF 2 <= n THEN n - 2 + 1 ELSE 0
    BY <1>4, <1>5, PartOf
  <2> QED BY <1>2, <1>4, <1>8, <2>1, <2>2, <2>3, <2>4
<1>10. pc' = "idle" /\ entity_body' = entity_body /\ content_length' = content_length
  BY <1>1, <1>3
<1>11. CASE Len(entity_body) = 0
  <2>1. tester' = "ask" /\ verdict' = "no length"
    BY <1>2, <1>8, <1>11 DEF Reports
  <2>2. entity_body = <<>> /\ cache' = <<>> /\ unread' = <<>>
    <3>1. n = 1
      BY <1>4, <1>5, <1>11
    <3> QED BY <1>4, <1>8, <1>9, <1>11, <3>1
  <2>3. ExchangeFits' /\ AnswersAreFramed' /\ EmptyIsReportedMissing'
    BY <1>10, <2>1, <2>2 DEF ExchangeFits, AnswersAreFramed, EmptyIsReportedMissing
  <2> QED BY <1>1, <1>5, <1>8, <1>9, <2>1, <2>3, TesterStep
<1>12. CASE Len(entity_body) # 0
  <2>1. tester' = "read_bytes" /\ verdict' = verdict
    BY <1>2, <1>8, <1>12
  <2>2. verdict' \in {"none", "no length", "read", "short"}
    BY <2>1 DEF IInv, TypeOK
  <2>3. ExchangeFits' /\ EmptyIsReportedMissing'
    BY <1>3, <1>8, <1>9, <1>10, <1>12, <2>1 DEF ExchangeFits, EmptyIsReportedMissing
  <2>4. AnswersAreFramed'
    BY <1>8, <1>9, <1>10, <2>1, BodyCached DEF IInv
  <2> QED BY <1>1, <1>5, <1>8, <1>9, <2>1, <2>2, <2>3, <2>4, TesterStep
<1> QED BY <1>11, <1>12

LEMMA ReadBytesSafe ==
  ASSUME IInv, ReadBytes
  PROVE  IInv'
<1>1. /\ tester = "read_bytes"
      /\ UNCHANGED <<disk, gone, pc, request, file, response_code, entity_body,
                     content_length>>
      /\ length' = length
  BY DEF ReadBytes, server
<1>2. /\ pc = "idle" /\ cache \o unread = entity_body /\ length = Len(entity_body)
      /\ length # 0 /\ verdict # "short"
  BY <1>1 DEF IInv, ExchangeFits
<1>3. /\ cache \in Seq(Symbols) /\ unread \in Seq(Symbols) /\ length \in Nat
      /\ Len(cache) \in Nat /\ Len(unread) \in Nat
      /\ length = Len(cache) + Len(unread)
  <2>1. cache \in Seq(Symbols) /\ unread \in Seq(Symbols) /\ length \in Nat
    BY DEF IInv, TypeOK
  <2> QED BY <1>2, <2>1, ConcatProperties, LenProperties
<1>4. CASE /\ UNCHANGED <<tester, verdict>>
           /\ \E n \in 1..Len(unread) :
                /\ cache' = cache \o SubSeq(unread, 1, n)
                /\ unread' = SubSeq(unread, n + 1, Len(unread))
  <2>1. PICK n \in 1..Len(unread) :
          /\ cache' = cache \o SubSeq(unread, 1, n)
          /\ unread' = SubSeq(unread, n + 1, Len(unread))
    BY <1>4
  <2> DEFINE a == SubSeq(unread, 1, n)
             b == SubSeq(unread, n + 1, Len(unread))
             l == Len(unread)
  <2>2. /\ n \in Nat /\ 1 \in 1..(l + 1) /\ n \in (1 - 1)..l /\ l \in n..l
        /\ n <= Len(unread) /\ n + 1 \in Nat /\ n + 1 >= 1 /\ l \in Nat /\ l <= Len(unread)
    BY <1>3
  <2>3. a \in Seq(Symbols)
    BY <1>3, <2>2, PartOf
  <2>4. b \in Seq(Symbols)
    <3> HIDE DEF l
    <3>1. SubSeq(unread, n + 1, l) \in Seq(Symbols)
      BY <1>3, <2>2, PartOf
    <3> QED BY <3>1 DEF l
  <2>5. a \o b = unread
    <3>1. a \o b = SubSeq(unread, 1, l)
      BY <1>3, <2>2, ConcatAdjacentSubSeq
    <3>2. SubSeq(unread, 1, l) = unread
      BY <1>3, SubSeqFull
    <3> QED BY <3>1, <3>2
  <2> HIDE DEF a, b, l
  <2>6. cache' = cache \o a /\ unread' = b
    BY <2>1 DEF a, b
  <2>7. cache' \in Seq(Symbols) /\ unread' \in Seq(Symbols)
    BY <1>3, <2>3, <2>4, <2>6, ConcatProperties
  <2>8. cache' \o unread' = entity_body
    <3>1. (cache \o a) \o b = cache \o (a \o b)
      <4>1. \A s, t, u \in Seq(Symbols) : (s \o t) \o u = s \o (t \o u)
        BY ConcatAssociative
      <4>2. cache \in Seq(Symbols)
        BY <1>3
      <4> QED BY <2>3, <2>4, <4>1, <4>2
    <3>2. cache' \o unread' = (cache \o a) \o b
      BY <2>6
    <3>3. cache \o (a \o b) = entity_body
      <4>1. cache \o (a \o b) = cache \o unread
        BY <2>5
      <4> QED BY <1>2, <4>1
    <3> QED BY <3>1, <3>2, <3>3
  <2>9. tester' = "read_bytes" /\ verdict' = verdict
    BY <1>1, <1>4
  <2>10. ExchangeFits' /\ EmptyIsReportedMissing'
    BY <1>1, <1>2, <2>8, <2>9 DEF ExchangeFits, EmptyIsReportedMissing
  <2>11. AnswersAreFramed'
    BY <1>1, <2>7, <2>8, <2>9, BodyCached DEF IInv
  <2>12. verdict' \in {"none", "no length", "read", "short"}
    BY <2>9 DEF IInv, TypeOK
  <2> QED BY <1>1, <1>3, <2>7, <2>9, <2>10, <2>11, <2>12, TesterStep
<1>5. CASE /\ Len(cache) >= length
           /\ cache' = SubSeq(cache, length + 1, Len(cache))
           /\ Reports("read")
           /\ UNCHANGED unread
  <2>1. tester' = "ask" /\ verdict' = "read" /\ unread' = unread
    BY <1>5 DEF Reports
  <2>2. unread = <<>>
    <3>1. Len(unread) = 0
      <4>1. Len(cache) >= length
        BY <1>5
      <4> QED BY <1>3, <4>1
    <3> QED BY <1>3, <3>1
  <2>3. cache' = <<>>
    <3>1. Len(cache) < length + 1 /\ Len(cache) \in Int /\ length + 1 \in Int
      BY <1>3
    <3>2. SubSeq(cache, length + 1, Len(cache)) = <<>>
      BY <3>1, SubSeqEmpty
    <3> QED BY <1>5, <3>2
  <2>4. entity_body # <<>>
    BY <1>2
  <2>5. ExchangeFits' /\ AnswersAreFramed' /\ EmptyIsReportedMissing'
    BY <1>1, <1>2, <2>1, <2>2, <2>3, <2>4
    DEF ExchangeFits, AnswersAreFramed, EmptyIsReportedMissing
  <2>6. cache' \in Seq(Symbols)
    BY <2>3, EmptySeq
  <2> QED BY <1>1, <1>3, <2>1, <2>5, <2>6, TesterStep
<1> QED BY <1>4, <1>5 DEF ReadBytes

LEMMA ClosedSafe ==
  ASSUME IInv, Closed
  PROVE  IInv'
<1>1. /\ pc = "raised" /\ unread = <<>> /\ cache' = <<>>
      /\ UNCHANGED <<disk, gone, pc, request, file, response_code, entity_body,
                     content_length>>
      /\ unread' = unread /\ length' = length
  BY DEF Closed, server
<1>2. tester = "read_headers"
  <2>1. tester # "read_bytes"
    BY <1>1 DEF IInv, ExchangeFits
  <2> QED BY <2>1 DEF Closed
<1>3. tester' = "ask" /\ verdict' = "no length"
  BY <1>2 DEF Closed, Reports
<1>4. ExchangeFits' /\ AnswersAreFramed' /\ EmptyIsReportedMissing'
  BY <1>1, <1>3 DEF ExchangeFits, AnswersAreFramed, EmptyIsReportedMissing
<1>5. unread' \in Seq(Symbols) /\ cache' \in Seq(Symbols) /\ length' \in Nat
  BY <1>1, EmptySeq DEF IInv, TypeOK
<1> QED BY <1>1, <1>2, <1>3, <1>4, <1>5, TesterStep

LEMMA NextIInv == IInv /\ [Next]_vars => IInv'
<1> SUFFICES ASSUME IInv, [Next]_vars PROVE IInv'
  OBVIOUS
<1>1. CASE UNCHANGED vars
  <2>1. /\ UNCHANGED <<disk, gone, pc, request, file, response_code, entity_body>>
        /\ UNCHANGED <<content_length, unread, tester, cache, length, verdict>>
    BY <1>1 DEF vars, server, client
  <2>2. CodeFits' /\ RangeIsExact'
    BY <2>1, SameAnswer DEF IInv
  <2>3. TypeOK'
    BY <2>1 DEF IInv, TypeOK
  <2>4. PlaceFits'
    BY <2>1 DEF IInv, PlaceFits, IsServed
  <2>5. ExchangeFits'
    BY <2>1 DEF IInv, ExchangeFits, AnswerSymbols
  <2>6. EscapesAreRare'
    BY <2>1 DEF IInv, EscapesAreRare, IsServed, TooLarge
  <2>7. AnswersAreFramed' /\ EmptyIsReportedMissing'
    BY <2>1 DEF IInv, AnswersAreFramed, EmptyIsReportedMissing
  <2> QED BY <2>2, <2>3, <2>4, <2>5, <2>6, <2>7 DEF IInv
<1>2. ASSUME NEW n \in Names, Change(n) PROVE IInv'
  BY <1>2, ChangeSafe
<1>3. ASSUME Server PROVE IInv'
  BY <1>3, ParseSafe, OpenSafe, StatSafe, FillSafe, AnswerSafe DEF Server
<1>4. ASSUME NEW r \in Requests, Ask(r) PROVE IInv'
  BY <1>4, AskSafe
<1>5. ASSUME Tester PROVE IInv'
  BY <1>5, ReadHeadersSafe, ReadBytesSafe, ClosedSafe DEF Tester
<1> QED BY <1>1, <1>2, <1>3, <1>4, <1>5 DEF Next

-----------------------------------------------------------------------------
(* The theorems.                                                           *)

LEMMA AlwaysIInv == Spec => []IInv
  BY InitIInv, NextIInv, PTL DEF Spec

\* The variables keep their types.
THEOREM TypeCorrect == Spec => []TypeOK
<1>1. IInv => TypeOK
  BY DEF IInv
<1> QED BY <1>1, AlwaysIInv, PTL

\* Whatever the requests and the changes to the files, processHTTP() ends the
\* server only for a file that goes while it is served, or for a range with
\* numbers that are too large.
THEOREM FewEscapes == Spec => []EscapesAreRare
<1>1. IInv => EscapesAreRare
  BY DEF IInv
<1> QED BY <1>1, AlwaysIInv, PTL

\* The code of an answer is the one that the request and the file call for.
THEOREM CodesFit == Spec => []CodeFits
<1>1. IInv => CodeFits
  BY DEF IInv
<1> QED BY <1>1, AlwaysIInv, PTL

\* A range has just the bytes that are asked for, of files of any size.
THEOREM RangesAreExact == Spec => []RangeIsExact
<1>1. IInv => RangeIsExact
  BY DEF IInv
<1> QED BY <1>1, AlwaysIInv, PTL

\* On a connection that persists an answer is never taken for part of another,
\* however it is cut up on its way.
THEOREM FramesAreKept == Spec => []AnswersAreFramed
<1>1. IInv => AnswersAreFramed
  BY DEF IInv
<1> QED BY <1>1, AlwaysIInv, PTL

\* The tester takes every answer without a body, and no other, for one without
\* Content-Length.
THEOREM EmptyLooksMissing == Spec => []EmptyIsReportedMissing
<1>1. IInv => EmptyIsReportedMissing
  BY DEF IInv
<1> QED BY <1>1, AlwaysIInv, PTL
=============================================================================
