---------------------------- MODULE HttpExchange ----------------------------
(***************************************************************************)
(* What the web server answers to a request, processHTTP() of server.py in *)
(* lab4-webserver, and how the protocol tester, tests/protocol.py, reads   *)
(* the answers from one connection.  Between the steps of processHTTP()    *)
(* that use the file system others may change it.                          *)
(*                                                                         *)
(* A request is what its parsing tells apart; the bytes of a file are      *)
(* their places.  How requests arrive is the matter of WebServer.          *)
(***************************************************************************)
EXTENDS Naturals, Integers, Sequences

CONSTANTS
  Names,      \* file names, as formFileName() makes them
  MaxSize,    \* greatest size of a file
  Offsets,    \* numbers in the ranges that are asked for
  Huge        \* least number that does not fit a file offset, or for which
              \* there is no memory

ASSUME NumbersAssumption ==
  MaxSize \in Nat /\ Offsets \subseteq Nat /\ Huge \in Nat /\ MaxSize < Huge

Methods == {"GET", "HEAD", "DELETE", "BAD"}
KnownMethods == {"GET", "HEAD", "DELETE"}
SupportedMethods == {"GET", "HEAD"}

\* words: the request line has three words; headers: each line has a colon, and
\* there is a Host; range: the value of Range.
NoRange == [range |-> "none"]
BadRange == [range |-> "malformed"]
Requests ==
  [words : BOOLEAN, method : Methods, headers : {"good", "malformed", "no host"},
   name : Names, range : {NoRange, BadRange} \cup [start : Offsets, end : Offsets]]

Entries ==
  [state : {"absent", "unreadable", "directory"}, size : {0}]
    \cup [state : {"file"}, size : 0..MaxSize]
NotOpened == [state |-> "not opened", size |-> 0]

VARIABLES
  disk,           \* disk[n]: what is there
  gone,           \* history: the file was removed after it had been opened
  \* the server
  pc,             \* where processHTTP() is, "idle" or "raised"
  request,
  file,           \* what open() found
  response_code,
  entity_body,
  content_length, \* entity_headers['Content-Length']
  \* the connection and the tester
  unread,         \* symbols the tester has not received
  tester,         \* "ask", "read_headers" or "read_bytes"
  cache,          \* self.cache
  length,         \* what get_length() has found
  verdict

server == <<pc, request, file, response_code, entity_body, content_length>>
client == <<tester, cache, length, verdict>>
vars == <<disk, gone, server, unread, client>>

Init ==
  /\ disk \in [Names -> Entries]
  /\ gone = FALSE
  /\ pc = "idle"
  /\ request \in {r \in Requests : r.words /\ r.method = "GET" /\ r.headers = "good"
                                     /\ r.range = NoRange}
  /\ file = NotOpened
  /\ response_code = 200
  /\ entity_body = <<>>
  /\ content_length = 0
  /\ unread = <<>>
  /\ tester = "ask"
  /\ cache = <<>>
  /\ length = 0
  /\ verdict = "none"

-----------------------------------------------------------------------------
(* The file system.                                                        *)

\* A file keeps its contents; it is removed, made, or its mode is changed.
Change(n) ==
  /\ \E e \in Entries : disk' = [disk EXCEPT ![n] = e]
  /\ gone' = (gone \/ (pc = "stat" /\ n = request.name /\ disk'[n].state = "absent"))
  /\ UNCHANGED <<server, unread, client>>

-----------------------------------------------------------------------------
(* processHTTP().                                                          *)

ErrorText(code) == <<[text |-> code]>>

\* What the two except clauses, and the branch for a method that is not
\* served, do.
Refuse(code) ==
  /\ pc' = "answer"
  /\ response_code' = code
  /\ entity_body' = ErrorText(code)
  /\ content_length' = Len(entity_body')

\* A variant that does not distinguish unknown methods.
ParseUnknown ==
  /\ pc = "parse"
  /\ ~request.words \/ (request.method \notin SupportedMethods)
  /\ IF request.words THEN Refuse(501) ELSE Refuse(400)
  /\ UNCHANGED <<disk, gone, request, file, unread, client>>

\* parseRequest() fails, or does not know the method, or does not support it.
ParseRequest ==
  /\ pc = "parse"
  /\ \/ (~request.words \/ request.method \notin KnownMethods) /\ Refuse(400)
     \/ request.words /\ request.method \in KnownMethods \ SupportedMethods /\ Refuse(501)
  /\ UNCHANGED <<disk, gone, request, file, unread, client>>

IsServed == request.words /\ request.method \in SupportedMethods

\* A variant in which nobody catches KeyError.
ParseHeadersRaises ==
  /\ pc = "parse" /\ IsServed
  /\ \/ request.headers = "malformed" /\ Refuse(400)
     \/ /\ request.headers = "no host"
        /\ pc' = "raised"
        /\ UNCHANGED <<response_code, entity_body, content_length>>
     \/ /\ request.headers = "good"
        /\ pc' = "open"
        /\ UNCHANGED <<response_code, entity_body, content_length>>
  /\ UNCHANGED <<disk, gone, request, file, unread, client>>

\* A line without a colon is a ValueError, no Host a KeyError.
ParseHeaders ==
  /\ pc = "parse" /\ IsServed
  /\ \/ request.headers # "good" /\ Refuse(400)
     \/ /\ request.headers = "good"
        /\ pc' = "open"
        /\ UNCHANGED <<response_code, entity_body, content_length>>
  /\ UNCHANGED <<disk, gone, request, file, unread, client>>

\* open(): errno 13 and 2, and others.
OpenError(state) ==
  CASE state = "unreadable" -> 403 [] state = "absent" -> 404 [] state = "directory" -> 500

Open ==
  /\ pc = "open"
  /\ file' = disk[request.name]
  /\ IF file'.state = "file"
     THEN pc' = "stat" /\ UNCHANGED <<response_code, entity_body, content_length>>
     ELSE Refuse(OpenError(file'.state))
  /\ UNCHANGED <<disk, gone, request, unread, client>>

\* os.stat() of the name: its OSError is none of the exceptions that are
\* caught.
Stat ==
  /\ pc = "stat"
  /\ pc' = IF disk[request.name].state = "absent" THEN "raised" ELSE "fill"
  /\ UNCHANGED <<disk, gone, request, file, response_code, entity_body,
                 content_length, unread, client>>

Bytes(first, last) == [i \in 1..(last - first + 1) |-> [at |-> first + i - 1]]

\* A variant that reads a byte more than it is asked for.
ReadFileCount(start, n) ==
  IF start >= file.size THEN <<>>
  ELSE IF n + start > file.size THEN Bytes(start, file.size - 1)
  ELSE Bytes(start, start + n)

\* f.seek(start); f.read(n): all that is left when n is negative.
ReadFile(start, n) ==
  IF start >= file.size \/ n = 0 THEN <<>>
  ELSE IF n < 0 \/ start + n > file.size THEN Bytes(start, file.size - 1)
  ELSE Bytes(start, start + n - 1)

\* A variant with the length of the line that is commented out.
FillStatSize(code, body) ==
  /\ pc' = "answer"
  /\ response_code' = code
  /\ entity_body' = body
  /\ content_length' = file.size

Fill(code, body) ==
  /\ pc' = "answer"
  /\ response_code' = code
  /\ entity_body' = body
  /\ content_length' = Len(entity_body')

TooLarge(r) == r.start >= Huge \/ r.end - r.start + 1 >= Huge

\* The rest of fillEntity().
FillEntity ==
  /\ pc = "fill"
  /\ \/ request.method = "HEAD" /\ Fill(200, <<>>)
     \/ request.method = "GET" /\ request.range = NoRange /\ Fill(200, ReadFile(0, -1))
     \/ request.method = "GET" /\ request.range = BadRange /\ Refuse(400)
     \/ /\ request.method = "GET" /\ request.range \notin {NoRange, BadRange}
        /\ IF TooLarge(request.range)
           THEN pc' = "raised" /\ UNCHANGED <<response_code, entity_body, content_length>>
           ELSE Fill(206, ReadFile(request.range.start,
                                   request.range.end - request.range.start + 1))
  /\ UNCHANGED <<disk, gone, request, file, unread, client>>

\* The answer: the status line and headers are one symbol.
Answer ==
  /\ pc = "answer"
  /\ pc' = "idle"
  /\ unread' = unread \o <<[code |-> response_code, length |-> content_length]>> \o entity_body
  /\ UNCHANGED <<disk, gone, request, file, response_code, entity_body, content_length, client>>

-----------------------------------------------------------------------------
(* The tester.                                                             *)

Ask(r) ==
  /\ tester = "ask" /\ pc = "idle"
  /\ tester' = "read_headers"
  /\ pc' = "parse"
  /\ request' = r
  /\ file' = NotOpened
  /\ gone' = FALSE
  /\ UNCHANGED <<disk, response_code, entity_body, content_length, unread, cache,
                 length, verdict>>

\* get_response() returns.
Reports(v) == tester' = "ask" /\ verdict' = v

\* read_headers(), and get_length(): a length of 0 passes for none.
ReadHeaders ==
  /\ tester = "read_headers"
  /\ \E n \in 1..Len(unread) :
       LET received == cache \o SubSeq(unread, 1, n) IN
       /\ unread' = SubSeq(unread, n + 1, Len(unread))
       /\ length' = Head(received).length
       /\ cache' = Tail(received)
       /\ IF length' = 0
          THEN Reports("no length")
          ELSE tester' = "read_bytes" /\ UNCHANGED verdict
  /\ UNCHANGED <<disk, gone, server>>

\* A variant that is one symbol short.
ReadBytesShort ==
  /\ tester = "read_bytes"
  /\ \/ /\ Len(cache) + 1 < length
        /\ \E n \in 1..Len(unread) :
             /\ cache' = cache \o SubSeq(unread, 1, n)
             /\ unread' = SubSeq(unread, n + 1, Len(unread))
        /\ UNCHANGED <<tester, verdict>>
     \/ /\ Len(cache) + 1 >= length
        /\ cache' = SubSeq(cache, length + 1, Len(cache))
        /\ Reports("read")
        /\ UNCHANGED unread
  /\ UNCHANGED <<disk, gone, server, length>>

ReadBytes ==
  /\ tester = "read_bytes"
  /\ \/ /\ Len(cache) < length
        /\ \E n \in 1..Len(unread) :
             /\ cache' = cache \o SubSeq(unread, 1, n)
             /\ unread' = SubSeq(unread, n + 1, Len(unread))
        /\ UNCHANGED <<tester, verdict>>
     \/ /\ Len(cache) >= length
        /\ cache' = SubSeq(cache, length + 1, Len(cache))
        /\ Reports("read")
        /\ UNCHANGED unread
  /\ UNCHANGED <<disk, gone, server, length>>

\* recv() returns nothing: the server has ended.
Closed ==
  /\ pc = "raised" /\ unread = <<>>
  /\ tester = "read_headers" \/ (tester = "read_bytes" /\ Len(cache) < length)
  /\ cache' = <<>>
  /\ Reports(IF tester = "read_headers" THEN "no length" ELSE "short")
  /\ UNCHANGED <<disk, gone, server, unread, length>>

-----------------------------------------------------------------------------
Server == ParseRequest \/ ParseHeaders \/ Open \/ Stat \/ FillEntity \/ Answer
Tester == ReadHeaders \/ ReadBytes \/ Closed

Next ==
  \/ \E n \in Names : Change(n)
  \/ Server
  \/ \E r \in Requests : Ask(r)
  \/ Tester

Spec == Init /\ [][Next]_vars

\* The server is run, and so is the tester; the network delivers.
FairSpec == Spec /\ WF_vars(Server) /\ WF_vars(Tester)

-----------------------------------------------------------------------------
(* Properties.                                                             *)

Codes == {200, 206, 400, 403, 404, 500, 501}
Bodies == [at : Nat] \cup [text : Codes]
Symbols == Bodies \cup [code : Codes, length : Nat]

\* The variables keep their types.
TypeOK ==
  /\ disk \in [Names -> Entries] /\ gone \in BOOLEAN
  /\ pc \in {"idle", "parse", "open", "stat", "fill", "answer", "raised"}
  /\ request \in Requests /\ file \in Entries \cup {NotOpened}
  /\ response_code \in Codes /\ entity_body \in Seq(Bodies)
  /\ content_length \in Nat
  /\ unread \in Seq(Symbols) /\ cache \in Seq(Symbols)
  /\ tester \in {"ask", "read_headers", "read_bytes"}
  /\ length \in Nat
  /\ verdict \in {"none", "no length", "read", "short"}

\* Whatever is asked for and whatever becomes of the files, the server only
\* ends when a file is removed between open() and os.stat(), or the numbers of
\* a range are too large; no request that is malformed, and no file that is
\* missing or cannot be opened, ends it.
IsPair(range) == range \notin {NoRange, BadRange}
EscapesAreRare ==
  pc = "raised" =>
    /\ IsServed /\ request.headers = "good" /\ file.state = "file"
    /\ gone \/ (request.method = "GET" /\ IsPair(request.range) /\ TooLarge(request.range))

\* The code of the answer is the one that the request and what open() found
\* call for, as tests/protocol.py expects them: 404 for a file that is not
\* there, 403 for one that may not be read, 501 for a method that is known and
\* not served, 206 for a range, and 200 exactly when the whole file (or, for
\* HEAD, nothing) is sent; an error never hides another that comes first.
Asked(state) == IsServed /\ request.headers = "good" /\ file.state = state
CodeFits ==
  pc = "answer" =>
    /\ response_code = 501 <=>
         request.words /\ request.method \in KnownMethods \ SupportedMethods
    /\ response_code = 404 <=> Asked("absent")
    /\ response_code = 403 <=> Asked("unreadable")
    /\ response_code = 500 <=> Asked("directory")
    /\ response_code = 206 <=>
         Asked("file") /\ request.method = "GET" /\ IsPair(request.range)
    /\ response_code = 200 <=>
         Asked("file") /\ (request.method = "HEAD" \/ request.range = NoRange)

\* A range has just the bytes of the file between its two numbers, in order,
\* also when it goes past the end of the file; but when the second number is
\* less than the first by two or more, all of the file from the first.
RangeIsExact ==
  pc = "answer" /\ response_code = 206 =>
    LET first == request.range.start
        last == request.range.end IN
    /\ \A i \in DOMAIN entity_body : entity_body[i].at = first + i - 1
    /\ {entity_body[i].at : i \in DOMAIN entity_body} =
         {b \in 0..(file.size - 1) : first <= b /\ (b <= last \/ last + 1 < first)}

\* On a connection that persists, the tester has taken all of an answer and
\* nothing else when it asks again, and never takes the headers of an answer
\* for bytes of another's body.
AnswersAreFramed ==
  /\ tester = "ask" => cache = <<>> /\ unread = <<>>
  /\ tester = "read_bytes" => \A i \in DOMAIN cache : cache[i] \in Bodies

\* The tester reports that there is no Content-Length exactly for the answers
\* without a body, to HEAD, for an empty file, for a range past its end:
\* these do have one, and it is 0.
EmptyIsReportedMissing ==
  tester = "ask" /\ pc = "idle" /\ verdict # "none" =>
    (verdict = "no length" <=> entity_body = <<>>)

\* The tester never waits for ever: what Content-Length promises comes, or the
\* connection ends.
TesterReports == tester # "ask" ~> tester = "ask"
=============================================================================
