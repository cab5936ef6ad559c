-------------------------------- MODULE Wire --------------------------------
(***************************************************************************)
(* What the messaging client and server write on a connection, and how     *)
(* they take it apart (lab2-threaded-ms/client-handler.cc and client.cc).  *)
(*                                                                         *)
(* A stream is a sequence of symbols: the newline, a character of a        *)
(* message, a line of a list, or the words before the newline of a request *)
(* or a response, which count as one symbol (a header).  A header is never *)
(* counted by receive_message, and half a header behaves as one that has   *)
(* not arrived, so nothing is lost by keeping it whole.                    *)
(***************************************************************************)
EXTENDS Naturals, Sequences

NL == [sym |-> "newline"]
Chr(k) == [sym |-> "char", of |-> k]       \* a character of the k-th message
ListLine(i) == [sym |-> "list line", number |-> i]

PutHeader(length) == [sym |-> "put", length |-> length]
ListHeader == [sym |-> "list"]
GetHeader(index) == [sym |-> "get", index |-> index]
ResetHeader == [sym |-> "reset"]

OkHeader == [sym |-> "OK"]
ErrorHeader == [sym |-> "error"]
NumberHeader(n) == [sym |-> "list of", number |-> n]
MessageHeader(length) == [sym |-> "message", length |-> length]

Symbols ==
  {NL, ListHeader, ResetHeader, OkHeader, ErrorHeader}
    \cup [sym : {"char"}, of : Nat]
    \cup [sym : {"list line", "list of"}, number : Nat]
    \cup [sym : {"put", "message"}, length : Nat]
    \cup [sym : {"get"}, index : Nat]

\* The message the user typed as the k-th: a newline ends every line, and no
\* line is empty.
Body(k, lines) == [i \in 1..(2 * lines) |-> IF i % 2 = 1 THEN Chr(k) ELSE NL]

-----------------------------------------------------------------------------
HasNewline(s) == \E i \in DOMAIN s : s[i] = NL

FirstNewline(s) ==
  CHOOSE i \in DOMAIN s : s[i] = NL /\ \A j \in 1..(i - 1) : s[j] # NL

\* What get_request and get_response return, and what they leave in cache_:
\* the newline and all that follows it.
LineOf(s) == SubSeq(s, 1, FirstNewline(s) - 1)
\* A variant that keeps what follows the newline only.
RestAfter(s) == SubSeq(s, FirstNewline(s) + 1, Len(s))

RestOf(s) == SubSeq(s, FirstNewline(s), Len(s))

Erase(s, i) == SubSeq(s, 1, i - 1) \o SubSeq(s, i + 1, Len(s))

\* What receive_message returns of the bytes it has: without the first
\* newline, and without a newline at the end.
WithoutFirstNewline(s) == IF HasNewline(s) THEN Erase(s, FirstNewline(s)) ELSE s
WithoutLastNewline(s) ==
  IF s # <<>> /\ s[Len(s)] = NL THEN Erase(s, Len(s)) ELSE s
StripMessage(s) == WithoutLastNewline(WithoutFirstNewline(s))

\* The bytes of a list answer after its header, and of any answer.
ListBytes(n) == [i \in 1..(2 * n) |-> IF i % 2 = 1 THEN ListLine((i + 1) \div 2) ELSE NL]
=============================================================================
