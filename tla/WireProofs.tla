----------------------------- MODULE WireProofs -----------------------------
(***************************************************************************)
(* What recv() does to a stream, how a request, a message and an answer    *)
(* are taken apart, and what is left of them on the wire: lemmas that the  *)
(* proofs about both servers (SequentialProofs, MsgSessionProofs) share.   *)
(***************************************************************************)
EXTENDS Wire, SequenceTheorems, WellFoundedInduction, TLAPS

-----------------------------------------------------------------------------
(* Receiving.                                                              *)

\* What recv() takes and what it leaves.
LEMMA RecvParts ==
  ASSUME NEW S, NEW u \in Seq(S), NEW n \in 0..Len(u)
  PROVE  /\ SubSeq(u, 1, n) \in Seq(S) /\ Len(SubSeq(u, 1, n)) = n
         /\ \A i \in 1..n : SubSeq(u, 1, n)[i] = u[i]
         /\ SubSeq(u, n + 1, Len(u)) \in Seq(S)
         /\ Len(SubSeq(u, n + 1, Len(u))) = Len(u) - n
         /\ \A i \in 1..(Len(u) - n) : SubSeq(u, n + 1, Len(u))[i] = u[n + i]
<1>1. \A i \in 1..Len(u) : u[i] \in S
  BY ElementOfSeq
<1>2. /\ SubSeq(u, 1, n) \in Seq(S) /\ Len(SubSeq(u, 1, n)) = n
      /\ \A i \in 1..n : SubSeq(u, 1, n)[i] = u[i]
  <2>1. \A i \in 1..n : u[i] \in S
    BY <1>1, LenProperties
  <2> QED BY <2>1, SubSeqProperties
<1>3. /\ SubSeq(u, n + 1, Len(u)) \in Seq(S)
      /\ Len(SubSeq(u, n + 1, Len(u))) = Len(u) - n
      /\ \A i \in 1..(Len(u) - n) : SubSeq(u, n + 1, Len(u))[i] = u[n + i]
  <2>1. Len(u) \in Nat /\ \A i \in (n + 1)..Len(u) : u[i] \in S
    BY <1>1, LenProperties
  <2> QED BY <2>1, SubSeqProperties
<1> QED BY <1>2, <1>3

\* Receiving moves bytes and changes none.
LEMMA RecvMoves ==
  ASSUME NEW S, NEW s \in Seq(S), NEW u \in Seq(S), NEW n \in 0..Len(u)
  PROVE  /\ s \o SubSeq(u, 1, n) \in Seq(S)
         /\ (s \o SubSeq(u, 1, n)) \o SubSeq(u, n + 1, Len(u)) = s \o u
<1> DEFINE a == SubSeq(u, 1, n)
           b == SubSeq(u, n + 1, Len(u))
<1>1. a \in Seq(S) /\ b \in Seq(S)
  BY RecvParts
<1>2. a \o b = u
  <2>1. Len(u) \in Nat
    BY LenProperties
  <2>2. a \o b = SubSeq(u, 1, Len(u))
    <3>1. 1 \in 1..(Len(u) + 1) /\ n \in (1 - 1)..Len(u) /\ Len(u) \in n..Len(u)
      BY <2>1
    <3> QED BY <3>1, ConcatAdjacentSubSeq
  <2> QED BY <2>2, SubSeqFull
<1> HIDE DEF a, b
<1>3. (s \o a) \o b = s \o (a \o b)
  BY <1>1, ConcatAssociative
<1>4. s \o a \in Seq(S)
  BY <1>1, ConcatProperties
<1> QED BY <1>2, <1>3, <1>4 DEF a, b

Begins(s, r) == Len(s) <= Len(r) /\ \A i \in 1..Len(s) : s[i] = r[i]

\* All of r is still to be read of what a client has sent, or the beginning of
\* r when it has left; at is the client's program counter.
Part(at, s, r) == Begins(s, r) /\ (at # "left" => s = r)

\* Of a client that has left, the beginning of what was to be read may arrive.
LEMMA BeginsConcat ==
  ASSUME NEW s \in Seq(Symbols), NEW u \in Seq(Symbols)
  PROVE  s \o u \in Seq(Symbols) /\ Begins(s, s \o u)
<1> DEFINE w == s \o u
<1>1. /\ w \in Seq(Symbols) /\ Len(w) = Len(s) + Len(u)
      /\ \A i \in 1..(Len(s) + Len(u)) : w[i] = IF i <= Len(s) THEN s[i] ELSE u[i - Len(s)]
  BY ConcatProperties
<1>2. Len(s) \in Nat /\ Len(u) \in Nat
  BY LenProperties
<1> HIDE DEF w
<1>3. Len(s) <= Len(w)
  BY <1>1, <1>2
<1>4. ASSUME NEW i \in 1..Len(s)
      PROVE  s[i] = w[i]
  <2>1. i \in 1..(Len(s) + Len(u)) /\ i <= Len(s)
    BY <1>2
  <2> QED BY <1>1, <2>1
<1>5. Begins(s, w)
  BY <1>3, <1>4 DEF Begins
<1> QED BY <1>1, <1>5 DEF w

LEMMA BeginsTrans ==
  ASSUME NEW p \in Seq(Symbols), NEW s \in Seq(Symbols), NEW r \in Seq(Symbols),
         Begins(p, s), Begins(s, r)
  PROVE  Begins(p, r)
<1>1. Len(p) \in Nat /\ Len(s) \in Nat /\ Len(r) \in Nat
  BY LenProperties
<1>2. Len(p) <= Len(s) /\ Len(s) <= Len(r)
  BY DEF Begins
<1>3. ASSUME NEW i \in 1..Len(p) PROVE p[i] = r[i]
  <2>1. i \in 1..Len(s)
    BY <1>1, <1>2
  <2> QED BY <2>1 DEF Begins
<1> QED BY <1>1, <1>2, <1>3 DEF Begins

LEMMA PartCut ==
  ASSUME NEW p \in Seq(Symbols), NEW s \in Seq(Symbols), NEW r \in Seq(Symbols),
         NEW at, Part(at, s, r), Begins(p, s)
  PROVE  Part("left", p, r)
BY BeginsTrans DEF Part

LEMMA CutBegins ==
  ASSUME NEW s \in Seq(Symbols), NEW u \in Seq(Symbols), NEW n \in 0..Len(u)
  PROVE  /\ SubSeq(u, 1, n) \in Seq(Symbols) /\ Begins(SubSeq(u, 1, n), u)
         /\ s \o SubSeq(u, 1, n) \in Seq(Symbols)
         /\ Begins(s \o SubSeq(u, 1, n), s \o u)
<1> DEFINE v == SubSeq(u, 1, n)
<1>1. v \in Seq(Symbols) /\ Len(v) = n /\ \A i \in 1..n : v[i] = u[i]
  BY RecvParts
<1> HIDE DEF v
<1>2. Len(u) \in Nat /\ Len(s) \in Nat
  BY LenProperties
<1>3. /\ s \o v \in Seq(Symbols) /\ Len(s \o v) = Len(s) + n
      /\ \A i \in 1..(Len(s) + n) : (s \o v)[i] = IF i <= Len(s) THEN s[i] ELSE v[i - Len(s)]
  BY <1>1, ConcatProperties
<1>4. /\ Len(s \o u) = Len(s) + Len(u)
      /\ \A i \in 1..(Len(s) + Len(u)) : (s \o u)[i] = IF i <= Len(s) THEN s[i] ELSE u[i - Len(s)]
  BY ConcatProperties
<1>5. ASSUME NEW i \in 1..(Len(s) + n)
      PROVE  (s \o v)[i] = (s \o u)[i]
  <2>1. i \in 1..(Len(s) + Len(u)) /\ (~(i <= Len(s)) => i - Len(s) \in 1..n)
    BY <1>2
  <2> QED BY <1>1, <1>3, <1>4, <2>1
<1>6. Begins(s \o v, s \o u) /\ Begins(v, u)
  BY <1>1, <1>2, <1>3, <1>4, <1>5 DEF Begins
<1> QED BY <1>1, <1>3, <1>6 DEF v

\* Without its first symbol, too, it is a part of what was sent.
LEMMA ShiftPart ==
  ASSUME NEW at, NEW z \in Seq(Symbols), NEW s \in Seq(Symbols),
         NEW r \in Seq(Symbols), NEW m \in Seq(Symbols), Part(at, z, r),
         Len(z) >= 1, Len(s) = Len(z) - 1, \A i \in 1..(Len(z) - 1) : s[i] = z[i + 1],
         Len(m) = Len(r) - 1, \A i \in 1..(Len(r) - 1) : m[i] = r[i + 1]
  PROVE  Part(at, s, m)
<1>1. Len(z) \in Nat /\ Len(r) \in Nat
  BY LenProperties
<1>2. Begins(s, m)
  <2>1. Len(z) <= Len(r) /\ \A i \in 1..Len(z) : z[i] = r[i]
    BY DEF Part, Begins
  <2>2. ASSUME NEW i \in 1..(Len(z) - 1)
        PROVE  s[i] = m[i]
    <3>1. i + 1 \in 1..Len(z) /\ i \in 1..(Len(r) - 1)
      BY <1>1, <2>1
    <3> QED BY <2>1, <3>1
  <2> QED BY <1>1, <2>1, <2>2 DEF Begins
<1>3. ASSUME z = r PROVE s = m
  <2>1. Len(s) = Len(m) /\ \A i \in 1..Len(s) : s[i] = m[i]
    BY <1>1, <1>3
  <2> QED BY <2>1, SeqEqual
<1> QED BY <1>2, <1>3 DEF Part

\* What follows the first symbol of what was read, and what is still unread.
LEMMA ShiftConcat ==
  ASSUME NEW a \in Seq(Symbols), NEW b \in Seq(Symbols), NEW rest \in Seq(Symbols),
         Len(a) >= 1, Len(b) = Len(a) - 1, \A i \in 1..(Len(a) - 1) : b[i] = a[i + 1]
  PROVE  /\ b \o rest \in Seq(Symbols) /\ Len(b \o rest) = Len(a \o rest) - 1
         /\ Len(a \o rest) >= 1
         /\ \A i \in 1..(Len(a \o rest) - 1) : (b \o rest)[i] = (a \o rest)[i + 1]
<1> DEFINE z == a \o rest
           s == b \o rest
<1>1. /\ s \in Seq(Symbols) /\ Len(s) = Len(b) + Len(rest)
      /\ \A i \in 1..(Len(b) + Len(rest)) : s[i] = IF i <= Len(b) THEN b[i] ELSE rest[i - Len(b)]
  BY ConcatProperties
<1>2. /\ Len(z) = Len(a) + Len(rest)
      /\ \A i \in 1..(Len(a) + Len(rest)) : z[i] = IF i <= Len(a) THEN a[i] ELSE rest[i - Len(a)]
  BY ConcatProperties
<1> HIDE DEF z, s
<1>3. Len(a) \in Nat /\ Len(rest) \in Nat
  BY LenProperties
<1>4. ASSUME NEW i \in 1..(Len(z) - 1)
      PROVE  s[i] = z[i + 1]
  <2>1. i \in 1..(Len(b) + Len(rest)) /\ i + 1 \in 1..(Len(a) + Len(rest))
    BY <1>2, <1>3
  <2>2. CASE i <= Len(b)
    <3>1. i \in 1..(Len(a) - 1) /\ i + 1 <= Len(a)
      BY <1>3, <2>2
    <3> QED BY <1>1, <1>2, <2>1, <2>2, <3>1
  <2>3. CASE ~(i <= Len(b))
    <3>1. i - Len(b) = (i + 1) - Len(a) /\ ~(i + 1 <= Len(a))
      BY <1>3, <2>3
    <3> QED BY <1>1, <1>2, <2>1, <2>3, <3>1
  <2> QED BY <2>2, <2>3
<1> QED BY <1>1, <1>2, <1>3, <1>4 DEF z, s

-----------------------------------------------------------------------------
(* Lines and messages.                                                     *)

LEMMA FirstNewlineIsFirst ==
  ASSUME NEW S, NEW s \in Seq(S), HasNewline(s)
  PROVE  /\ FirstNewline(s) \in 1..Len(s) /\ s[FirstNewline(s)] = NL
         /\ \A j \in 1..(FirstNewline(s) - 1) : s[j] # NL
<1> DEFINE T == {i \in 1..Len(s) : s[i] = NL}
<1>1. Len(s) \in Nat /\ DOMAIN s = 1..Len(s)
  BY LenProperties
<1>2. T # {} /\ T \subseteq Nat
  BY <1>1 DEF HasNewline
<1>3. PICK x \in T : \A y \in T : ~ (<<y, x>> \in OpToRel(<, Nat))
  BY <1>2, WFMin, NatLessThanWellFounded
<1>4. \A y \in T : ~ (y < x)
  BY <1>2, <1>3 DEF OpToRel
<1>5. \A j \in 1..(x - 1) : s[j] # NL
  BY <1>1, <1>4
<1>6. x \in DOMAIN s /\ s[x] = NL
  BY <1>1
<1>7. /\ FirstNewline(s) \in DOMAIN s /\ s[FirstNewline(s)] = NL
      /\ \A j \in 1..(FirstNewline(s) - 1) : s[j] # NL
  BY <1>5, <1>6 DEF FirstNewline
<1> QED BY <1>1, <1>7

LEMMA LineAndRest ==
  ASSUME NEW S, NEW s \in Seq(S), HasNewline(s)
  PROVE  /\ LineOf(s) \in Seq(S) /\ Len(LineOf(s)) = FirstNewline(s) - 1
         /\ \A i \in 1..(FirstNewline(s) - 1) : LineOf(s)[i] = s[i]
         /\ RestOf(s) \in Seq(S) /\ Len(RestOf(s)) = Len(s) - FirstNewline(s) + 1
         /\ \A i \in 1..(Len(s) - FirstNewline(s) + 1) :
              RestOf(s)[i] = s[FirstNewline(s) + i - 1]
<1> DEFINE f == FirstNewline(s)
<1>1. f \in 1..Len(s) /\ Len(s) \in Nat
  BY FirstNewlineIsFirst, LenProperties
<1> HIDE DEF f
<1>2. \A i \in 1..Len(s) : s[i] \in S
  BY ElementOfSeq
<1>3. /\ SubSeq(s, 1, f - 1) \in Seq(S) /\ Len(SubSeq(s, 1, f - 1)) = f - 1
      /\ \A i \in 1..(f - 1) : SubSeq(s, 1, f - 1)[i] = s[i]
  <2>1. f - 1 \in 0..Len(s)
    BY <1>1
  <2> QED BY <2>1, RecvParts
<1>4. /\ SubSeq(s, f, Len(s)) \in Seq(S) /\ Len(SubSeq(s, f, Len(s))) = Len(s) - f + 1
      /\ \A i \in 1..(Len(s) - f + 1) : SubSeq(s, f, Len(s))[i] = s[f + i - 1]
  <2>1. f \in Int /\ Len(s) \in Int /\ f <= Len(s) /\ \A i \in f..Len(s) : s[i] \in S
    BY <1>1, <1>2
  <2> QED BY <2>1, SubSeqProperties
<1> QED BY <1>3, <1>4 DEF f, LineOf, RestOf

LEMMA EraseBytes ==
  ASSUME NEW S, NEW s \in Seq(S), NEW i \in 1..Len(s)
  PROVE  /\ Erase(s, i) \in Seq(S) /\ Len(Erase(s, i)) = Len(s) - 1
         /\ \A j \in 1..(Len(s) - 1) : Erase(s, i)[j] = IF j < i THEN s[j] ELSE s[j + 1]
<1> DEFINE a == SubSeq(s, 1, i - 1)
           b == SubSeq(s, i + 1, Len(s))
<1>1. Len(s) \in Nat /\ i - 1 \in 0..Len(s) /\ i \in 0..Len(s)
  BY LenProperties
<1>2. a \in Seq(S) /\ Len(a) = i - 1 /\ \A j \in 1..(i - 1) : a[j] = s[j]
  BY <1>1, RecvParts
<1>3. b \in Seq(S) /\ Len(b) = Len(s) - i /\ \A j \in 1..(Len(s) - i) : b[j] = s[i + j]
  BY <1>1, RecvParts
<1> HIDE DEF a, b
<1>4. a \o b \in Seq(S) /\ Len(a \o b) = Len(s) - 1
  <2>1. a \o b \in Seq(S) /\ Len(a \o b) = Len(a) + Len(b)
    BY <1>2, <1>3, ConcatProperties
  <2>2. Len(a) + Len(b) = Len(s) - 1
    BY <1>1, <1>2, <1>3
  <2> QED BY <2>1, <2>2
<1>5. ASSUME NEW j \in 1..(Len(s) - 1)
      PROVE  (a \o b)[j] = IF j < i THEN s[j] ELSE s[j + 1]
  <2>1. j \in 1..(Len(a) + Len(b))
    BY <1>1, <1>2, <1>3
  <2>2. (a \o b)[j] = IF j <= Len(a) THEN a[j] ELSE b[j - Len(a)]
    BY <1>2, <1>3, <2>1, ConcatProperties
  <2>3. CASE j < i
    BY <1>1, <1>2, <2>2, <2>3
  <2>4. CASE ~(j < i)
    <3>1. j - (i - 1) \in 1..(Len(s) - i) /\ i + (j - (i - 1)) = j + 1
      BY <1>1, <2>4
    <3> QED BY <1>1, <1>2, <1>3, <2>2, <2>4, <3>1
  <2> QED BY <2>3, <2>4
<1> QED BY <1>4, <1>5 DEF Erase, a, b

LEMMA StrippedEnd ==
  ASSUME NEW S, NEW s \in Seq(S)
  PROVE  WithoutLastNewline(s) \in Seq(S)
<1>1. s # <<>> => Len(s) \in 1..Len(s)
  BY EmptySeq, LenProperties
<1> QED BY <1>1, EraseBytes DEF WithoutLastNewline

LEMMA StrippedBytes ==
  ASSUME NEW S, NEW s \in Seq(S)
  PROVE  StripMessage(s) \in Seq(S)
<1>1. WithoutFirstNewline(s) \in Seq(S)
  BY FirstNewlineIsFirst, EraseBytes DEF WithoutFirstNewline
<1> QED BY <1>1, StrippedEnd DEF StripMessage

LEMMA HeaderSymbols ==
  /\ NL \in Symbols
  /\ \A n \in Nat : PutHeader(n) \in Symbols /\ PutHeader(n) # NL
BY DEF Symbols, NL, PutHeader

\* The count or the place that a request or an answer names.
LEMMA SymbolFields ==
  \A x \in Symbols :
    /\ x.sym \in {"put", "message"} => x.length \in Nat
    /\ x.sym = "list of" => x.number \in Nat
    /\ x.sym = "get" => x.index \in Nat
<1> SUFFICES ASSUME NEW x \in Symbols
             PROVE  /\ x.sym \in {"put", "message"} => x.length \in Nat
                    /\ x.sym = "list of" => x.number \in Nat
                    /\ x.sym = "get" => x.index \in Nat
  OBVIOUS
<1>1. \/ x \in {NL, ListHeader, ResetHeader, OkHeader, ErrorHeader}
      \/ x \in [sym : {"char"}, of : Nat]
      \/ x \in [sym : {"list line", "list of"}, number : Nat]
      \/ x \in [sym : {"put", "message"}, length : Nat]
      \/ x \in [sym : {"get"}, index : Nat]
  BY DEF Symbols
<1>2. CASE x \in {NL, ListHeader, ResetHeader, OkHeader, ErrorHeader}
  <2>1. x.sym \in {"newline", "list", "reset", "OK", "error"}
    BY <1>2 DEF NL, ListHeader, ResetHeader, OkHeader, ErrorHeader
  <2> QED BY <2>1
<1>3. CASE x \in [sym : {"char"}, of : Nat]
  BY <1>3
<1>4. CASE x \in [sym : {"list line", "list of"}, number : Nat]
  BY <1>4
<1>5. CASE x \in [sym : {"put", "message"}, length : Nat]
  BY <1>5
<1>6. CASE x \in [sym : {"get"}, index : Nat]
  BY <1>6
<1> QED BY <1>1, <1>2, <1>3, <1>4, <1>5, <1>6

LEMMA BodyBytes ==
  ASSUME NEW k \in Nat, NEW lines \in Nat
  PROVE  /\ Body(k, lines) \in Seq(Symbols) /\ Len(Body(k, lines)) = 2 * lines
         /\ \A i \in 1..(2 * lines) :
              Body(k, lines)[i] = IF i % 2 = 1 THEN Chr(k) ELSE NL
<1>1. 2 * lines \in Nat
  OBVIOUS
<1>2. Chr(k) \in Symbols /\ NL \in Symbols
  BY DEF Symbols, Chr
<1>3. Body(k, lines) \in [1..(2 * lines) -> Symbols]
  BY <1>2 DEF Body
<1>4. Body(k, lines) \in Seq(Symbols) /\ Len(Body(k, lines)) = 2 * lines
  BY <1>1, <1>3, IsASeq, LenProperties
<1> QED BY <1>4 DEF Body

\* What AskPut and AskOther write.
LEMMA PutBytesAre ==
  ASSUME NEW k \in Nat, NEW l \in Nat
  PROVE  LET put == <<PutHeader(2 * l), NL>> \o Body(k, l) IN
         /\ put \in Seq(Symbols) /\ Len(put) = 2 * l + 2
         /\ put[1] = PutHeader(2 * l) /\ put[2] = NL
         /\ \A i \in 1..(2 * l) : put[i + 2] = Body(k, l)[i]
<1> DEFINE h == <<PutHeader(2 * l), NL>>
           b == Body(k, l)
<1>1. h \in Seq(Symbols) /\ Len(h) = 2 /\ h[1] = PutHeader(2 * l) /\ h[2] = NL
  <2>1. PutHeader(2 * l) \in Symbols /\ NL \in Symbols
    BY HeaderSymbols
  <2> QED BY <2>1
<1>2. b \in Seq(Symbols) /\ Len(b) = 2 * l /\ 2 * l \in Nat
  BY BodyBytes
<1> HIDE DEF h, b
<1>3. /\ h \o b \in Seq(Symbols) /\ Len(h \o b) = Len(h) + Len(b)
      /\ \A i \in 1..(Len(h) + Len(b)) :
           (h \o b)[i] = IF i <= Len(h) THEN h[i] ELSE b[i - Len(h)]
  BY <1>1, <1>2, ConcatProperties
<1>4. \A i \in 1..(2 + 2 * l) : (h \o b)[i] = IF i <= 2 THEN h[i] ELSE b[i - 2]
  BY <1>1, <1>2, <1>3
<1>5. 1 \in 1..(2 + 2 * l) /\ 2 \in 1..(2 + 2 * l)
  BY <1>2
<1>6. ASSUME NEW i \in 1..(2 * l)
      PROVE  (h \o b)[i + 2] = b[i]
  <2>1. i + 2 \in 1..(2 + 2 * l) /\ ~(i + 2 <= 2) /\ (i + 2) - 2 = i
    BY <1>2
  <2> QED BY <1>4, <2>1
<1>7. Len(h \o b) = 2 * l + 2
  BY <1>1, <1>2, <1>3
<1>8. (h \o b)[1] = PutHeader(2 * l) /\ (h \o b)[2] = NL
  <2> DEFINE x == h \o b
  <2>1. \A i \in 1..(2 + 2 * l) : i <= 2 => x[i] = h[i]
    BY <1>4
  <2> HIDE DEF x
  <2>2. x[1] = h[1] /\ x[2] = h[2]
    BY <1>5, <2>1
  <2> QED BY <1>1, <2>2 DEF x
<1> QED BY <1>3, <1>6, <1>7, <1>8 DEF h, b

\* The newline of the header and the body.
LEMMA MessageBytes ==
  ASSUME NEW k \in Nat, NEW l \in Nat
  PROVE  LET m == <<NL>> \o Body(k, l) IN
         /\ m \in Seq(Symbols) /\ Len(m) = 2 * l + 1 /\ m[1] = NL
         /\ \A i \in 1..(2 * l) : m[i + 1] = Body(k, l)[i]
<1> DEFINE h == <<NL>>
           b == Body(k, l)
<1>1. h \in Seq(Symbols) /\ Len(h) = 1 /\ h[1] = NL
  <2>1. NL \in Symbols
    BY DEF Symbols
  <2> QED BY <2>1
<1>2. b \in Seq(Symbols) /\ Len(b) = 2 * l /\ 2 * l \in Nat
  BY BodyBytes
<1> HIDE DEF h, b
<1> DEFINE m == h \o b
<1>3. /\ m \in Seq(Symbols) /\ Len(m) = Len(h) + Len(b)
      /\ \A i \in 1..(Len(h) + Len(b)) : m[i] = IF i <= Len(h) THEN h[i] ELSE b[i - Len(h)]
  BY <1>1, <1>2, ConcatProperties
<1> HIDE DEF m
<1>4. \A i \in 1..(1 + 2 * l) : m[i] = IF i <= 1 THEN h[i] ELSE b[i - 1]
  BY <1>1, <1>2, <1>3
<1>5. 1 \in 1..(1 + 2 * l) /\ 1 <= 1
  BY <1>2
<1>6. m[1] = NL
  BY <1>1, <1>4, <1>5
<1>7. ASSUME NEW i \in 1..(2 * l)
      PROVE  m[i + 1] = b[i]
  <2>1. i + 1 \in 1..(1 + 2 * l) /\ ~(i + 1 <= 1) /\ (i + 1) - 1 = i
    BY <1>2
  <2> QED BY <1>4, <2>1
<1>8. Len(m) = 2 * l + 1
  BY <1>1, <1>2, <1>3
<1> QED BY <1>3, <1>6, <1>7, <1>8 DEF m, h, b

\* What may be left of an earlier message: the newline at its end.
Leftovers == {<<>>, <<NL>>}

\* The first line of a header and the newline after it is the header.
LEMMA FirstLine ==
  ASSUME NEW a \in Seq(Symbols), NEW rest \in Seq(Symbols), NEW r \in Seq(Symbols),
         HasNewline(a), Begins(a \o rest, r), Len(r) >= 2, r[1] # NL, r[2] = NL
  PROVE  /\ a[1] = r[1] /\ Len(LineOf(a)) = 1 /\ LineOf(a)[1] = r[1]
         /\ Len(a) >= 2 /\ Len(RestOf(a)) = Len(a) - 1
         /\ \A i \in 1..(Len(a) - 1) : RestOf(a)[i] = a[i + 1]
<1> DEFINE f == FirstNewline(a)
           z == a \o rest
<1>1. /\ f \in 1..Len(a) /\ a[f] = NL /\ \A j \in 1..(f - 1) : a[j] # NL
      /\ LineOf(a) \in Seq(Symbols) /\ Len(LineOf(a)) = f - 1
      /\ \A i \in 1..(f - 1) : LineOf(a)[i] = a[i]
      /\ Len(RestOf(a)) = Len(a) - f + 1
      /\ \A i \in 1..(Len(a) - f + 1) : RestOf(a)[i] = a[f + i - 1]
  BY FirstNewlineIsFirst, LineAndRest
<1> HIDE DEF f
<1>2. Len(a) \in Nat /\ Len(rest) \in Nat /\ Len(r) \in Nat
  BY LenProperties
<1>3. Len(z) = Len(a) + Len(rest) /\ \A i \in 1..Len(a) : z[i] = a[i]
  <2>1. /\ Len(z) = Len(a) + Len(rest)
        /\ \A i \in 1..(Len(a) + Len(rest)) : z[i] = IF i <= Len(a) THEN a[i] ELSE rest[i - Len(a)]
    BY ConcatProperties
  <2> HIDE DEF z
  <2> QED BY <1>2, <2>1
<1>4. Len(z) <= Len(r) /\ \A i \in 1..Len(z) : z[i] = r[i]
  BY DEF Begins
<1> HIDE DEF z
<1>5. \A i \in 1..Len(a) : a[i] = r[i]
  <2> SUFFICES ASSUME NEW i \in 1..Len(a) PROVE a[i] = r[i]
    OBVIOUS
  <2>1. i \in 1..Len(z)
    BY <1>2, <1>3
  <2> QED BY <1>3, <1>4, <2>1
<1>6. f # 1
  <2>1. 1 \in 1..Len(a)
    BY <1>1
  <2>2. a[1] # NL
    BY <1>5, <2>1
  <2> QED BY <1>1, <2>2
<1>7. f >= 2 /\ Len(a) >= 2 /\ 2 \in 1..Len(a) /\ 1 \in 1..Len(a)
  BY <1>1, <1>2, <1>6
<1>8. a[1] = r[1] /\ a[2] = NL
  BY <1>5, <1>7
<1>9. f = 2
  <2> SUFFICES ASSUME f > 2 PROVE FALSE
    BY <1>1, <1>7
  <2>1. 2 \in 1..(f - 1)
    BY <1>1
  <2> QED BY <1>1, <1>8, <2>1
<1>10. 1 \in 1..(f - 1) /\ Len(LineOf(a)) = 1
  BY <1>1, <1>9
<1>11. LineOf(a)[1] = r[1]
  BY <1>1, <1>8, <1>10
<1>12. Len(RestOf(a)) = Len(a) - 1 /\ \A i \in 1..(Len(a) - 1) : RestOf(a)[i] = a[i + 1]
  BY <1>1, <1>2, <1>9
<1> QED BY <1>7, <1>8, <1>10, <1>11, <1>12

\* If the first line read is not empty, nothing is left of an earlier message.
LEMMA NothingLeft ==
  ASSUME NEW a \in Seq(Symbols), NEW rest \in Seq(Symbols), NEW t \in Leftovers,
         NEW r \in Seq(Symbols), HasNewline(a), LineOf(a) # <<>>,
         Begins(a \o rest, t \o r)
  PROVE  t = <<>> /\ r # <<>> /\ t \o r = r
<1> DEFINE f == FirstNewline(a)
           z == a \o rest
           w == t \o r
<1>1. /\ f \in 1..Len(a) /\ \A j \in 1..(f - 1) : a[j] # NL
      /\ LineOf(a) \in Seq(Symbols) /\ Len(LineOf(a)) = f - 1
  BY FirstNewlineIsFirst, LineAndRest
<1> HIDE DEF f
<1>2. Len(a) \in Nat /\ Len(rest) \in Nat /\ Len(r) \in Nat /\ Len(LineOf(a)) > 0
  BY <1>1, LenProperties, EmptySeq
<1>3. 1 \in 1..(f - 1) /\ 1 \in 1..Len(a)
  BY <1>1, <1>2
<1>4. a[1] # NL
  BY <1>1, <1>3
<1>5. Len(z) = Len(a) + Len(rest) /\ z[1] = a[1]
  <2>1. /\ Len(z) = Len(a) + Len(rest)
        /\ \A i \in 1..(Len(a) + Len(rest)) : z[i] = IF i <= Len(a) THEN a[i] ELSE rest[i - Len(a)]
    BY ConcatProperties
  <2>2. 1 \in 1..(Len(a) + Len(rest)) /\ 1 <= Len(a)
    BY <1>2, <1>3
  <2> HIDE DEF z
  <2> QED BY <2>1, <2>2
<1>6. Len(z) <= Len(w) /\ z[1] = w[1]
  <2>1. Len(z) <= Len(w) /\ \A i \in 1..Len(z) : z[i] = w[i]
    BY DEF Begins
  <2> HIDE DEF z, w
  <2>2. 1 \in 1..Len(z)
    BY <1>2, <1>3, <1>5
  <2> QED BY <2>1, <2>2
<1> HIDE DEF z
<1>7. t = <<>>
  <2> SUFFICES ASSUME t = <<NL>> PROVE FALSE
    BY DEF Leftovers
  <2>1. NL \in Symbols
    BY DEF Symbols
  <2>2. t \in Seq(Symbols) /\ Len(t) = 1 /\ t[1] = NL
    BY <2>1
  <2>3. \A i \in 1..(Len(t) + Len(r)) : w[i] = IF i <= Len(t) THEN t[i] ELSE r[i - Len(t)]
    BY <2>2, ConcatProperties
  <2>4. 1 \in 1..(Len(t) + Len(r)) /\ 1 <= Len(t)
    BY <1>2, <2>2
  <2> HIDE DEF w
  <2>5. w[1] = t[1]
    BY <2>3, <2>4
  <2> QED BY <1>4, <1>5, <1>6, <2>2, <2>5
<1>8. w = r
  BY <1>7, ConcatEmptySeq
<1>9. r # <<>>
  <2>1. Len(r) > 0
    BY <1>2, <1>3, <1>5, <1>6, <1>8
  <2> QED BY <2>1, EmptySeq
<1> QED BY <1>7, <1>8, <1>9

\* receive_message() needs length bytes, the newline of the header among them:
\* with the last newline of the message or without it, it returns what was
\* typed, and that newline may be left.
LEMMA MessageRead ==
  ASSUME NEW k \in Nat, NEW l \in Nat \ {0}, NEW at,
         NEW s \in Seq(Symbols), NEW u \in Seq(Symbols), Len(s) >= 2 * l,
         Part(at, s \o u, <<NL>> \o Body(k, l))
  PROVE  /\ StripMessage(s) = WithoutLastNewline(Body(k, l))
         /\ \E t \in Leftovers : Part(at, u, t)
<1> DEFINE b == Body(k, l)
           m == <<NL>> \o b
           z == s \o u
           x == Erase(s, 1)
           y == Erase(b, 2 * l)
<1>1. b \in Seq(Symbols) /\ Len(b) = 2 * l /\ 2 * l \in Nat /\ l >= 1
      /\ \A i \in 1..(2 * l) : b[i] = IF i % 2 = 1 THEN Chr(k) ELSE NL
  <2>1. l \in Nat /\ 2 * l \in Nat /\ l >= 1
    OBVIOUS
  <2> QED BY <2>1, BodyBytes
<1>2. m \in Seq(Symbols) /\ Len(m) = 2 * l + 1 /\ m[1] = NL
      /\ \A i \in 1..(2 * l) : m[i + 1] = b[i]
  BY MessageBytes
<1>3. /\ z \in Seq(Symbols) /\ Len(z) = Len(s) + Len(u)
      /\ \A i \in 1..(Len(s) + Len(u)) : z[i] = IF i <= Len(s) THEN s[i] ELSE u[i - Len(s)]
      /\ Len(s) \in Nat /\ Len(u) \in Nat
  BY ConcatProperties, LenProperties
<1>4. Len(z) <= Len(m) /\ (\A i \in 1..Len(z) : z[i] = m[i]) /\ (at # "left" => z = m)
  BY DEF Part, Begins
<1>5. b[2 * l] = NL /\ b[2 * l - 1] = Chr(k) /\ Chr(k) # NL
  <2>1. (2 * l) \in 1..(2 * l) /\ (2 * l) % 2 # 1
    BY <1>1
  <2>2. (2 * l - 1) \in 1..(2 * l) /\ (2 * l - 1) % 2 = 1
    BY <1>1
  <2>3. b[2 * l] = NL /\ b[2 * l - 1] = Chr(k)
    <3> HIDE DEF b
    <3> QED BY <1>1, <2>1, <2>2
  <2> QED BY <2>3 DEF Chr, NL
<1> HIDE DEF b, m, z
<1>6. Len(s) \in {2 * l, 2 * l + 1} /\ \A i \in 1..Len(s) : s[i] = m[i]
  <2>1. Len(s) + Len(u) <= 2 * l + 1
    BY <1>2, <1>3, <1>4
  <2>2. Len(s) \in {2 * l, 2 * l + 1}
    BY <1>1, <1>3, <2>1
  <2>3. ASSUME NEW i \in 1..Len(s)
        PROVE  s[i] = m[i]
    <3>1. i \in 1..(Len(s) + Len(u)) /\ i <= Len(s)
      BY <1>3
    <3> QED BY <1>3, <1>4, <3>1
  <2> QED BY <2>2, <2>3
<1>7. WithoutFirstNewline(s) = x
  <2>1. 1 \in 1..Len(s)
    BY <1>1, <1>6
  <2>2. s[1] = NL
    BY <1>2, <1>6, <2>1
  <2>3. HasNewline(s)
    BY <2>1, <2>2, LenProperties DEF HasNewline
  <2>4. /\ FirstNewline(s) \in 1..Len(s)
        /\ \A j \in 1..(FirstNewline(s) - 1) : s[j] # NL
    BY <2>3, FirstNewlineIsFirst
  <2>5. ~(FirstNewline(s) > 1)
    <3> SUFFICES ASSUME FirstNewline(s) > 1 PROVE FALSE
      OBVIOUS
    <3>1. 1 \in 1..(FirstNewline(s) - 1)
      BY <2>4
    <3> QED BY <2>2, <2>4, <3>1
  <2>6. FirstNewline(s) = 1
    BY <1>3, <2>4, <2>5
  <2> QED BY <2>3, <2>6 DEF WithoutFirstNewline
<1>8. /\ x \in Seq(Symbols) /\ Len(x) = Len(s) - 1
      /\ \A j \in 1..(Len(s) - 1) : x[j] = b[j]
  <2>1. 1 \in 1..Len(s)
    BY <1>1, <1>6
  <2>2. /\ x \in Seq(Symbols) /\ Len(x) = Len(s) - 1
        /\ \A j \in 1..(Len(s) - 1) : x[j] = IF j < 1 THEN s[j] ELSE s[j + 1]
    BY <2>1, EraseBytes
  <2> HIDE DEF x
  <2>3. ASSUME NEW j \in 1..(Len(s) - 1)
        PROVE  x[j] = b[j]
    <3>1. j + 1 \in 1..Len(s) /\ j \in 1..(2 * l) /\ ~(j < 1)
      BY <1>1, <1>6
    <3> QED BY <1>2, <1>6, <2>2, <3>1
  <2> QED BY <2>2, <2>3
<1>9. /\ y \in Seq(Symbols) /\ Len(y) = 2 * l - 1
      /\ \A j \in 1..(2 * l - 1) : y[j] = b[j]
  <2>1. 2 * l \in 1..Len(b)
    BY <1>1
  <2>2. /\ y \in Seq(Symbols) /\ Len(y) = Len(b) - 1
        /\ \A j \in 1..(Len(b) - 1) : y[j] = IF j < 2 * l THEN b[j] ELSE b[j + 1]
    BY <1>1, <2>1, EraseBytes
  <2> HIDE DEF y
  <2>3. \A j \in 1..(2 * l - 1) : j < 2 * l
    BY <1>1
  <2> QED BY <1>1, <2>2, <2>3
<1>10. WithoutLastNewline(b) = y
  BY <1>1, <1>5, EmptySeq DEF WithoutLastNewline
<1> HIDE DEF x, y
<1>11. CASE Len(s) = 2 * l + 1
  <2>1. x = b
    BY <1>1, <1>8, <1>11, SeqEqual
  <2>2. Len(u) = 0
    BY <1>2, <1>3, <1>4, <1>11
  <2>3. u = <<>>
    BY <2>2, EmptySeq
  <2>4. Part(at, u, <<>>)
    BY <2>3, EmptySeq DEF Part, Begins
  <2> QED BY <1>7, <2>1, <2>4 DEF StripMessage, Leftovers, b, m, z
<1>12. CASE Len(s) = 2 * l
  <2>1. x = y
    BY <1>1, <1>8, <1>9, <1>12, SeqEqual
  <2>2. WithoutLastNewline(x) = x
    <3>1. 2 * l - 1 \in 1..(Len(s) - 1)
      BY <1>1, <1>12
    <3>2. x[2 * l - 1] # NL
      BY <1>5, <1>8, <3>1
    <3>3. Len(x) = 2 * l - 1
      BY <1>8, <1>12
    <3>4. x[Len(x)] # NL
      BY <3>2, <3>3
    <3> QED BY <3>4 DEF WithoutLastNewline
  <2> DEFINE e == <<NL>>
  <2>3. e \in Seq(Symbols) /\ Len(e) = 1 /\ e[1] = NL
    <3>1. NL \in Symbols
      BY DEF Symbols
    <3> QED BY <3>1
  <2> HIDE DEF e
  <2>4. Len(u) <= 1 /\ \A i \in 1..Len(u) : u[i] = e[i]
    <3>1. Len(u) <= 1
      BY <1>1, <1>2, <1>3, <1>4, <1>12
    <3>2. ASSUME NEW i \in 1..Len(u)
          PROVE  u[i] = e[i]
      <4>1. i = 1 /\ 2 * l + 1 \in 1..(Len(s) + Len(u)) /\ ~(2 * l + 1 <= Len(s))
        BY <1>1, <1>3, <1>12, <3>1
      <4>2. z[2 * l + 1] = u[1]
        BY <1>3, <1>12, <4>1
      <4>3. z[2 * l + 1] = m[2 * l + 1]
        BY <1>3, <1>4, <4>1
      <4>4. 2 * l \in 1..(2 * l)
        BY <1>1
      <4>5. m[2 * l + 1] = NL
        BY <1>2, <1>5, <4>4
      <4> QED BY <2>3, <4>1, <4>2, <4>3, <4>5
    <3> QED BY <3>1, <3>2
  <2>5. Begins(u, e)
    BY <2>3, <2>4 DEF Begins
  <2>6. at # "left" => u = e
    <3> SUFFICES ASSUME at # "left" PROVE u = e
      OBVIOUS
    <3>1. Len(u) = Len(e)
      <4>1. Len(z) = 2 * l + 1
        BY <1>2, <1>4
      <4> QED BY <1>1, <1>3, <1>12, <2>3, <4>1
    <3> QED BY <2>3, <2>4, <3>1, SeqEqual
  <2>7. Part(at, u, e)
    BY <2>5, <2>6 DEF Part
  <2> QED BY <1>7, <1>10, <2>1, <2>2, <2>7 DEF StripMessage, Leftovers, b, e
<1> QED BY <1>6, <1>11, <1>12

\* A header, the newline after it and what follows, with and without the header.
LEMMA FramedBytes ==
  ASSUME NEW h \in Symbols, NEW s \in Seq(Symbols)
  PROVE  /\ <<h, NL>> \o s \in Seq(Symbols) /\ Len(<<h, NL>> \o s) = Len(s) + 2
         /\ (<<h, NL>> \o s)[1] = h /\ (<<h, NL>> \o s)[2] = NL
         /\ <<NL>> \o s \in Seq(Symbols) /\ Len(<<NL>> \o s) = Len(s) + 1
         /\ (<<NL>> \o s)[1] = NL
         /\ \A i \in 1..Len(s) : (<<NL>> \o s)[i + 1] = s[i]
         /\ \A i \in 1..(Len(s) + 1) : (<<NL>> \o s)[i] = (<<h, NL>> \o s)[i + 1]
<1> DEFINE p == <<h, NL>>
           e == <<NL>>
           f == p \o s
           m == e \o s
<1>1. Len(s) \in Nat /\ NL \in Symbols
  BY LenProperties, HeaderSymbols
<1>2. p \in Seq(Symbols) /\ Len(p) = 2 /\ p[1] = h /\ p[2] = NL
  BY <1>1
<1>3. e \in Seq(Symbols) /\ Len(e) = 1 /\ e[1] = NL
  BY <1>1
<1> HIDE DEF p, e
<1>4. /\ f \in Seq(Symbols) /\ Len(f) = Len(p) + Len(s)
      /\ \A i \in 1..(Len(p) + Len(s)) : f[i] = IF i <= Len(p) THEN p[i] ELSE s[i - Len(p)]
  BY <1>2, ConcatProperties
<1>5. /\ m \in Seq(Symbols) /\ Len(m) = Len(e) + Len(s)
      /\ \A i \in 1..(Len(e) + Len(s)) : m[i] = IF i <= Len(e) THEN e[i] ELSE s[i - Len(e)]
  BY <1>3, ConcatProperties
<1> HIDE DEF f, m
<1>6. Len(f) = Len(s) + 2 /\ Len(m) = Len(s) + 1
  BY <1>1, <1>2, <1>3, <1>4, <1>5
<1>7. \A i \in 1..(2 + Len(s)) : f[i] = IF i <= 2 THEN p[i] ELSE s[i - 2]
  BY <1>2, <1>4
<1>8. \A i \in 1..(1 + Len(s)) : m[i] = IF i <= 1 THEN e[i] ELSE s[i - 1]
  BY <1>3, <1>5
<1>9. 1 \in 1..(2 + Len(s)) /\ 2 \in 1..(2 + Len(s)) /\ 1 \in 1..(1 + Len(s))
  BY <1>1
<1>10. f[1] = h /\ f[2] = NL /\ m[1] = NL
  BY <1>2, <1>3, <1>7, <1>8, <1>9
<1>11. ASSUME NEW i \in 1..Len(s)
       PROVE  f[i + 2] = s[i] /\ m[i + 1] = s[i]
  <2>1. i + 2 \in 1..(2 + Len(s)) /\ ~(i + 2 <= 2) /\ (i + 2) - 2 = i
        /\ i + 1 \in 1..(1 + Len(s)) /\ ~(i + 1 <= 1) /\ (i + 1) - 1 = i
    BY <1>1
  <2> QED BY <1>7, <1>8, <2>1
<1>12. ASSUME NEW i \in 1..(Len(s) + 1)
       PROVE  m[i] = f[i + 1]
  <2>1. CASE i = 1
    BY <1>10, <2>1
  <2>2. CASE i # 1
    <3>1. i - 1 \in 1..Len(s) /\ (i - 1) + 2 = i + 1 /\ (i - 1) + 1 = i
      BY <1>1, <2>2
    <3> QED BY <1>11, <3>1
  <2> QED BY <2>1, <2>2
<1> QED BY <1>4, <1>5, <1>6, <1>10, <1>11, <1>12 DEF f, m, p, e

\* Once the header has been read, the newline and what follows it are left.
LEMMA HeaderRead ==
  ASSUME NEW a \in Seq(Symbols), NEW rest \in Seq(Symbols), NEW h \in Symbols,
         NEW s \in Seq(Symbols), NEW at, h # NL, HasNewline(a),
         Part(at, a \o rest, <<h, NL>> \o s)
  PROVE  /\ Len(LineOf(a)) = 1 /\ LineOf(a)[1] = h
         /\ RestOf(a) \in Seq(Symbols) /\ RestOf(a) # <<>>
         /\ Part(at, RestOf(a) \o rest, <<NL>> \o s)
<1> DEFINE r == <<h, NL>> \o s
           m == <<NL>> \o s
           z == a \o rest
           b == RestOf(a)
           v == b \o rest
<1>1. /\ r \in Seq(Symbols) /\ Len(r) = Len(s) + 2 /\ r[1] = h /\ r[2] = NL
      /\ m \in Seq(Symbols) /\ Len(m) = Len(s) + 1
      /\ \A i \in 1..(Len(s) + 1) : m[i] = r[i + 1]
  BY FramedBytes
<1>2. Part(at, z, r) /\ z \in Seq(Symbols) /\ b \in Seq(Symbols)
  BY ConcatProperties, LineAndRest
<1>3. Len(s) \in Nat /\ Len(a) \in Nat
  BY LenProperties
<1> HIDE DEF r, m, b
<1>4. Len(m) = Len(r) - 1 /\ Len(r) >= 2 /\ \A i \in 1..(Len(r) - 1) : m[i] = r[i + 1]
  BY <1>1, <1>3
<1>5. /\ Len(LineOf(a)) = 1 /\ LineOf(a)[1] = h /\ Len(a) >= 2
      /\ Len(b) = Len(a) - 1 /\ \A i \in 1..(Len(a) - 1) : b[i] = a[i + 1]
  <2>1. Begins(a \o rest, r)
    BY <1>2 DEF Part
  <2> QED BY <1>1, <1>4, <2>1, FirstLine DEF b
<1>6. /\ v \in Seq(Symbols) /\ Len(v) = Len(z) - 1 /\ Len(z) >= 1
      /\ \A i \in 1..(Len(z) - 1) : v[i] = z[i + 1]
  <2>1. /\ b \in Seq(Symbols) /\ Len(a) >= 1 /\ Len(b) = Len(a) - 1
        /\ \A i \in 1..(Len(a) - 1) : b[i] = a[i + 1]
    BY <1>2, <1>3, <1>5
  <2>2. /\ b \o rest \in Seq(Symbols) /\ Len(b \o rest) = Len(a \o rest) - 1
        /\ Len(a \o rest) >= 1
        /\ \A i \in 1..(Len(a \o rest) - 1) : (b \o rest)[i] = (a \o rest)[i + 1]
    BY <2>1, ShiftConcat
  <2> QED BY <2>2
<1> HIDE DEF z, v
<1>7. Part(at, v, m)
  BY <1>1, <1>2, <1>4, <1>6, ShiftPart
<1>8. b # <<>>
  <2>1. Len(b) # 0
    BY <1>3, <1>5
  <2> QED BY <2>1, EmptySeq
<1> QED BY <1>2, <1>5, <1>7, <1>8 DEF v, m, b

\* A message as it is stored: all but the last newline.
LEMMA WholeBody ==
  ASSUME NEW k \in Nat, NEW l \in Nat \ {0}
  PROVE  /\ WithoutLastNewline(Body(k, l)) \in Seq(Symbols)
         /\ WithoutLastNewline(Body(k, l)) # <<>>
         /\ WithoutLastNewline(Body(k, l))[1] = Chr(k)
         /\ WithoutLastNewline(Body(k, l))[Len(WithoutLastNewline(Body(k, l)))] # NL
<1> DEFINE b == Body(k, l)
           y == Erase(b, 2 * l)
<1>1. l \in Nat /\ 2 * l \in Nat /\ 2 * l - 1 >= 1
  OBVIOUS
<1>2. /\ b \in Seq(Symbols) /\ Len(b) = 2 * l
      /\ \A i \in 1..(2 * l) : b[i] = IF i % 2 = 1 THEN Chr(k) ELSE NL
  BY <1>1, BodyBytes
<1> HIDE DEF b
<1>3. /\ 2 * l \in 1..(2 * l) /\ (2 * l) % 2 # 1 /\ 2 * l \in 1..Len(b)
      /\ 2 * l - 1 \in 1..(2 * l) /\ (2 * l - 1) % 2 = 1
      /\ 1 \in 1..(2 * l) /\ 1 % 2 = 1
  BY <1>1, <1>2
<1>4. b[2 * l] = NL /\ b[2 * l - 1] = Chr(k) /\ b[1] = Chr(k)
  BY <1>2, <1>3
<1>5. WithoutLastNewline(b) = y
  <2>1. b # <<>>
    BY <1>1, <1>2, EmptySeq
  <2> QED BY <1>2, <1>4, <2>1 DEF WithoutLastNewline
<1>6. /\ y \in Seq(Symbols) /\ Len(y) = 2 * l - 1
      /\ \A j \in 1..(2 * l - 1) : y[j] = IF j < 2 * l THEN b[j] ELSE b[j + 1]
  BY <1>2, <1>3, EraseBytes
<1> HIDE DEF y
<1>7. /\ 1 \in 1..(2 * l - 1) /\ 1 < 2 * l
      /\ 2 * l - 1 \in 1..(2 * l - 1) /\ 2 * l - 1 < 2 * l
  BY <1>1
<1>8. y[1] = Chr(k) /\ y[2 * l - 1] = Chr(k)
  BY <1>4, <1>6, <1>7
<1>9. Chr(k) # NL
  BY DEF Chr, NL
<1>10. y # <<>> /\ y[Len(y)] # NL
  BY <1>1, <1>6, <1>8, <1>9, EmptySeq
<1> QED BY <1>5, <1>6, <1>8, <1>10 DEF b
=============================================================================
