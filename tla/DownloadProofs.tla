--------------------------- MODULE DownloadProofs ---------------------------
(***************************************************************************)
(* Proofs about the download accelerator, for a file of any size and any   *)
(* number of threads: the division into sections is a partition, a failed  *)
(* thread leaves no file, and what is written is the whole file.           *)
(***************************************************************************)
EXTENDS DownloadAccelerator, SequenceTheorems, TLAPS

(* The arithmetic of the division.                                         *)
LEMMA Multiples ==
  ASSUME NEW a \in Int, NEW b \in Int, NEW s \in Nat, a <= b
  PROVE  a * s <= b * s
<1>1. (b - a) \in Nat
  OBVIOUS
<1>2. (b - a) * s \in Nat
  BY <1>1
<1>3. b * s = a * s + (b - a) * s
  OBVIOUS
<1> QED BY <1>2, <1>3

LEMMA SectionSize ==
  ASSUME NEW m \in Nat, NEW n \in Nat \ {0}
  PROVE  /\ section_size(m, n) \in Nat
         /\ n * section_size(m, n) <= m
         /\ n <= m => section_size(m, n) >= 1
<1> DEFINE s == m \div n
<1>1. s \in Int /\ n * s <= m /\ m < n * s + n
  OBVIOUS
<1>2. s >= 0
  <2> SUFFICES ASSUME s <= -1 PROVE FALSE
    BY <1>1
  <2>1. s * n <= (-1) * n
    BY <1>1, Multiples
  <2> QED BY <1>1, <2>1
<1>3. ASSUME n <= m PROVE s >= 1
  <2> SUFFICES ASSUME s = 0 PROVE FALSE
    BY <1>1, <1>2
  <2> QED BY <1>1, <1>3
<1> QED BY <1>1, <1>2, <1>3 DEF section_size

LEMMA SectionBounds ==
  ASSUME NEW m \in Nat, NEW n \in Nat \ {0}, NEW i \in 0..(n - 1)
  PROVE  /\ start_byte(m, n, i) \in Nat
         /\ start_byte(m, n, i) <= m
         /\ end_byte(m, n, i) \in Int
         /\ i + 1 < n => /\ end_byte(m, n, i) < m
                         /\ start_byte(m, n, i) <= end_byte(m, n, i) + 1
                         /\ start_byte(m, n, i + 1) = end_byte(m, n, i) + 1
<1> DEFINE s == section_size(m, n)
<1>1. s \in Nat /\ n * s <= m
  BY SectionSize
<1>2. i * s \in Nat /\ (i + 1) * s \in Nat
  BY <1>1
<1>3. i * s <= n * s /\ (i + 1) * s <= n * s /\ i * s <= (i + 1) * s
  BY <1>1, Multiples
<1> QED BY <1>1, <1>2, <1>3 DEF start_byte, end_byte

\* Lines 38-46: with at most as many threads as bytes, the ranges cover every
\* byte of the file, and none twice.
THEOREM SplitIsPartition ==
  ASSUME NEW m \in Nat, NEW n \in 1..m
  PROVE  Partition(m, n)
<1> DEFINE s == section_size(m, n)
<1>1. s \in Nat \ {0} /\ n * s <= m
  BY SectionSize
<1> SUFFICES ASSUME NEW b \in 0..(m - 1)
             PROVE  \E i \in 0..(n - 1) :
                      /\ Within(m, n, i, b)
                      /\ \A j \in 0..(n - 1) : Within(m, n, j, b) => j = i
  BY DEF Partition
<1>2. \A i \in 0..(n - 1) :
        Within(m, n, i, b) <=>
          i * s <= b /\ b <= (IF i + 1 = n THEN m ELSE (i + 1) * s - 1)
  BY DEF Within, start_byte, end_byte
\* No two sections hold the same byte.
<1>3. ASSUME NEW i \in 0..(n - 1), NEW j \in 0..(n - 1), i < j,
             Within(m, n, i, b), Within(m, n, j, b)
      PROVE  FALSE
  <2> HIDE DEF s
  <2>1. (i + 1) * s <= j * s
    <3>1. i + 1 \in Int /\ j \in Int /\ i + 1 <= j /\ s \in Nat
      BY <1>1, <1>3
    <3> QED BY <3>1, Multiples
  <2>2. b <= (i + 1) * s - 1 /\ j * s <= b
    BY <1>2, <1>3
  <2> QED BY <2>1, <2>2, <1>1
<1>4. ASSUME NEW i \in 0..(n - 1), Within(m, n, i, b)
      PROVE  \E k \in 0..(n - 1) :
               /\ Within(m, n, k, b)
               /\ \A j \in 0..(n - 1) : Within(m, n, j, b) => j = k
  <2>1. \A j \in 0..(n - 1) : Within(m, n, j, b) => j = i
    BY <1>3, <1>4
  <2> QED BY <1>4, <2>1
\* The section of a byte is its quotient, but for the remainder at the end.
<1>5. CASE b >= (n - 1) * s
  <2>1. Within(m, n, n - 1, b)
    BY <1>2, <1>5
  <2> QED BY <2>1, <1>4
<1>6. CASE b < (n - 1) * s
  <2> DEFINE q == b \div s
  <2>1. q \in Int /\ q * s <= b /\ b < q * s + s
    BY <1>1
  <2>2. q < n - 1
    <3> SUFFICES ASSUME n - 1 <= q PROVE FALSE
      BY <2>1
    <3>1. (n - 1) * s <= q * s
      BY <1>1, <2>1, Multiples
    <3> QED BY <3>1, <2>1, <1>6, <1>1
  <2>3. q >= 0
    <3> SUFFICES ASSUME q + 1 <= 0 PROVE FALSE
      BY <2>1
    <3>1. (q + 1) * s <= 0 * s
      BY <1>1, <2>1, Multiples
    <3> QED BY <3>1, <2>1, <1>1
  <2>4. (q + 1) * s = q * s + s
    BY <2>1, <1>1
  <2>5. Within(m, n, q, b)
    BY <1>1, <1>2, <2>1, <2>2, <2>3, <2>4
  <2>6. q \in 0..(n - 1)
    BY <2>1, <2>2, <2>3
  <2> HIDE DEF q
  <2> QED BY <2>5, <2>6, <1>4
<1> QED BY <1>1, <1>5, <1>6

-----------------------------------------------------------------------------
(* Runs of bytes.                                                          *)
LEMMA BytesType ==
  ASSUME NEW a \in Nat, NEW b \in Int, a <= b + 1
  PROVE  /\ Bytes(a, b) \in Seq(Nat)
         /\ Len(Bytes(a, b)) = b - a + 1
         /\ \A k \in 1..(b - a + 1) : Bytes(a, b)[k] = a + k - 1
<1>1. b - a + 1 \in Nat /\ \A k \in 1..(b - a + 1) : a + k - 1 \in Nat
  OBVIOUS
<1>2. Bytes(a, b) \in [1..(b - a + 1) -> Nat]
  BY <1>1 DEF Bytes
<1>3. Bytes(a, b) \in Seq(Nat)
  BY <1>1, <1>2, SeqDef
<1>4. Len(Bytes(a, b)) = b - a + 1
  BY <1>1, <1>2, <1>3, LenProperties
<1> QED BY <1>3, <1>4 DEF Bytes

LEMMA BytesJoin ==
  ASSUME NEW a \in Nat, NEW b \in Int, a <= b + 1
  PROVE  Bytes(0, a - 1) \o Bytes(a, b) = Bytes(0, b)
<1> DEFINE s == Bytes(0, a - 1)  t == Bytes(a, b)  u == Bytes(0, b)
<1>1. s \in Seq(Nat) /\ Len(s) = a /\ \A k \in 1..a : s[k] = k - 1
  BY BytesType
<1>2. t \in Seq(Nat) /\ Len(t) = b - a + 1
      /\ \A k \in 1..(b - a + 1) : t[k] = a + k - 1
  BY BytesType
<1>3. u \in Seq(Nat) /\ Len(u) = b + 1 /\ \A k \in 1..(b + 1) : u[k] = k - 1
  BY BytesType
<1> HIDE DEF s, t, u
<1>4. /\ s \o t \in Seq(Nat)
      /\ Len(s \o t) = b + 1
      /\ \A k \in 1..(b + 1) : (s \o t)[k] = IF k <= a THEN s[k] ELSE t[k - a]
  BY <1>1, <1>2, ConcatProperties
<1>5. \A k \in 1..(b + 1) : (s \o t)[k] = u[k]
  <2> SUFFICES ASSUME NEW k \in 1..(b + 1) PROVE (s \o t)[k] = u[k]
    OBVIOUS
  <2>1. u[k] = k - 1
    BY <1>3
  <2>2. (s \o t)[k] = IF k <= a THEN s[k] ELSE t[k - a]
    BY <1>4
  <2>3. CASE k <= a
    <3>1. s[k] = k - 1
      BY <2>3, <1>1
    <3> QED BY <3>1, <2>1, <2>2, <2>3
  <2>4. CASE ~(k <= a)
    <3>1. k - a \in 1..(b - a + 1)
      BY <2>4
    <3>2. t[k - a] = a + (k - a) - 1
      BY <3>1, <1>2
    <3>3. a + (k - a) - 1 = k - 1
      OBVIOUS
    <3> QED BY <3>2, <3>3, <2>1, <2>2, <2>4
  <2> QED BY <2>3, <2>4
<1>6. s \o t = u
  BY <1>3, <1>4, <1>5, SeqEqual
<1> QED BY <1>6 DEF s, t, u

LEMMA SectionType ==
  ASSUME NEW t \in Nat, TypeOK, t < n_threads
  PROVE  /\ start_byte(size, n_threads, t) \in Nat
         /\ LastByte(t) \in Int
         /\ start_byte(size, n_threads, t) <= LastByte(t) + 1
         /\ t + 1 < n_threads =>
              start_byte(size, n_threads, t + 1) = LastByte(t) + 1
         /\ t + 1 = n_threads => LastByte(t) = size - 1
<1>1. size \in Nat /\ n_threads \in Nat \ {0} /\ t \in 0..(n_threads - 1)
  BY BoundsAssumption DEF TypeOK
<1>2. /\ start_byte(size, n_threads, t) \in Nat
      /\ start_byte(size, n_threads, t) <= size
      /\ end_byte(size, n_threads, t) \in Int
      /\ t + 1 < n_threads =>
           /\ end_byte(size, n_threads, t) < size
           /\ start_byte(size, n_threads, t) <= end_byte(size, n_threads, t) + 1
           /\ start_byte(size, n_threads, t + 1) = end_byte(size, n_threads, t) + 1
  BY <1>1, SectionBounds
<1>3. t + 1 = n_threads => end_byte(size, n_threads, t) = size
  BY DEF end_byte
<1> QED BY <1>1, <1>2, <1>3 DEF LastByte

LEMMA SectionContent ==
  ASSUME NEW t \in Nat, TypeOK, t < n_threads
  PROVE  /\ Section(t) \in Seq(Nat)
         /\ SubSeq(Section(t), 1, Len(Section(t))) = Section(t)
         /\ \A k \in 0..Len(Section(t)) : SubSeq(Section(t), 1, k) \in Seq(Nat)
<1>1. Section(t) \in Seq(Nat)
  BY SectionType, BytesType DEF Section
<1> HIDE DEF Section
<1>2. \A k \in 0..Len(Section(t)) : SubSeq(Section(t), 1, k) \in Seq(Nat)
  BY <1>1, SubSeqProperties
<1>3. SubSeq(Section(t), 1, Len(Section(t))) = Section(t)
  BY <1>1, SubSeqFull
<1> QED BY <1>1, <1>2, <1>3

-----------------------------------------------------------------------------
(* The invariant.  A thread that was started has a section; what has been  *)
(* joined, or written, are sections of threads that finished; and the      *)
(* sections joined so far are the beginning of the file.                   *)
LoopsFromZero == main_pc = "head" => next = 0

OnlySectionsStarted ==
  \A t \in Threads : thread_pc[t] # "new" => t < n_threads

JoinedHaveFinished ==
  /\ main_pc = "join" => \A t \in 0..(next - 1) : thread_pc[t] = "finished"
  /\ (main_pc = "write" \/ written # Nothing) =>
       \A t \in Threads : t < n_threads => thread_pc[t] = "finished"

WrittenLast == written # Nothing => main_pc = "returned"

ReadIsSection ==
  \A t \in Threads : thread_pc[t] = "finished" /\ t \notin cut => content[t] = Section(t)

JoinedIsPrefix ==
  cut = {} =>
    /\ main_pc \in {"head", "start"} => whole_file = <<>>
    /\ main_pc = "join" =>
         whole_file = Bytes(0, start_byte(size, n_threads, next) - 1)
    /\ main_pc = "write" /\ n_threads > 0 => whole_file = Bytes(0, size - 1)

Inv ==
  /\ TypeOK
  /\ LoopsFromZero
  /\ OnlySectionsStarted
  /\ JoinedHaveFinished
  /\ WrittenLast
  /\ ReadIsSection
  /\ JoinedIsPrefix
  /\ WrittenIsFile

-----------------------------------------------------------------------------
USE BoundsAssumption

LEMMA NextThread ==
  ASSUME TypeOK, main_pc \in {"start", "join"}
  PROVE  next \in Threads /\ next \in Nat /\ next < n_threads /\ n_threads \in Nat
BY DEF TypeOK, Threads

LEMMA InitType == Init => TypeOK
BY DEF Init, TypeOK, Threads

LEMMA NextType ==
  ASSUME TypeOK, LoopsFromZero, OnlySectionsStarted, [Next]_vars
  PROVE  TypeOK'
<1>1. CASE HeadRequest
  <2>1. /\ main_pc' \in {"failed", "returned", "write", "start"}
        /\ main_pc' = "start" => n_threads # 0 /\ ~(n_threads < 0)
    BY <1>1 DEF HeadRequest, MainGoes
  <2>2. UNCHANGED <<arguments, next, thread_pc, results, whole_file, written>>
    BY <1>1 DEF HeadRequest, MainGoes
  <2>3. next = 0
    BY <1>1 DEF LoopsFromZero, HeadRequest, MainGoes
  <2> QED BY <2>1, <2>2, <2>3 DEF TypeOK, results, arguments
<1>2. CASE MainFails
  BY <1>2 DEF TypeOK, MainFails, MainGoes, results, arguments
<1>3. CASE StartThread
  BY <1>3, NextThread DEF TypeOK, StartThread, Turn, MainGoes, results, arguments
<1>4. CASE Join
  <2>1. CASE Turn("join", "write") /\ whole_file' = whole_file \o content[next]
             /\ UNCHANGED <<thread_pc, results, written>>
    <3>1. next \in Threads
      BY <2>1, NextThread DEF Turn, MainGoes
    <3>2. whole_file \in Seq(Nat) /\ content[next] \in Seq(Nat)
      BY <3>1 DEF TypeOK
    <3>3. whole_file' \in Seq(Nat)
      BY <2>1, <3>2, ConcatProperties
    <3> QED BY <2>1, <3>3, NextThread DEF TypeOK, Turn, MainGoes, results, arguments
  <2>2. CASE MainGoes("join", "failed")
             /\ UNCHANGED <<next, thread_pc, results, whole_file, written>>
    BY <2>2 DEF TypeOK, MainGoes, results, arguments
  <2> QED BY <1>4, <2>1, <2>2 DEF Join
<1>5. CASE Write
  BY <1>5 DEF TypeOK, Write, MainGoes, results, arguments
<1>6. ASSUME NEW t \in Threads, GetSection(t) PROVE TypeOK'
  BY <1>6 DEF TypeOK, GetSection, ThreadGoes, results, arguments
<1>7. ASSUME NEW t \in Threads, ReadContent(t) PROVE TypeOK'
  <2>1. t \in Nat /\ t < n_threads
    BY <1>7 DEF OnlySectionsStarted, ReadContent, ThreadGoes, Threads
  <2>2. content' \in [Threads -> Seq(Nat)] /\ cut' \in SUBSET Threads
    BY <1>7, <2>1, SectionContent DEF TypeOK, ReadContent
  <2> QED BY <1>7, <2>2 DEF TypeOK, ReadContent, ThreadGoes, arguments
<1>8. ASSUME NEW t \in Threads, ThreadDies(t) PROVE TypeOK'
  BY <1>8 DEF TypeOK, ThreadDies, ThreadGoes, results, arguments
<1>9. CASE UNCHANGED vars
  BY <1>9 DEF TypeOK, vars, results, arguments
<1> QED BY <1>1, <1>2, <1>3, <1>4, <1>5, <1>6, <1>7, <1>8, <1>9 DEF Next, Main, Run

LEMMA InitInv == Init => Inv
<1> SUFFICES ASSUME Init PROVE Inv
  OBVIOUS
<1>1. TypeOK
  BY InitType
<1> QED
  BY <1>1 DEF Inv, Init, Threads, LoopsFromZero, OnlySectionsStarted,
              JoinedHaveFinished, WrittenLast, ReadIsSection, JoinedIsPrefix,
              WrittenIsFile

\* The steps of the threads: the main thread, and what it has joined, stay.
LEMMA ThreadInv ==
  ASSUME Inv, NEW t \in Threads, Run(t)
  PROVE  Inv'
<1>1. TypeOK'
  BY NextType DEF Inv, Next
<1>2. /\ thread_pc[t] \in {"running", "reading"}
      /\ thread_pc'[t] \in {"reading", "finished", "dead"}
      /\ \A u \in Threads \ {t} : thread_pc'[u] = thread_pc[u]
      /\ UNCHANGED <<size, n_threads, main_pc, next, whole_file, written>>
  BY DEF Inv, TypeOK, Run, GetSection, ReadContent, ThreadDies, ThreadGoes, arguments
<1>3. cut' = {} => cut = {}
  BY DEF Run, GetSection, ReadContent, ThreadDies, results
<1>4. LoopsFromZero' /\ OnlySectionsStarted' /\ WrittenLast' /\ WrittenIsFile'
  BY <1>2, <1>3 DEF Inv, LoopsFromZero, OnlySectionsStarted, WrittenLast,
                    WrittenIsFile, Bytes
<1>5. JoinedHaveFinished'
  <2>1. ASSUME NEW u \in Threads, thread_pc[u] = "finished"
        PROVE  thread_pc'[u] = "finished"
    BY <1>2, <2>1
  <2>2. UNCHANGED <<n_threads, main_pc, next, written>>
    BY <1>2
  <2>3. main_pc = "join" => 0..(next - 1) \subseteq Threads
    BY BoundsAssumption DEF Inv, TypeOK, Threads
  <2> QED BY <2>1, <2>2, <2>3 DEF Inv, JoinedHaveFinished
<1>6. JoinedIsPrefix'
  BY <1>2, <1>3 DEF Inv, JoinedIsPrefix, Bytes, start_byte, section_size
<1>7. ReadIsSection'
  <2>1. \A u \in Threads : Section(u)' = Section(u)
    BY <1>2 DEF Section, LastByte
  <2>2. CASE GetSection(t) \/ ThreadDies(t)
    BY <2>2, <2>1, <1>2 DEF Inv, TypeOK, ReadIsSection, GetSection, ThreadDies,
                            ThreadGoes, results
  <2>3. CASE ReadContent(t)
    <3>1. Section(t) \in Seq(Nat)
          /\ SubSeq(Section(t), 1, Len(Section(t))) = Section(t)
      BY <1>2, SectionContent DEF Inv, OnlySectionsStarted, Threads
    <3> HIDE DEF Section
    <3>2. PICK k \in 0..Len(Section(t)) :
            /\ content' = [content EXCEPT ![t] = SubSeq(Section(t), 1, k)]
            /\ cut' = IF k < Len(Section(t)) THEN cut \cup {t} ELSE cut
      BY <2>3 DEF ReadContent
    <3>3. t \notin cut' => content'[t] = Section(t)
      <4>1. Len(Section(t)) \in Nat
        BY <3>1, LenProperties
      <4> SUFFICES ASSUME t \notin cut' PROVE k = Len(Section(t))
        BY <3>1, <3>2 DEF Inv, TypeOK
      <4> QED BY <3>2, <4>1
    <3>4. \A u \in Threads \ {t} :
            content'[u] = content[u] /\ (u \notin cut' => u \notin cut)
      BY <3>2 DEF Inv, TypeOK
    <3> QED BY <2>1, <3>3, <3>4, <1>2 DEF Inv, ReadIsSection
  <2> QED BY <2>2, <2>3 DEF Run
<1> QED BY <1>1, <1>4, <1>5, <1>6, <1>7 DEF Inv

\* One more section joined is one more part of the file.
LEMMA JoinInv ==
  ASSUME Inv, Join
  PROVE  Inv'
<1>1. TypeOK'
  BY NextType DEF Inv, Next, Main
<1>2. CASE Turn("join", "write") /\ thread_pc[next] = "finished"
           /\ whole_file' = whole_file \o content[next]
           /\ UNCHANGED <<thread_pc, results, written>>
  <2>1. next \in Threads /\ next \in Nat /\ next < n_threads /\ n_threads \in Nat
    BY <1>2, NextThread DEF Inv, Turn, MainGoes
  <2>2. /\ main_pc = "join"
        /\ main_pc' = IF next + 1 = n_threads THEN "write" ELSE "join"
        /\ next' = IF next + 1 = n_threads THEN 0 ELSE next + 1
        /\ UNCHANGED <<size, n_threads, thread_pc, content, cut, written>>
    BY <1>2 DEF Turn, MainGoes, arguments, results
  <2>3. LoopsFromZero' /\ OnlySectionsStarted' /\ WrittenLast' /\ WrittenIsFile'
    BY <2>2 DEF Inv, LoopsFromZero, OnlySectionsStarted, WrittenLast,
                WrittenIsFile, Bytes
  <2>4. \A t \in 0..next : thread_pc[t] = "finished"
    BY <1>2, <2>1, <2>2 DEF Inv, JoinedHaveFinished
  <2>5. JoinedHaveFinished'
    BY <2>1, <2>2, <2>4 DEF Inv, JoinedHaveFinished, WrittenLast, Threads
  <2>6. ReadIsSection'
    BY <2>2 DEF Inv, ReadIsSection, Section, LastByte
  <2>7. JoinedIsPrefix'
    <3> SUFFICES ASSUME cut = {}
                 PROVE  /\ main_pc' = "join" =>
                             whole_file' = Bytes(0, start_byte(size, n_threads, next') - 1)
                        /\ main_pc' = "write" => whole_file' = Bytes(0, size - 1)
      BY <2>2 DEF JoinedIsPrefix, Bytes, start_byte, section_size
    <3> DEFINE a == start_byte(size, n_threads, next)
               b == LastByte(next)
    <3>1. /\ a \in Nat /\ b \in Int /\ a <= b + 1
          /\ next + 1 < n_threads => start_byte(size, n_threads, next + 1) = b + 1
          /\ next + 1 = n_threads => b = size - 1
      BY <2>1, SectionType DEF Inv
    <3>2. whole_file = Bytes(0, a - 1)
      BY <2>2 DEF Inv, JoinedIsPrefix
    <3>3. content[next] = Bytes(a, b)
      BY <1>2, <2>1 DEF Inv, ReadIsSection, Section
    <3> HIDE DEF a, b
    <3>4. whole_file' = Bytes(0, b)
      BY <1>2, <3>1, <3>2, <3>3, BytesJoin
    <3>5. CASE next + 1 = n_threads
      BY <2>2, <3>1, <3>4, <3>5
    <3>6. CASE next + 1 # n_threads
      <4>1. start_byte(size, n_threads, next') - 1 = b
        BY <2>1, <2>2, <3>1, <3>6
      <4> QED BY <2>2, <3>4, <3>6, <4>1
    <3> QED BY <3>5, <3>6
  <2> QED BY <1>1, <2>3, <2>5, <2>6, <2>7 DEF Inv
<1>3. CASE MainGoes("join", "failed")
           /\ UNCHANGED <<next, thread_pc, results, whole_file, written>>
  BY <1>1, <1>3 DEF Inv, MainGoes, arguments, results, LoopsFromZero,
    OnlySectionsStarted, JoinedHaveFinished, WrittenLast, ReadIsSection,
    JoinedIsPrefix, WrittenIsFile, Section, LastByte, Bytes
<1> QED BY <1>2, <1>3 DEF Join

LEMMA MainInv ==
  ASSUME Inv, HeadRequest \/ MainFails \/ StartThread \/ Write
  PROVE  Inv'
<1>1. TypeOK'
  BY NextType DEF Inv, Next, Main
<1>2. UNCHANGED <<size, n_threads, content, cut>>
  BY DEF HeadRequest, MainFails, StartThread, Write, Turn, MainGoes, results, arguments
<1>3. CASE HeadRequest
  <2>1. /\ main_pc = "head"
        /\ main_pc' \in {"failed", "returned", "write", "start"}
        /\ main_pc' = "write" => n_threads < 0
        /\ UNCHANGED <<next, thread_pc, whole_file, written>>
    BY <1>3 DEF HeadRequest, MainGoes
  <2>2. written = Nothing
    BY <2>1 DEF Inv, WrittenLast
  <2>3. main_pc' = "write" => \A t \in Threads : ~(t < n_threads)
    BY <2>1 DEF Threads, Inv, TypeOK
  <2>4. main_pc' = "write" => ~(n_threads > 0)
    BY <2>1 DEF Inv, TypeOK
  <2>5. LoopsFromZero' /\ OnlySectionsStarted' /\ WrittenLast' /\ WrittenIsFile'
        /\ JoinedHaveFinished'
    BY <1>2, <2>1, <2>2, <2>3 DEF Inv, LoopsFromZero, OnlySectionsStarted,
      WrittenLast, WrittenIsFile, JoinedHaveFinished
  <2>6. ReadIsSection'
    BY <1>2, <2>1 DEF Inv, ReadIsSection, Section, LastByte
  <2>7. JoinedIsPrefix'
    BY <1>2, <2>1, <2>4 DEF Inv, JoinedIsPrefix
  <2> QED BY <1>1, <2>5, <2>6, <2>7 DEF Inv
<1>4. CASE MainFails
  BY <1>1, <1>2, <1>4 DEF Inv, MainFails, MainGoes, LoopsFromZero,
    OnlySectionsStarted, JoinedHaveFinished, WrittenLast, ReadIsSection,
    JoinedIsPrefix, WrittenIsFile, Section, LastByte, Bytes
<1>5. CASE StartThread
  <2>1. next \in Threads /\ next \in Nat /\ next < n_threads /\ n_threads \in Nat
    BY <1>5, NextThread DEF Inv, StartThread, Turn, MainGoes
  <2>2. /\ main_pc = "start"
        /\ main_pc' \in {"start", "join"}
        /\ main_pc' = "join" => next' = 0
        /\ thread_pc' = [thread_pc EXCEPT ![next] = "running"]
        /\ UNCHANGED <<whole_file, written>>
    BY <1>5 DEF StartThread, Turn, MainGoes
  <2>3. written = Nothing
    BY <2>2 DEF Inv, WrittenLast
  <2>4. LoopsFromZero' /\ OnlySectionsStarted' /\ WrittenLast' /\ WrittenIsFile'
        /\ JoinedHaveFinished'
    BY <1>2, <2>1, <2>2, <2>3 DEF Inv, TypeOK, LoopsFromZero,
      OnlySectionsStarted, WrittenLast, WrittenIsFile, JoinedHaveFinished
  <2>5. ReadIsSection'
    BY <1>2, <2>1, <2>2 DEF Inv, TypeOK, ReadIsSection, Section, LastByte
  <2>6. JoinedIsPrefix'
    <3>1. start_byte(size, n_threads, 0) = 0
      BY <2>1, SectionSize DEF Inv, TypeOK, start_byte
    <3>2. Bytes(0, -1) = <<>>
      BY DEF Bytes
    <3> QED BY <1>2, <2>2, <3>1, <3>2 DEF Inv, JoinedIsPrefix
  <2> QED BY <1>1, <2>4, <2>5, <2>6 DEF Inv
<1>6. CASE Write
  <2>1. /\ main_pc = "write" /\ main_pc' = "returned"
        /\ written' = whole_file
        /\ UNCHANGED <<next, thread_pc, whole_file>>
    BY <1>6 DEF Write, MainGoes
  <2>2. LoopsFromZero' /\ OnlySectionsStarted' /\ WrittenLast'
        /\ JoinedHaveFinished' /\ JoinedIsPrefix'
    BY <1>2, <2>1 DEF Inv, LoopsFromZero, OnlySectionsStarted, WrittenLast,
      JoinedHaveFinished, JoinedIsPrefix
  <2>3. ReadIsSection'
    BY <1>2, <2>1 DEF Inv, ReadIsSection, Section, LastByte
  <2>4. WrittenIsFile'
    BY <1>2, <2>1 DEF Inv, JoinedIsPrefix, WrittenIsFile, Bytes
  <2> QED BY <1>1, <2>2, <2>3, <2>4 DEF Inv
<1> QED BY <1>3, <1>4, <1>5, <1>6

LEMMA NextInv == Inv /\ [Next]_vars => Inv'
<1> SUFFICES ASSUME Inv, [Next]_vars PROVE Inv'
  OBVIOUS
<1>1. CASE UNCHANGED vars
  BY <1>1 DEF vars, arguments, results, Inv, TypeOK, LoopsFromZero,
    OnlySectionsStarted, JoinedHaveFinished, WrittenLast, ReadIsSection,
    JoinedIsPrefix, WrittenIsFile, Section, LastByte, Bytes
<1> QED BY <1>1, ThreadInv, JoinInv, MainInv DEF Next, Main

LEMMA InvAlways == Spec => []Inv
BY InitInv, NextInv, PTL DEF Spec

-----------------------------------------------------------------------------
\* download() and the threads are well typed; its loops stay within the
\* threads there are (43-58).
THEOREM TypeCorrect == Spec => []TypeOK
BY InvAlways, PTL DEF Inv

\* Lines 38-46: the threads of a run ask for every byte of the file once.
THEOREM SectionsArePartition == Spec => []SectionsPartition
<1>1. TypeOK => SectionsPartition
  BY SplitIsPartition DEF TypeOK, SectionsPartition
<1> QED BY <1>1, TypeCorrect, PTL

\* Lines 58 and 89: when a section could not be had, no file is written.
THEOREM FailureLeavesNoFile == Spec => []NoFileOnFailure
<1>1. Inv => NoFileOnFailure
  BY DEF Inv, JoinedHaveFinished, OnlySectionsStarted, NoFileOnFailure
<1> QED BY <1>1, InvAlways, PTL

\* Lines 56-63: what is written is the whole file, however the threads ran.
THEOREM FileIsWhole == Spec => []WrittenIsFile
<1>1. Inv => WrittenIsFile
  BY DEF Inv
<1> QED BY <1>1, InvAlways, PTL
=============================================================================
