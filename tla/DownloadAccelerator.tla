------------------------ MODULE DownloadAccelerator ------------------------
(***************************************************************************)
(* The download accelerator, lab3-download-accelerator/                    *)
(* downloadAccelerator.py: the main thread asks for the size of the file,  *)
(* starts one thread for each section, joins them in order and writes what *)
(* they have read.  A thread that raises an exception dies alone; its      *)
(* section is then missing when the main thread wants it.                  *)
(*                                                                         *)
(* A byte is identified with its position in the file.  The server and the *)
(* requests library are external: they may fail at any time, and when the  *)
(* connection breaks in the middle of a body, requests returns what has    *)
(* arrived without an error.                                               *)
(***************************************************************************)
EXTENDS RangeSplit, Sequences

CONSTANTS
  MaxSize,       \* bytes of the file at most
  MaxThreads,    \* threads the user asks for at most
  Nothing        \* no file has been written

ASSUME BoundsAssumption == MaxSize \in Nat /\ MaxThreads \in Nat
ASSUME NothingAssumption == Nothing \notin Seq(Nat)

VARIABLES
  server,        \* what the server does with HEAD and with ranges
  size,          \* the size of the file
  n_threads,     \* the argument -n
  main_pc,       \* where download() is
  next,          \* the index of its loops
  thread_pc,     \* thread_pc[t]: where run() of thread t is
  content,       \* content[t]: the bytes it has read
  cut,           \* threads whose body broke off
  whole_file,    \* the sections joined so far
  written        \* the file written, or Nothing

arguments == <<server, size, n_threads>>
results == <<content, cut>>
vars == <<arguments, main_pc, next, thread_pc, results, whole_file, written>>

Threads == 0..(MaxThreads - 1)

\* A server that honours ranges; one that answers every GET with the whole
\* file; one that gives no length; and that of lab4, whose answer to HEAD has
\* the length of the empty body it sends (lab4-webserver/server.py:242-248).
Servers == {"ranges", "whole", "no length", "lab4"}
ContentLength == IF server = "lab4" THEN 0 ELSE size

Init ==
  /\ server \in Servers
  /\ size \in 0..MaxSize
  /\ n_threads \in -1..MaxThreads
  /\ main_pc = "head"
  /\ next = 0
  /\ thread_pc = [t \in Threads |-> "new"]
  /\ content = [t \in Threads |-> <<>>]
  /\ cut = {}
  /\ whole_file = <<>>
  /\ written = Nothing

-----------------------------------------------------------------------------
(* The main thread.                                                        *)

MainGoes(from, to) ==
  /\ main_pc = from
  /\ main_pc' = to
  /\ UNCHANGED arguments

\* A variant that takes any number of threads for a positive one.
AnyNumberStarts ==
  /\ MainGoes("head",
              IF server = "no length" \/ n_threads = 0 THEN "failed"
              ELSE IF ContentLength <= 0 THEN "returned" ELSE "start")
  /\ UNCHANGED <<next, thread_pc, results, whole_file, written>>

\* The HEAD request and the division into sections.  A missing length and a
\* division by zero are exceptions; a negative number of threads makes no
\* section at all.
HeadRequest ==
  /\ MainGoes("head",
              IF server = "no length" THEN "failed"
              ELSE IF ContentLength <= 0 THEN "returned"
              ELSE IF n_threads = 0 THEN "failed"
              ELSE IF n_threads < 0 THEN "write" ELSE "start")
  /\ UNCHANGED <<next, thread_pc, results, whole_file, written>>

\* requests.head() or the start of a thread raises an exception.
MainFails ==
  /\ \/ MainGoes("head", "failed")
     \/ MainGoes("start", "failed")
  /\ UNCHANGED <<next, thread_pc, results, whole_file, written>>

\* One turn of a loop over the threads, which ends after the last.
Turn(from, to) ==
  /\ MainGoes(from, IF next + 1 = n_threads THEN to ELSE from)
  /\ next' = IF next + 1 = n_threads THEN 0 ELSE next + 1

StartThread ==
  /\ Turn("start", "join")
  /\ thread_pc' = [thread_pc EXCEPT ![next] = "running"]
  /\ UNCHANGED <<results, whole_file, written>>

\* Variants: one takes what there is of a dead thread, one waits for a result
\* and not for the end of the thread.
JoinTakesAll ==
  /\ Turn("join", "write")
  /\ thread_pc[next] \in {"finished", "dead"}
  /\ whole_file' = whole_file \o content[next]
  /\ UNCHANGED <<thread_pc, results, written>>
JoinAwaitsResult ==
  /\ Turn("join", "write")
  /\ thread_pc[next] = "finished"
  /\ whole_file' = whole_file \o content[next]
  /\ UNCHANGED <<thread_pc, results, written>>

\* A thread that died has no attribute content: an exception.
Join ==
  \/ /\ Turn("join", "write")
     /\ thread_pc[next] = "finished"
     /\ whole_file' = whole_file \o content[next]
     /\ UNCHANGED <<thread_pc, results, written>>
  \/ /\ MainGoes("join", "failed")
     /\ thread_pc[next] = "dead"
     /\ UNCHANGED <<next, thread_pc, results, whole_file, written>>

Write ==
  /\ MainGoes("write", "returned")
  /\ written' = whole_file
  /\ UNCHANGED <<next, thread_pc, results, whole_file>>

-----------------------------------------------------------------------------
(* run() of thread t.                                                      *)

ThreadGoes(t, from, to) ==
  /\ thread_pc[t] = from
  /\ thread_pc' = [thread_pc EXCEPT ![t] = to]
  /\ UNCHANGED <<arguments, main_pc, next, whole_file, written>>

\* An answer with a content-range header comes only to a well-formed range,
\* from a server that honours ranges; without the header run() raises.
Honoured(t) == server = "ranges" /\ ValidRange(size, n_threads, t)

GetSection(t) ==
  /\ ThreadGoes(t, "running", IF Honoured(t) THEN "reading" ELSE "dead")
  /\ UNCHANGED results

\* The server clips the range at the end of the file.
Bytes(a, b) == [k \in 1..(b - a + 1) |-> a + k - 1]
LastByte(t) ==
  IF end_byte(size, n_threads, t) < size
  THEN end_byte(size, n_threads, t) ELSE size - 1
Section(t) == Bytes(start_byte(size, n_threads, t), LastByte(t))

ReadContent(t) ==
  /\ ThreadGoes(t, "reading", "finished")
  /\ \E k \in 0..Len(Section(t)) :
       /\ content' = [content EXCEPT ![t] = SubSeq(Section(t), 1, k)]
       /\ cut' = IF k < Len(Section(t)) THEN cut \cup {t} ELSE cut

\* requests.get() or the reading of the body raises an exception.
ThreadDies(t) ==
  /\ \E from \in {"running", "reading"} : ThreadGoes(t, from, "dead")
  /\ UNCHANGED results

-----------------------------------------------------------------------------
Main == HeadRequest \/ MainFails \/ StartThread \/ Join \/ Write
Run(t) == GetSection(t) \/ ReadContent(t) \/ ThreadDies(t)

Next == Main \/ \E t \in Threads : Run(t)

Spec == Init /\ [][Next]_vars

\* The main thread is run.  There is no timeout: a server need not answer.
FairSpec == Spec /\ WF_vars(Main)

-----------------------------------------------------------------------------
\* The loops of the main thread stay within the threads there are.
TypeOK ==
  /\ server \in Servers
  /\ size \in 0..MaxSize
  /\ n_threads \in -1..MaxThreads
  /\ main_pc \in {"head", "start", "join", "write", "returned", "failed"}
  /\ next \in Nat
  /\ main_pc \in {"start", "join"} => next < n_threads
  /\ thread_pc \in [Threads -> {"new", "running", "reading", "finished", "dead"}]
  /\ content \in [Threads -> Seq(Nat)]
  /\ cut \in SUBSET Threads
  /\ whole_file \in Seq(Nat)
  /\ written \in Seq(Nat) \cup {Nothing}

\* With at most as many threads as bytes, the threads ask for every byte of
\* the file once (downloadAccelerator.py:38-46), though the size need not be a
\* multiple of the number of threads.
SectionsPartition == n_threads \in 1..size => Partition(size, n_threads)

\* However the threads are scheduled, and whichever server answers, what is
\* written is the whole file in its order (56-63), if no body broke off.
WrittenIsFile ==
  written # Nothing /\ n_threads > 0 /\ cut = {} => written = Bytes(0, size - 1)

\* A section that could not be had leaves no file behind, not even one that
\* lacks it or holds another answer in its place (58, 89).
NoFileOnFailure ==
  (\E t \in Threads : thread_pc[t] = "dead") => written = Nothing

\* If the server answers every request or breaks the connection, the program
\* ends; a thread that died does not keep the join waiting (57).
EveryAnswerComes ==
  \A t \in Threads : []<>(thread_pc[t] \notin {"running", "reading"})
ProgramEnds == EveryAnswerComes => <>(main_pc \in {"returned", "failed"})

=============================================================================
