---------------------------- MODULE MessageStore ----------------------------
(***************************************************************************)
(* The message map of the messaging servers as data: what one put, list,   *)
(* get or reset does to it and answers (lab2-threaded-ms/                  *)
(* client-handler.cc:67-162), each taken alone.                            *)
(*                                                                         *)
(* The map has an entry for a name or not (NoUser), and an entry is a      *)
(* sequence of messages.  A message is identified with the put that        *)
(* brought it; what may go wrong with it is that its contents did not      *)
(* arrive and were stored as "" (whole = FALSE).                           *)
(***************************************************************************)
EXTENDS Integers, Sequences

CONSTANTS
  Names,       \* user names, the keys of the map
  Messages,    \* the messages that may be put
  Lengths,     \* numbers a client may write as the length of a put
  Indices,     \* numbers a client may write as the index of a get
  NoUser,      \* what the map holds for a name that is not a key
  LongBits,    \* width of long, 64 in the build
  IntBits      \* width of int, 32 in the build

ASSUME NumbersAssumption ==
  /\ Lengths \subseteq Int
  /\ Indices \subseteq Int

Entry == [id : Messages, whole : BOOLEAN]
ASSUME NoUserAssumption == NoUser \notin Seq(Entry)

Stores == [Names -> Seq(Entry) \cup {NoUser}]
EmptyStore == [n \in Names |-> NoUser]

-----------------------------------------------------------------------------
(* Numbers.  strtol saturates at the bounds of long, the assignment to an  *)
(* int keeps the low bits, and the test for a malformed number compares    *)
(* that int with the bounds of long, which it equals only if int is as     *)
(* wide.                                                                   *)

LongMax == 2^(LongBits - 1) - 1
LongMin == -(2^(LongBits - 1))

strtol(n) ==
  IF n > LongMax THEN LongMax ELSE IF n < LongMin THEN LongMin ELSE n

ToInt(n) == ((n + 2^(IntBits - 1)) % 2^IntBits) - 2^(IntBits - 1)

Number(n) == ToInt(strtol(n))
Malformed(n) == Number(n) \in {0, LongMax, LongMin}

-----------------------------------------------------------------------------
(* Requests, as the client sends them, and the server's answers.  A        *)
(* request may name a command and lack arguments, or be no command.        *)

Requests ==
       [op : {"put"}, name : Names, id : Messages, length : Lengths]
  \cup [op : {"list"}, name : Names]
  \cup [op : {"get"}, name : Names, index : Indices]
  \cup [op : {"reset", "short", "unknown"}]

OK == [kind |-> "OK"]
NoSuchUser == [kind |-> "error user not found"]
NoSuchMessage == [kind |-> "error no message at that index"]
MalformedNumber == [kind |-> "error malformed"]
TooFewArguments == [kind |-> "error too few arguments"]
InvalidCommand == [kind |-> "error invalid command"]

\* What handle_request() answers without looking at the map.
Refusal(r) == IF r.op = "short" THEN TooFewArguments ELSE InvalidCommand

-----------------------------------------------------------------------------
(* The operations, on a map that holds still.                              *)

EntryOf(r, whole) == [id |-> r.id, whole |-> whole]

push_back(store, name, e) == [store EXCEPT ![name] = Append(@, e)]

\* map::insert leaves an entry that is already there alone.
insert(store, name, e) ==
  IF store[name] = NoUser THEN [store EXCEPT ![name] = <<e>>] ELSE store

ListReply(store, name) ==
  IF store[name] = NoUser THEN NoSuchUser
  ELSE [kind |-> "list",
        ids |-> [i \in DOMAIN store[name] |-> store[name][i].id]]

\* vector::at(index - 1) throws when index - 1, as a size_t, is too large.
GetReply(store, name, index) ==
  IF store[name] = NoUser THEN NoSuchUser
  ELSE IF Malformed(index) THEN MalformedNumber
  ELSE IF Number(index) \in DOMAIN store[name]
       THEN [kind |-> "message", entry |-> store[name][Number(index)]]
       ELSE NoSuchMessage

\* A variant of a turn of the reset that erases the key.
EraseName(store, n) == [store EXCEPT ![n] = NoUser]

ClearName(store, n) == [store EXCEPT ![n] = <<>>]

-----------------------------------------------------------------------------
(* The same operations in one step each, as the abstract store performs    *)
(* them.                                                                   *)

PutAll(store, name, e) ==
  IF store[name] = NoUser THEN [store EXCEPT ![name] = <<e>>]
  ELSE [store EXCEPT ![name] = Append(@, e)]

\* reset_messages() empties every entry and removes none.
ResetAll(store) ==
  [n \in Names |-> IF store[n] = NoUser THEN NoUser ELSE <<>>]

StoreAfter(store, r, whole) ==
  CASE r.op = "put" /\ ~Malformed(r.length) ->
         PutAll(store, r.name, EntryOf(r, whole))
    [] r.op = "reset" -> ResetAll(store)
    [] OTHER -> store

ReplyTo(store, r) ==
  CASE r.op = "put" -> IF Malformed(r.length) THEN MalformedNumber ELSE OK
    [] r.op = "list" -> ListReply(store, r.name)
    [] r.op = "get" -> GetReply(store, r.name, r.index)
    [] r.op = "reset" -> OK
    [] OTHER -> Refusal(r)
=============================================================================
