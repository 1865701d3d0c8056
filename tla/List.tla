-------------------------------- MODULE List --------------------------------
(***************************************************************************)
(* What a user of include/arraylist.h can rely on: a bounded list, whose   *)
(* calls take effect one at a time, between the call and its return.  What *)
(* a call puts in is one element of its source, as often as asked, the one *)
(* that has in the source the index it gets in the list; from no source,   *)
(* anything.                                                               *)
(***************************************************************************)
EXTENDS Naturals, Sequences

CONSTANTS
  Threads,
  Data,      \* what an item can be
  MaxCount,  \* how many items the list holds
  Calls,     \* the calls: [op, index, count, mem]
  Junk,      \* what is behind the end of a source
  NULL       \* no call, no answer, or no memory to copy from or to

VARIABLES
  list,    \* the items
  call,    \* thread |-> its call, NULL between two
  answer   \* thread |-> what its last call returned, NULL during one

vars == <<list, call, answer>>

Init ==
  /\ list = <<>>
  /\ call = [t \in Threads |-> NULL]
  /\ answer = [t \in Threads |-> [ret |-> "success", items |-> <<>>]]

Invoke(t) ==
  /\ call[t] = NULL
  /\ \E c \in Calls : call' = [call EXCEPT ![t] = c]
  /\ answer' = [answer EXCEPT ![t] = NULL]
  /\ UNCHANGED list

Return(t, ret, items) ==
  /\ answer' = [answer EXCEPT ![t] = [ret |-> ret, items |-> items]]
  /\ call' = [call EXCEPT ![t] = NULL]

(* The list up to its i-th item, and behind it. *)
Upto(i) == SubSeq(list, 1, i)
Behind(i) == SubSeq(list, i + 1, Len(list))

(* push_back puts its items at the end, insert behind the first index ones. *)
Where(c) == IF c.op = "push_back" THEN Len(list) ELSE c.index

Element(c) ==
  IF c.mem = NULL THEN Data
  ELSE {IF Where(c) < Len(c.mem) THEN c.mem[Where(c) + 1] ELSE Junk}

Put(t) ==
  LET c == call[t] IN
  /\ c.op \in {"push_back", "insert"}
  /\ Where(c) <= Len(list) /\ Len(list) + c.count <= MaxCount
  /\ \E s \in [1 .. c.count -> Element(c)] : list' = Upto(Where(c)) \o s \o Behind(Where(c))
  /\ Return(t, "success", <<>>)

(* Its caller's memory after a call that takes out some items. *)
Out(c, items) == IF c.mem = NULL THEN <<>> ELSE items

Remove(t) ==
  LET c == call[t] IN
  /\ c.op = "remove"
  /\ c.index + c.count <= Len(list)
  /\ list' = Upto(c.index) \o Behind(c.index + c.count)
  /\ Return(t, "success", Out(c, SubSeq(list, c.index + 1, c.index + c.count)))

(* pop_back hands out the whole list, when asked for as many items as it   *)
(* has, or for more and without a destination; and it leaves them where    *)
(* they are, with as many unspecified ones behind them.                    *)
PopBack(t) ==
  LET c == call[t] IN
  /\ c.op = "pop_back"
  /\ c.count = Len(list) \/ (c.count > Len(list) /\ c.mem = NULL)
  /\ \E s \in [1 .. c.count -> Data] : list' = list \o s
  /\ Return(t, "success", Out(c, list))

(* The calls that are refused: those that would overfill or overdraw the   *)
(* list, and any pop_back of less than the whole of it.                    *)
Refused(c) ==
  \/ c.op \in {"push_back", "insert"} /\ Len(list) + c.count > MaxCount
  \/ c.op = "remove" /\ c.index + c.count > Len(list)
  \/ c.op = "pop_back" /\ c.count < Len(list)

Refuse(t) ==
  /\ Refused(call[t])
  /\ Return(t, "EINVAL", <<>>)
  /\ UNCHANGED list

(* A call about no items does nothing, whatever else it asks for. *)
Skip(t) ==
  /\ call[t].count = 0
  /\ Return(t, "success", <<>>)
  /\ UNCHANGED list

Finish(t) == Put(t) \/ Remove(t) \/ PopBack(t) \/ Refuse(t) \/ Skip(t)

Next == \E t \in Threads : Invoke(t) \/ (call[t] # NULL /\ Finish(t))

Spec == Init /\ [][Next]_vars
=============================================================================
