------------------------------ MODULE Arraylist -----------------------------
(***************************************************************************)
(* src/arraylist.c: a pool (module Pool) and the number of its items that  *)
(* are in use.  Each call holds the list's own rwlock for writing around   *)
(* its calls of the pool.  An item that is copied is a step, so that two   *)
(* calls would run into each other if that lock did not keep them apart.   *)
(*                                                                         *)
(* The callers may ask for any index and any count.  They always have room *)
(* for what they are given, and a source, of whatever length.              *)
(***************************************************************************)
EXTENDS Pool

CONSTANTS
  Threads,
  Values,    \* what is stored
  Calls,     \* the calls the threads make
  NULL

(* mem is the caller's array: the source, or, empty, the destination.      *)
ASSUME CallsAssumption ==
  Calls \subseteq [op : {"push_back", "pop_back", "insert", "remove"},
                  index : Nat, count : Nat, mem : Seq(Values) \cup {NULL}]
ASSUME NullAssumption == NULL \notin Threads \cup Calls \cup Seq(Values) /\ Junk \notin Values

VARIABLES
  item_count,
  rwlock,   \* the thread that holds arraylist->rwlock, or NULL
  pc,       \* thread |-> where it is
  call,     \* thread |-> its call, NULL between two
  at,       \* thread |-> the index of the pool's loop
  dst,      \* thread |-> what its current or last call has copied out
  ret,      \* thread |-> what its last call returned
  outcome,  \* "running", or what ended the program
  before    \* the list when the lock was taken (history)

listVars == <<buf, item_count, rwlock>>
vars == <<listVars, pc, call, at, dst, ret, outcome, before>>

MaxCount == BufLen \div ItemSize

Data == Values \cup {Junk}

Goto(t, p) == pc' = [pc EXCEPT ![t] = p]

-----------------------------------------------------------------------------
(* A plausible slip of this code: the list's lock taken for reading, as    *)
(* the pool's is.                                                          *)

SlipRead(t) == TRUE

-----------------------------------------------------------------------------
Init ==
  /\ buf = [i \in Places |-> Junk]
  /\ item_count = 0
  /\ rwlock = NULL
  /\ pc = [t \in Threads |-> "idle"]
  /\ call = [t \in Threads |-> NULL]
  /\ at = [t \in Threads |-> 0]
  /\ dst = [t \in Threads |-> <<>>]
  /\ ret = [t \in Threads |-> "success"]
  /\ outcome = "running"
  /\ before = <<>>

(* The items in use, those the buffer has no room for included. *)
Items == [i \in 1 .. item_count |-> IF i <= NumItems THEN buf[i - 1] ELSE Junk]

Call(t, c) ==
  /\ pc[t] = "idle"
  /\ call' = [call EXCEPT ![t] = c]
  /\ dst' = [dst EXCEPT ![t] = <<>>]
  /\ Goto(t, IF c.count = 0 THEN "skipping" ELSE "locking")
  /\ UNCHANGED <<listVars, at, ret, outcome, before>>

Return(t, r) ==
  /\ ret' = [ret EXCEPT ![t] = r]
  /\ call' = [call EXCEPT ![t] = NULL]
  /\ Goto(t, "idle")

(* A call about no items takes no lock. *)
Skip(t) ==
  /\ pc[t] = "skipping"
  /\ Return(t, "success")
  /\ UNCHANGED <<listVars, at, dst, outcome, before>>

(* pthread_rwlock_wrlock goes on for t. *)
MayLock(t) == rwlock = NULL

(* The calls that overfill the list. *)
Overfills(c) == Plus(item_count, c.count) > MaxCount

(* Those that are turned away; pop_back compares the wrong way round. *)
Refused(c) ==
  CASE c.op \in {"push_back", "insert"} -> Overfills(c)
    [] c.op = "pop_back" -> item_count > c.count
    [] c.op = "remove" -> Plus(c.index, c.count) > item_count

Refuse(t) ==
  /\ pc[t] = "locking"
  /\ MayLock(t)
  /\ Refused(call[t])
  /\ Return(t, "EINVAL")
  /\ UNCHANGED <<listVars, at, dst, outcome, before>>

(* The others call the pool, insert its memmove first. *)
Begin(t) ==
  /\ pc[t] = "locking"
  /\ MayLock(t)
  /\ ~Refused(call[t])
  /\ rwlock' = t
  /\ before' = Items
  /\ Goto(t, IF call[t].op = "insert" THEN "moving" ELSE "copying")
  /\ UNCHANGED <<buf, item_count, call, at, dst, ret, outcome>>

(* Where the copies of a call start in the buffer. *)
Start(c) ==
  CASE c.op = "push_back" -> item_count
    [] c.op = "pop_back" -> Minus(item_count, c.count)
    [] OTHER -> c.index

(* What is done once the copies are. *)
AfterCopy(c) == IF c.op = "remove" THEN "moving" ELSE "leaving"

(* One item is copied in or out, or, without memory, none. *)
Copy(t) ==
  LET c == call[t]
      i == Plus(at[t], Start(c))
  IN /\ pc[t] = "copying"
     /\ c.mem # NULL
     /\ outcome' = Copying(Start(c), c.count, i)
     /\ IF outcome' # "running" THEN UNCHANGED <<buf, dst, at, pc>>
        ELSE /\ IF c.op \in {"push_back", "insert"}
                THEN CpyIn(i, Element(c.mem, Start(c))) /\ UNCHANGED dst
                ELSE dst' = [dst EXCEPT ![t] = Append(@, buf[i])] /\ UNCHANGED buf
             /\ at' = [at EXCEPT ![t] = @ + 1]
             /\ Goto(t, IF Copied(at'[t], c.count) THEN AfterCopy(c) ELSE "copying")
     /\ UNCHANGED <<item_count, rwlock, call, ret, before>>

CopyNothing(t) ==
  LET c == call[t] IN
  /\ pc[t] = "copying"
  /\ c.mem = NULL
  /\ outcome' = CopyingNothing(Start(c), c.count)
  /\ Goto(t, AfterCopy(c))
  /\ UNCHANGED <<listVars, call, at, dst, ret, before>>

(* insert moves the items from index on up, to make room, and remove moves *)
(* those behind the ones removed down, to their place: <<from, to, count>>. *)
Shift(c) ==
  LET far == Plus(c.index, c.count) IN
  IF c.op = "insert" THEN <<c.index, far, Minus(item_count, c.index)>>
                     ELSE <<far, c.index, Minus(item_count, far)>>

Move(t) ==
  LET s == Shift(call[t]) IN
  /\ pc[t] = "moving"
  /\ outcome' = Moving(s[1], s[2], s[3])
  /\ IF outcome' # "running" THEN UNCHANGED <<buf, pc>>
     ELSE /\ Memmove(s[1], s[2], s[3])
          /\ Goto(t, IF call[t].op = "insert" THEN "copying" ELSE "leaving")
  /\ UNCHANGED <<item_count, rwlock, call, at, dst, ret, before>>

(* item_count once the call is done; pop_back adds, too. *)
Counted(c) ==
  IF c.op = "remove" THEN Minus(item_count, c.count) ELSE Plus(item_count, c.count)

Leave(t) ==
  /\ pc[t] = "leaving"
  /\ item_count' = Counted(call[t])
  /\ rwlock' = NULL
  /\ at' = [at EXCEPT ![t] = 0]
  /\ before' = <<>>
  /\ Return(t, "success")
  /\ UNCHANGED <<buf, dst, outcome>>

Next ==
  /\ outcome = "running"
  /\ \E t \in Threads :
       (\E c \in Calls : Call(t, c)) \/ Skip(t) \/ Refuse(t) \/ Begin(t) \/ Copy(t)
       \/ CopyNothing(t) \/ Move(t) \/ Leave(t)

Spec == Init /\ [][Next]_vars

-----------------------------------------------------------------------------
TypeOK ==
  /\ buf \in [Places -> Data]
  /\ item_count \in 0 .. 2 ^ Width - 1
  /\ rwlock \in Threads \cup {NULL}
  /\ pc \in [Threads -> {"idle", "skipping", "locking", "moving", "copying", "leaving"}]
  /\ call \in [Threads -> Calls \cup {NULL}]
  /\ at \in [Threads -> Nat] /\ \A t \in Threads : at[t] > 0 => at[t] <= call[t].count
  /\ dst \in [Threads -> Seq(Data)]
  /\ ret \in [Threads -> {"success", "EINVAL"}]
  /\ outcome \in {"running", "aborted", "wild"}
  /\ before \in Seq(Data)

(* However often item_count is wrong, the assertions of the pool stop      *)
(* every access beyond its buffer, except for one call: an insert behind   *)
(* the end of the list.  The calls are too small for index + count, or the *)
(* bytes of so many items, to wrap around.                                 *)
WildOnlyPastEnd ==
  outcome = "wild" => call[rwlock].op = "insert" /\ call[rwlock].index > item_count

(* Several threads that use the list see one list, on which their calls    *)
(* take effect one at a time.                                              *)
L == INSTANCE List WITH
  list <- IF rwlock = NULL THEN Items ELSE before,
  answer <- [t \in Threads |-> IF pc[t] = "idle" THEN [ret |-> ret[t], items |-> dst[t]]
                                                 ELSE NULL]
ListSpec == L!Spec
=============================================================================
