------------------------------ MODULE Freelist ------------------------------
(***************************************************************************)
(* src/freelist.c: a backing buffer cut into items, the free ones linked   *)
(* through their own first word, under one mutex (lock_list).  Each call   *)
(* is one critical section and touches nothing else, so it is one step.    *)
(*                                                                         *)
(* An item is its number: its address less fl->start over fl->item_size.   *)
(* Sizes are in words.  Spec is about a buffer that reads as zero, NULL,   *)
(* where nobody has written; InitOver also covers others.                  *)
(***************************************************************************)
EXTENDS Naturals, FiniteSets

CONSTANTS
  Users,      \* the threads that get and release items
  BufLen,     \* fl->buf_len
  ItemSize,   \* fl->item_size
  Data,       \* what a client writes into the first word of its item
  NULL

ASSUME SizesAssumption ==
  BufLen \in Nat /\ ItemSize \in Nat \ {0} /\ BufLen >= ItemSize
ASSUME NullAssumption == NULL \notin Nat /\ Data \notin Nat /\ Data # NULL

VARIABLES
  first,   \* the item at the head of the list, or NULL
  word,    \* item |-> its first word: the next free item, NULL, or client data
  held,    \* user |-> the items it holds
  answer   \* user |-> the item variable of its last get

vars == <<first, word, held, answer>>

-----------------------------------------------------------------------------
(* Plausible slips of this code: an item that is put back at the head      *)
(* without the list behind it, or with NULL behind it; a get that leaves   *)
(* its item on the list; one item too many; a loop of __freelist_clr that  *)
(* stops one too soon.                                                     *)

SlipNoLink(i) == word

SlipCutList(i) == [word EXCEPT ![i] = NULL]

SlipKeepFirst == first

SlipOneMore == (BufLen + ItemSize - 1) \div ItemSize + 1

SlipTooSoon(last) ==
  [i \in 0 .. (BufLen \div ItemSize) - 1 |->
     IF i + 2 < BufLen \div ItemSize THEN i + 1 ELSE last]

-----------------------------------------------------------------------------
(* __freelist_clr links an item to the one behind it as long as that one   *)
(* starts inside the buffer.                                               *)
NumItems == (BufLen + ItemSize - 1) \div ItemSize

Items == 0 .. NumItems - 1

(* It leaves the last item alone, whose first word reads as last. *)
Cleared(last) == [i \in Items |-> IF i + 1 \in Items THEN i + 1 ELSE last]

InitOver(last) ==
  /\ first = 0
  /\ word = Cleared(last)
  /\ held = [u \in Users |-> {}]
  /\ answer = [u \in Users |-> NULL]

Init == InitOver(NULL)

(* The list without its head. *)
AfterFirst == word[first]

(* __freelist_get; the client's variable is NULL before the call. *)
Get(u) ==
  \/ /\ first # NULL
     /\ first' = AfterFirst
     /\ held' = [held EXCEPT ![u] = @ \cup {first}]
     /\ answer' = [answer EXCEPT ![u] = first]
     /\ UNCHANGED word
  \/ /\ first = NULL
     /\ answer' = [answer EXCEPT ![u] = NULL]
     /\ UNCHANGED <<first, word, held>>

(* The client uses an item it holds. *)
Use(u, i) ==
  /\ i \in held[u]
  /\ word' = [word EXCEPT ![i] = Data]
  /\ UNCHANGED <<first, held, answer>>

(* The words once item i is put before the list. *)
Linked(i) == [word EXCEPT ![i] = first]

(* __freelist_rel, of an item the client holds. *)
Rel(u, i) ==
  /\ i \in held[u]
  /\ word' = Linked(i)
  /\ first' = i
  /\ held' = [held EXCEPT ![u] = @ \ {i}]
  /\ UNCHANGED answer

Next == \E u \in Users : Get(u) \/ \E i \in Items : Use(u, i) \/ Rel(u, i)

Spec == Init /\ [][Next]_vars

-----------------------------------------------------------------------------
TypeOK ==
  /\ first \in Items \cup {NULL}
  /\ word \in [Items -> Items \cup {NULL, Data}]
  /\ held \in [Users -> SUBSET Items]
  /\ answer \in [Users -> Items \cup {NULL}]

Free == Items \ UNION {held[u] : u \in Users}

(* Whatever the users write into their items, the list runs through        *)
(* exactly the items nobody holds, each once, and ends with NULL.          *)
ListOK ==
  LET n == Cardinality(Free) IN
  \E s \in [1 .. n -> Free] :
    /\ \A i, j \in 1 .. n : s[i] = s[j] => i = j
    /\ first = IF n = 0 THEN NULL ELSE s[1]
    /\ \A i \in 1 .. n : word[s[i]] = IF i = n THEN NULL ELSE s[i + 1]

(* The free list implements the allocator. *)
A == INSTANCE Allocator
AllocatorSpec == A!Spec

(* Every item a user holds begins in the buffer, so that its link does.    *)
(* Its end does as well if the buffer is a whole number of items; if not,  *)
(* the last one reaches past it, and clients write there.                  *)
ItemsFit ==
  \A u \in Users : \A i \in held[u] :
    /\ i * ItemSize < BufLen
    /\ (i + 1) * ItemSize > BufLen => i = BufLen \div ItemSize /\ BufLen % ItemSize # 0
=============================================================================
