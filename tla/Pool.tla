-------------------------------- MODULE Pool --------------------------------
(***************************************************************************)
(* src/pool.c: a buffer of items, copied in and out and moved.  Its calls  *)
(* take the pool's rwlock for reading only, those that write included, so  *)
(* it never makes anyone wait and is not part of the state: what keeps two *)
(* calls apart is up to the caller.                                        *)
(*                                                                         *)
(* The bytes of an item are one value; its size counts in the assertions,  *)
(* whose arithmetic is on unsigned words.  size and stride are equal, as   *)
(* in every call of the repository.                                        *)
(***************************************************************************)
EXTENDS Integers, Sequences

CONSTANTS
  Width,     \* bits of a word: 64 in the program
  BufLen,    \* pool->buf_len
  ItemSize,  \* pool->item_size
  Junk       \* memory that nobody wrote, or that is not an item

ASSUME PoolAssumption ==
  /\ Width \in Nat /\ ItemSize \in Nat \ {0} /\ BufLen \in Nat
  /\ ItemSize <= BufLen /\ BufLen < 2 ^ Width
(* The provers know nothing of powers but this. *)
ASSUME WordAssumption == 2 ^ Width \in Nat

VARIABLE buf   \* the item in each place of the buffer

NumItems == BufLen \div ItemSize

Places == 0 .. NumItems - 1

Plus(x, y) == (x + y) % 2 ^ Width
Minus(x, y) == (x - y) % 2 ^ Width
Times(x, y) == (x * y) % 2 ^ Width

-----------------------------------------------------------------------------
(* Plausible slips of this code: a pointer without its assertion; a loop   *)
(* that goes one too far.                                                  *)

SlipAnyPtr(i) == TRUE

SlipOneTooFar(index, count) == index > count

-----------------------------------------------------------------------------
(* The assertion of each call on the items it is asked for, ... *)
Fits(start, count) == Times(Plus(start, count), ItemSize) <= BufLen

(* ... and that of __pool_get_ptr on each one it comes to. *)
HasPtr(i) == Times(i, ItemSize) <= BufLen

(* What becomes of the program in a call: an assertion ends it, or it runs *)
(* on beyond the buffer, or neither.                                       *)
Outcome(asserted, inside) ==
  IF ~asserted THEN "aborted" ELSE IF ~inside THEN "wild" ELSE "running"

(* One turn of the loops of cpy_in and cpy_out, at place i of count items  *)
(* from start on.  Without a source or a destination, NULL, they only test *)
(* their assertion.                                                        *)
Copying(start, count, i) == Outcome(Fits(start, count) /\ HasPtr(i), i \in Places)

CopyingNothing(start, count) == Outcome(Fits(start, count), TRUE)

(* What cpy_in copies to each of its places: the element start_index of    *)
(* its source, which may have fewer.                                       *)
Element(src, start) == IF start < Len(src) THEN src[start + 1] ELSE Junk

CpyIn(i, v) == buf' = [buf EXCEPT ![i] = v]

(* The loop is over. *)
Copied(index, count) == index = count

(* memmove, of count items: as if through a copy of them. *)
Moving(sourc, desti, count) ==
  Outcome(/\ Fits(sourc, count) /\ Fits(desti, count)
          /\ count # 0 /\ sourc # desti => HasPtr(sourc) /\ HasPtr(desti),
          count = 0 \/ (sourc + count <= NumItems /\ desti + count <= NumItems))

Memmove(sourc, desti, count) ==
  buf' = [i \in Places |-> IF i - desti \in 0 .. count - 1 THEN buf[i - desti + sourc] ELSE buf[i]]
=============================================================================
