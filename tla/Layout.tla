------------------------------- MODULE Layout -------------------------------
(***************************************************************************)
(* src/util.c, the arithmetic that queue_init, freelist_init and pool_init *)
(* share, where in its backing buffer a container puts its items, and the  *)
(* loop of swapchain_init, which puts a chain of links there.  Addresses   *)
(* and sizes are unsigned words of Width bits.                             *)
(***************************************************************************)
EXTENDS Integers, FiniteSets

CONSTANTS
  Width,      \* bits of a word: 64 in the program
  MaxAlign,   \* bound: the largest alignment, and item, asked for
  LinkSize    \* sizeof(swaplink_t)

(* Nobody asks for an item, or an alignment, over half the address space. *)
ASSUME WidthAssumption ==
  /\ Width \in Nat \ {0} /\ LinkSize \in Nat \ {0}
  /\ MaxAlign \in Nat /\ 2 * MaxAlign <= 2 ^ Width

(* What the proofs use of powers of two, which only an induction shows.    *)
ASSUME PowersAssumption ==
  /\ 2 ^ Width \in Nat \ {0}
  /\ \A k \in 0 .. Width - 1 : 2 ^ k \in Nat \ {0} /\ 2 ^ Width % 2 ^ k = 0

VARIABLES
  buffer, length,          \* the client's backing buffer
  wanted, alignment,       \* its item_size and chunk_alignment
  start, buf_len, item_size,  \* what the container stores
  links,     \* the addresses of the links of a swap chain
  newest,    \* the last of them
  stage      \* how far the call is

args == <<buffer, length, wanted, alignment>>
fields == <<start, buf_len>>
chain == <<links, newest>>
layoutVars == <<args, fields, item_size, chain, stage>>

Word == 0 .. 2 ^ Width - 1

(* Addition and subtraction of unsigned words. *)
Plus(x, y) == (x + y) % 2 ^ Width
Minus(x, y) == (x - y) % 2 ^ Width

-----------------------------------------------------------------------------
(* Plausible slips of this code: an address moved on by what it is past    *)
(* the last boundary; an address that moves on though it is aligned; an    *)
(* address moved back, as by align_backward; a link that starts where the  *)
(* buffer ends.                                                            *)

SlipAddModulo(p, a) == IF a = 0 THEN 0 ELSE Plus(p, p % a)

SlipAlwaysMove(p, a) == IF a = 0 THEN 0 ELSE Plus(p, a - (p % a))

SlipBackward(p, a) == IF a = 0 THEN 0 ELSE p - (p % a)

SlipAtEnd(p) == p > Plus(buffer, length)

-----------------------------------------------------------------------------
(* is_power_of_two, x & (x - 1) = 0: zero passes as well. *)
is_power_of_two(x) == x = 0 \/ \E k \in 0 .. Width - 1 : x = 2 ^ k

(* ptr & (align - 1), for an align that is_power_of_two. *)
Modulo(p, a) == IF a = 0 THEN p ELSE p % a

align_forward(p, a) == IF Modulo(p, a) = 0 THEN p ELSE Plus(p, Minus(a, Modulo(p, a)))

(* A client hands over a buffer it has, wherever that lies, and the size   *)
(* and alignment of what it will store, of which nothing forbids zero.     *)
LayoutInit ==
  /\ buffer \in Word \ {0}
  /\ length \in {n \in Word : buffer + n <= 2 ^ Width}
  /\ wanted \in 0 .. MaxAlign
  /\ alignment \in 0 .. MaxAlign
  /\ start = 0 /\ buf_len = 0 /\ item_size = 0
  /\ links = {} /\ newest = 0
  /\ stage = "called"

(* The assertion of align_forward. *)
Misaligned ==
  /\ stage = "called"
  /\ ~is_power_of_two(alignment)
  /\ stage' = "aborted"
  /\ UNCHANGED <<args, fields, item_size, chain>>

(* The body of the three functions up to the fields they store.  An        *)
(* item_size of zero passes, and it is what comes next that fails on it:   *)
(* queue_init and arraylist_init divide by it, and the loop of             *)
(* __freelist_clr, which moves on by it, stays where it is for ever if the *)
(* buffer has any room.                                                    *)
Place ==
  /\ stage = "called"
  /\ is_power_of_two(alignment)
  /\ LET first == align_forward(buffer, alignment)
         room  == Minus(length, Minus(first, buffer))
         size  == align_forward(wanted, alignment)
     IN \/ /\ room >= size
           /\ start' = first /\ buf_len' = room /\ item_size' = size
           /\ stage' = IF size = 0 THEN "sizeless" ELSE "initialised"
        \/ /\ room < size
           /\ stage' = "aborted"
           /\ UNCHANGED <<fields, item_size>>
  /\ UNCHANGED <<args, chain>>

(* swapchain_init up to its loop; it is given no buffer that lies at the   *)
(* very end of the address space.                                          *)
PlaceChain ==
  /\ stage = "called"
  /\ is_power_of_two(alignment)
  /\ buffer + length + LinkSize + wanted + 3 * alignment < 2 ^ Width
  /\ item_size' = align_forward(wanted, alignment)
  /\ newest' = align_forward(buffer, alignment)
  /\ links' = {newest'}
  /\ stage' = IF newest' = 0 THEN "crashed" ELSE "linking"
  /\ UNCHANGED <<args, fields>>

Newer(p) == align_forward(Plus(Plus(p, item_size), LinkSize), alignment)

PastEnd(p) == p >= Plus(buffer, length)

(* One turn of the loop. *)
AddLink ==
  /\ stage = "linking"
  /\ IF PastEnd(Newer(newest))
     THEN stage' = "chained" /\ UNCHANGED chain
     ELSE newest' = Newer(newest) /\ links' = links \cup {newest'} /\ UNCHANGED stage
  /\ UNCHANGED <<args, fields, item_size>>

LayoutNext == Misaligned \/ Place \/ PlaceChain \/ AddLink

LayoutSpec == LayoutInit /\ [][LayoutNext]_layoutVars

-----------------------------------------------------------------------------
(* How many whole items a container of buf_len bytes holds. *)
NumItems == buf_len \div item_size

(* The buffer reaches an aligned address. *)
Reached == \E p \in buffer .. buffer + length : p < 2 ^ Width /\ p % alignment = 0

(* The items are aligned and as large as the client's, and they lie in its *)
(* buffer, from the first to the last, exactly if it reaches an aligned    *)
(* address: the padding taken off a shorter one makes its length wrap      *)
(* around, which the assertion that should turn it away lets pass.         *)
ItemsInBuffer ==
  stage = "initialised" =>
    /\ start % alignment = 0 /\ item_size % alignment = 0
    /\ item_size >= wanted /\ NumItems >= 1
    /\ Reached <=> start >= buffer /\ start + NumItems * item_size <= buffer + length

(* No room is wasted: the container starts at the first aligned address of *)
(* the buffer, its items are as small as they can be, and the assertion    *)
(* turns a buffer away only if not one item fits in it.                    *)
NothingWasted ==
  /\ stage = "initialised" /\ Reached =>
       /\ start - buffer < alignment /\ item_size - wanted < alignment
       /\ start + (NumItems + 1) * item_size > buffer + length
  /\ stage = "aborted" /\ is_power_of_two(alignment) =>
       \A p \in buffer .. buffer + length, s \in wanted .. wanted + alignment :
         p % alignment = 0 /\ s % alignment = 0 => p + s > buffer + length

(* The links of a chain are aligned and do not overlap, nor their items,   *)
(* and all but the newest lie in the buffer; the newest too, if the buffer *)
(* is an aligned array of links with their items, as that of the tests is, *)
(* and then the chain has as many links as the array.                      *)
LinksInBuffer ==
  LET size   == LinkSize + wanted
      stride == LinkSize + item_size
      fits(p) == buffer <= p /\ p + size <= buffer + length
  IN stage = "chained" =>
       /\ \A p \in links : p % alignment = 0 /\ (p # newest => fits(p))
       /\ \A p, q \in links : p < q => p + size <= q
       /\ /\ buffer % alignment = 0 /\ stride % alignment = 0
          /\ length % stride = 0 /\ length > 0
          => Cardinality(links) = length \div stride /\ fits(newest)

(* The three functions store an item_size of zero, on which what follows   *)
(* divides by zero or never ends, exactly for items of size 0 and for an   *)
(* alignment of 0, and the loop writes a link at NULL exactly for an       *)
(* alignment of 0: no rounding wraps around to zero for anything else.     *)
OnlyZerosFail ==
  /\ stage = "sizeless" => wanted = 0 \/ alignment = 0
  /\ stage = "initialised" => wanted # 0 /\ alignment # 0
  /\ stage = "crashed" => alignment = 0
  /\ stage \in {"linking", "chained"} => alignment # 0
=============================================================================
