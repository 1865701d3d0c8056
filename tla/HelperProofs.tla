----------------------------- MODULE HelperProofs ---------------------------
(***************************************************************************)
(* Proofs about the helpers the containers share: safeguards.c (module     *)
(* ProgramState), for any number of threads and of sets, and the placing   *)
(* of items and links with util.c (Layout), for words of any width.        *)
(***************************************************************************)
EXTENDS ProgramState, Layout, FiniteSetTheorems, TLAPS

-----------------------------------------------------------------------------
(* Every variable keeps its type: set_current_state stores only states that *)
(* pass its assertion, and a thread is always at a known place.             *)
LEMMA SignalType ==
  ASSUME TypeOK, Signal
  PROVE  pc' \in [Threads -> {"idle", "testing", "sleeping", "checked"}]
BY DEF TypeOK, Signal, Goto

THEOREM TypeCorrect == Spec => []TypeOK
<1>1. Init => TypeOK
  <2> SUFFICES ASSUME Init PROVE TypeOK
    OBVIOUS
  <2>1. /\ current_state \in {"INVALID_STATE", "INIT", "MENU", "RUN", "STOP"}
        /\ sets \in 0 .. MaxSets
    BY SetsAssumption DEF Init
  <2>2. /\ pc \in [Threads -> {"idle", "testing", "sleeping", "checked"}]
        /\ awaited \in [Waiters -> Accepted]
    BY DEF Init, Accepted
  <2>3. memory \in [Allocators -> BOOLEAN] /\ aborted \in BOOLEAN
    BY DEF Init
  <2>4. late \in [Allocators -> Nat]
    BY DEF Init
  <2> QED
    BY <2>1, <2>2, <2>3, <2>4 DEF TypeOK
<1>2. TypeOK /\ [Next]_vars => TypeOK'
  <2> SUFFICES ASSUME TypeOK, [Next]_vars PROVE TypeOK'
    OBVIOUS
  <2>1. ASSUME NEW t \in Setters, NEW s \in Accepted, Set(t, s) PROVE TypeOK'
    <3>1. pc' \in [Threads -> {"idle", "testing", "sleeping", "checked"}]
      BY <2>1, SignalType DEF Set
    <3>2. late' \in [Allocators -> Nat]
      BY <2>1 DEF Set, TypeOK
    <3> QED
      BY <2>1, <3>1, <3>2, SetsAssumption DEF Set, TypeOK, Accepted
  <2>2. ASSUME NEW w \in Waiters, NEW s \in Accepted, CallWait(w, s) PROVE TypeOK'
    BY <2>2 DEF CallWait, TypeOK, Goto
  <2>3. ASSUME NEW w \in Waiters, Test(w) \/ SpuriousWakeup(w) PROVE TypeOK'
    BY <2>3 DEF Test, SpuriousWakeup, TypeOK, Goto
  <2>4. ASSUME NEW a \in Allocators, Check(a) \/ Allocate(a) PROVE TypeOK'
    <3>1. CASE Check(a)
      BY <3>1 DEF Check, TypeOK, Goto
    <3>2. CASE Allocate(a)
      <4>1. late' \in [Allocators -> Nat]
        BY <3>2 DEF Allocate, TypeOK
      <4> QED
        BY <3>2, <4>1 DEF Allocate, TypeOK, Goto
    <3> QED
      BY <2>4, <3>1, <3>2
  <2>5. CASE UNCHANGED vars
    BY <2>5 DEF vars, TypeOK
  <2> QED
    BY <2>1, <2>2, <2>3, <2>4, <2>5 DEF Next
<1> QED
  BY <1>1, <1>2, PTL DEF Spec

-----------------------------------------------------------------------------
(* What makes AtMostOneLate inductive: nothing is late before the program  *)
(* runs, nor for a thread between its assertion and its malloc or free,    *)
(* since the assertion was passed in another state than RUN, and a thread  *)
(* that has been late cannot pass it again before the state changes.       *)
LateOK ==
  /\ current_state # "RUN" => \A a \in Allocators : late[a] = 0
  /\ \A a \in Allocators : late[a] <= 1 /\ (pc[a] = "checked" => late[a] = 0)

(* While the program runs, each thread allocates or frees memory at most   *)
(* once, for any number of threads that set the state and allocate, the    *)
(* same or others: the lock safe_alloc and safe_free release after they    *)
(* have read the state (safeguards.c:20) lets no more than one call slip.  *)
THEOREM AtMostOneLateCorrect == Spec => []AtMostOneLate
<1>1. Init => LateOK
  BY DEF Init, LateOK, Threads
<1>2. TypeOK /\ LateOK /\ [Next]_vars => LateOK'
  <2> SUFFICES ASSUME TypeOK, LateOK, [Next]_vars PROVE LateOK'
    OBVIOUS
  <2>1. ASSUME NEW t \in Setters, NEW s \in Accepted, Set(t, s) PROVE LateOK'
    <3>1. ASSUME NEW a \in Allocators, pc'[a] = "checked" PROVE pc[a] = "checked"
      BY <2>1, <3>1 DEF Set, Signal, Goto, TypeOK, Threads
    <3>2. CASE s = "RUN"
      BY <2>1, <3>1, <3>2 DEF Set, LateOK
    <3>3. CASE s # "RUN"
      BY <2>1, <3>3 DEF Set, LateOK
    <3> QED
      BY <3>2, <3>3
  <2>2. ASSUME NEW w \in Waiters,
               (\E s \in Accepted : CallWait(w, s)) \/ Test(w) \/ SpuriousWakeup(w)
        PROVE  LateOK'
    <3>1. ASSUME NEW a \in Allocators, pc'[a] = "checked" PROVE pc[a] = "checked"
      BY <2>2, <3>1 DEF CallWait, Test, SpuriousWakeup, Goto, TypeOK, Threads
    <3>2. current_state' = current_state /\ late' = late
      BY <2>2 DEF CallWait, Test, SpuriousWakeup
    <3> QED
      BY <3>1, <3>2 DEF LateOK
  <2>3. ASSUME NEW a \in Allocators, Check(a) PROVE LateOK'
    <3>1. current_state' = current_state /\ late' = late
      BY <2>3 DEF Check
    <3>2. ASSUME NEW b \in Allocators, pc'[b] = "checked" PROVE late[b] = 0
      BY <2>3, <3>2 DEF Check, Goto, LateOK, TypeOK, Threads
    <3> QED
      BY <3>1, <3>2 DEF LateOK
  <2>4. ASSUME NEW a \in Allocators, Allocate(a) PROVE LateOK'
    <3>1. late[a] = 0 /\ current_state' = current_state
      BY <2>4 DEF Allocate, At, LateOK
    <3>2. pc' = [pc EXCEPT ![a] = "idle"] /\ pc \in [Threads -> {"idle", "testing", "sleeping", "checked"}]
      BY <2>4 DEF Allocate, Goto, TypeOK
    <3>3. CASE current_state = "RUN"
      <4>1. late' = [late EXCEPT ![a] = @ + 1] /\ late \in [Allocators -> Nat]
        BY <2>4, <3>3 DEF Allocate, TypeOK
      <4> QED
        BY <3>1, <3>2, <3>3, <4>1 DEF LateOK, Threads
    <3>4. CASE current_state # "RUN"
      <4>1. late' = late
        BY <2>4, <3>4 DEF Allocate
      <4> QED
        BY <3>1, <3>2, <3>4, <4>1 DEF LateOK, Threads
    <3> QED
      BY <3>3, <3>4
  <2>5. CASE UNCHANGED vars
    BY <2>5 DEF vars, LateOK
  <2> QED
    BY <2>1, <2>2, <2>3, <2>4, <2>5 DEF Next
<1>3. LateOK => AtMostOneLate
  BY DEF LateOK, AtMostOneLate
<1> QED
  BY <1>1, <1>2, <1>3, TypeCorrect, PTL DEF Spec

-----------------------------------------------------------------------------
W == 2 ^ Width

(* Multiples of an alignment. *)
LEMMA Division ==
  ASSUME NEW a \in Nat \ {0}, NEW p \in Nat
  PROVE  /\ p % a \in 0 .. a - 1
         /\ p \div a \in Nat
         /\ p = (p \div a) * a + (p % a)
OBVIOUS

LEMMA Remainder ==
  ASSUME NEW a \in Nat \ {0}, NEW q \in Nat, NEW r \in 0 .. a - 1
  PROVE  (q * a + r) % a = r
OBVIOUS

LEMMA NextMultiple ==
  ASSUME NEW a \in Nat \ {0}, NEW q \in Nat, NEW n \in Nat, q * a < n * a
  PROVE  q * a + a <= n * a
<1>1. q < n
  <2>1. CASE n <= q
    <3>1. n * a <= q * a
      BY <2>1
    <3>2. QED
      BY <3>1
  <2>2. QED
    BY <2>1
<1>2. PICK d \in Nat : n = q + 1 + d
  <2>1. n - q - 1 \in Nat /\ n = q + 1 + (n - q - 1)
    BY <1>1
  <2>2. QED
    BY <2>1
<1>3. n * a = q * a + a + d * a /\ d * a \in Nat
  BY <1>2
<1>4. QED
  BY <1>3

LEMMA Cancel ==
  ASSUME NEW a \in Nat \ {0}, NEW q \in Nat, NEW n \in Nat, q * a = n * a
  PROVE  q = n
<1>1. (q * a) \div a = q /\ (n * a) \div a = n
  OBVIOUS
<1>2. QED
  BY <1>1

LEMMA Turn ==
  ASSUME NEW n \in Nat, NEW a \in Nat
  PROVE  (n - 1) * a + a = ((n + 1) - 1) * a
OBVIOUS

LEMMA Sum ==
  ASSUME NEW a \in Nat \ {0}, NEW x \in Nat, NEW y \in Nat, x % a = 0, y % a = 0
  PROVE  (x + y) % a = 0
<1>1. PICK i \in Nat, j \in Nat : x = i * a /\ y = j * a
  <2>1. x = (x \div a) * a /\ y = (y \div a) * a
    BY Division
  <2>2. x \div a \in Nat /\ y \div a \in Nat
    BY Division
  <2>3. QED
    BY <2>1, <2>2
<1>2. x + y = (i + j) * a + 0 /\ i + j \in Nat
  BY <1>1
<1>3. ((i + j) * a + 0) % a = 0
  BY <1>2, Remainder
<1>4. QED
  BY <1>2, <1>3

(* The first multiple that is not below an address.                        *)
LEMMA FirstMultiple ==
  ASSUME NEW a \in Nat \ {0}, NEW p \in Nat, p % a # 0
  PROVE  /\ p + (a - (p % a)) \in Nat /\ p < p + (a - (p % a)) /\ p + (a - (p % a)) < p + a
         /\ (p + (a - (p % a))) % a = 0
         /\ \A x \in Nat : p <= x /\ x % a = 0 => p + (a - (p % a)) <= x
<1> DEFINE m == p % a
           q == p \div a
<1>1. m \in 1 .. a - 1 /\ q \in Nat /\ p = q * a + m
  BY Division
<1> HIDE DEF m, q
<1>2. p + (a - m) = (q + 1) * a + 0 /\ q + 1 \in Nat
  BY <1>1
<1>3. ((q + 1) * a + 0) % a = 0
  BY <1>2, Remainder
<1>4. ASSUME NEW x \in Nat, p <= x, x % a = 0 PROVE p + (a - m) <= x
  <2>1. PICK n \in Nat : x = n * a
    <3>1. x \div a \in Nat /\ x = (x \div a) * a
      BY <1>4, Division
    <3>2. QED
      BY <3>1
  <2>2. q * a < n * a
    BY <1>1, <1>4, <2>1
  <2>3. q * a + a <= n * a
    BY <1>1, <2>2, NextMultiple
  <2>4. QED
    BY <1>1, <2>1, <2>3
<1>5. p + (a - m) \in Nat /\ p < p + (a - m) /\ p + (a - m) < p + a
  BY <1>1
<1>6. QED
  BY <1>2, <1>3, <1>4, <1>5 DEF m

(* The arithmetic of words. *)
LEMMA Words ==
  /\ W \in Nat \ {0}
  /\ \A x, y \in Int : Plus(x, y) \in 0 .. W - 1 /\ Minus(x, y) \in 0 .. W - 1
  /\ \A x, y \in Nat : x + y < W => Plus(x, y) = x + y
  /\ \A x, y \in Nat : x + y = W => Plus(x, y) = 0
  /\ \A x, y \in Nat : y <= x /\ x - y < W => Minus(x, y) = x - y
<1>1. W \in Nat \ {0}
  BY PowersAssumption DEF W
<1>2. \A x, y \in Int : Plus(x, y) = (x + y) % W /\ Minus(x, y) = (x - y) % W
  BY DEF Plus, Minus, W
<1> HIDE DEF W
<1>3. \A x \in Int : x % W \in 0 .. W - 1
  BY <1>1
<1>4. \A x \in Int : 0 <= x /\ x < W => x % W = x
  BY <1>1
<1>5. W % W = 0
  BY <1>1
<1>6. \A x, y \in Int : Plus(x, y) \in 0 .. W - 1 /\ Minus(x, y) \in 0 .. W - 1
  BY <1>2, <1>3
<1>7. \A x, y \in Nat : x + y < W => Plus(x, y) = x + y
  BY <1>2, <1>4
<1>8. \A x, y \in Nat : x + y = W => Plus(x, y) = 0
  BY <1>2, <1>5
<1>9. ASSUME NEW x \in Nat, NEW y \in Nat, y <= x, x - y < W PROVE Minus(x, y) = x - y
  <2>1. x - y \in Int /\ 0 <= x - y
    BY <1>9
  <2>2. QED
    BY <1>2, <1>4, <1>9, <2>1
<1>10. QED
  BY <1>1, <1>6, <1>7, <1>8, <1>9

LEMMA MinusWord ==
  ASSUME NEW x \in Nat, NEW y \in Nat
  PROVE  Minus(x, y) \in 0 .. W - 1
BY Words

(* An alignment that is_power_of_two divides the size of the address space *)
(* unless it is zero.                                                      *)
Divides(a) == a \in Nat \ {0} /\ W % a = 0 /\ a <= W

LEMMA PowerDivides ==
  ASSUME NEW a \in Nat \ {0}, is_power_of_two(a)
  PROVE  Divides(a)
<1>1. a \in Nat \ {0} /\ W % a = 0 /\ W \in Nat \ {0}
  BY PowersAssumption DEF is_power_of_two, W
<1> HIDE DEF W
<1>2. a <= W
  BY <1>1
<1>3. QED
  BY <1>1, <1>2 DEF Divides

(* align_forward finds the first aligned address, or, at the end of the    *)
(* address space, where there is none, zero.                               *)
LEMMA Forward ==
  ASSUME NEW a, Divides(a), NEW p \in 0 .. W - 1
  PROVE  LET f == align_forward(p, a) IN
         /\ f \in 0 .. W - 1 /\ f % a = 0
         /\ \/ /\ p <= f /\ f < p + a
               /\ \A x \in Nat : p <= x /\ x % a = 0 => f <= x
            \/ /\ f = 0 /\ p + a > W
               /\ \A x \in Nat : p <= x /\ x % a = 0 => W <= x
<1>1. a \in Nat \ {0} /\ W % a = 0 /\ a <= W /\ p \in Nat /\ p < W /\ W \in Nat \ {0}
  BY Words DEF Divides
<1>2. CASE p % a = 0
  <2>1. align_forward(p, a) = p
    BY <1>1, <1>2 DEF align_forward, Modulo
  <2>2. QED
    BY <1>1, <1>2, <2>1
<1>3. CASE p % a # 0
  <2>1. PICK m \in 1 .. a - 1 : m = p % a
    <3>1. p % a \in 0 .. a - 1
      BY <1>1, Division
    <3>2. p % a \in 1 .. a - 1
      BY <1>3, <3>1
    <3>3. QED
      BY <3>2
  <2>2. PICK g \in Nat : g = p + (a - m) /\ p < g /\ g < p + a /\ g % a = 0
    BY <1>1, <1>3, <2>1, FirstMultiple
  <2>3. \A x \in Nat : p <= x /\ x % a = 0 => g <= x
    BY <1>1, <1>3, <2>1, <2>2, FirstMultiple
  <2>4. Minus(a, m) = a - m
    <3>1. m \in Nat /\ m <= a /\ a - m < W
      BY <1>1, <2>1
    <3>2. QED
      BY <1>1, <3>1, Words
  <2>5. align_forward(p, a) = Plus(p, a - m) /\ a - m \in Nat
    BY <1>1, <1>3, <2>1, <2>4 DEF align_forward, Modulo
  <2>6. g <= W
    <3>1. W \in Nat /\ p <= W /\ W % a = 0
      BY <1>1
    <3>2. QED
      BY <2>3, <3>1
  <2>7. CASE g < W
    <3>1. align_forward(p, a) = g
      BY <1>1, <2>1, <2>2, <2>5, <2>7, Words
    <3>2. QED
      BY <1>1, <2>2, <2>3, <2>7, <3>1
  <2>8. CASE g = W
    <3>1. PICK d \in Nat : d = a - m
      BY <2>5
    <3>2. p + d = W /\ p + a > W
      BY <1>1, <2>1, <2>2, <2>8, <3>1
    <3>3. Plus(p, d) = 0
      BY <1>1, <3>2, Words
    <3>4. align_forward(p, a) = 0
      BY <2>5, <3>1, <3>3
    <3>5. 0 % a = 0 /\ 0 \in 0 .. W - 1
      BY <1>1
    <3>6. QED
      BY <2>3, <2>8, <3>2, <3>4, <3>5
  <2>9. QED
    BY <1>1, <2>6, <2>7, <2>8
<1>4. QED
  BY <1>2, <1>3

(* With an alignment of zero it returns zero.                              *)
LEMMA ForwardZero ==
  ASSUME NEW p \in 0 .. W - 1
  PROVE  align_forward(p, 0) = 0
<1>1. W \in Nat \ {0}
  BY Words
<1>2. CASE p = 0
  BY <1>2 DEF align_forward, Modulo
<1>3. CASE p # 0
  <2>1. align_forward(p, 0) = Plus(p, Minus(0, p))
    BY <1>3 DEF align_forward, Modulo
  <2>2. Minus(0, p) = (0 - p) % W
    BY DEF Minus, W
  <2>3. (0 - p) % W = W - p
    BY <1>1, <1>3
  <2>4. Plus(p, W - p) = 0
    <3>1. W - p \in Nat /\ p + (W - p) = W /\ p \in Nat
      BY <1>1
    <3>2. QED
      BY <3>1, Words
  <2>5. QED
    BY <2>1, <2>2, <2>3, <2>4
<1>4. QED
  BY <1>2, <1>3

-----------------------------------------------------------------------------
(* What the three functions compute.                                       *)
First == align_forward(buffer, alignment)
Room == Minus(length, Minus(First, buffer))
Size == align_forward(wanted, alignment)

Args ==
  /\ buffer \in 1 .. W - 1 /\ length \in Nat /\ buffer + length <= W
  /\ wanted \in 0 .. MaxAlign /\ alignment \in 0 .. MaxAlign

(* How the result of a call follows from its arguments.                    *)
Placed ==
  /\ stage = "initialised" =>
       /\ is_power_of_two(alignment) /\ alignment # 0 /\ Room >= Size
       /\ start = First /\ buf_len = Room /\ item_size = Size
  /\ stage = "aborted" /\ is_power_of_two(alignment) => alignment # 0 /\ Room < Size
  /\ OnlyZerosFail

(* The loop has written a row of links, the newest of which it looks at;   *)
(* behind the last of them there is no room for another.                   *)
Chained ==
  stage \in {"linking", "chained"} =>
    /\ is_power_of_two(alignment) /\ alignment # 0
    /\ buffer + length + LinkSize + wanted + 3 * alignment < W
    /\ item_size = Size
    /\ newest \in links /\ IsFiniteSet(links)
    /\ newest < buffer + length + alignment
    /\ \A p \in links : p \in Nat /\ p % alignment = 0 /\ buffer <= p /\ p <= newest
    /\ \A p \in links : p # newest => newest < buffer + length
    /\ \A p, q \in links : p < q => p + (LinkSize + item_size) <= q
    /\ buffer % alignment = 0 /\ (LinkSize + item_size) % alignment = 0 =>
         newest = buffer + (Cardinality(links) - 1) * (LinkSize + item_size)
    /\ stage = "chained" => Newer(newest) >= buffer + length

IInv == Args /\ Placed /\ Chained

(* The size of an item is the client's, rounded up.                        *)
LEMMA SizeRounds ==
  ASSUME Args, is_power_of_two(alignment), alignment # 0
  PROVE  /\ Divides(alignment) /\ alignment \in Nat \ {0}
         /\ Size \in Nat /\ Size % alignment = 0
         /\ wanted <= Size /\ Size < wanted + alignment
         /\ \A x \in Nat : wanted <= x /\ x % alignment = 0 => Size <= x
<1>1. alignment \in Nat \ {0} /\ wanted \in Nat /\ wanted + alignment <= W /\ wanted < W
  BY WidthAssumption DEF Args, W
<1>2. Divides(alignment)
  BY <1>1, PowerDivides
<1>3. W \in Nat /\ wanted \in 0 .. W - 1
  BY <1>1, Words
<1> HIDE DEF Divides
<1>4. QED
  BY <1>1, <1>2, <1>3, Forward DEF Size

(* The first item lies at the first aligned address, if there is one.      *)
LEMMA FirstAligned ==
  ASSUME Args, is_power_of_two(alignment), alignment # 0
  PROVE  /\ First \in 0 .. W - 1 /\ First % alignment = 0
         /\ \/ /\ buffer <= First /\ First < buffer + alignment
               /\ \A x \in Nat : buffer <= x /\ x % alignment = 0 => First <= x
            \/ /\ First = 0 /\ buffer + alignment > W
               /\ \A x \in Nat : buffer <= x /\ x % alignment = 0 => W <= x
<1>1. Divides(alignment)
  BY SizeRounds
<1>2. buffer \in 0 .. W - 1
  BY Words DEF Args
<1>3. QED
  BY <1>1, <1>2, Forward DEF First
(* The room is counted from the first item on, if the buffer reaches it.   *)
LEMMA RoomLeft ==
  ASSUME Args, is_power_of_two(alignment), alignment # 0
  PROVE  /\ Room \in Nat
         /\ Reached <=> buffer <= First /\ First <= buffer + length
         /\ Reached => Room = length - (First - buffer)
<1>1. /\ buffer \in Nat /\ buffer < W /\ buffer > 0 /\ length \in Nat /\ buffer + length <= W
      /\ W \in Nat
  BY Words DEF Args
<1>2. First \in Nat /\ First < W /\ First % alignment = 0
  BY <1>1, FirstAligned
<1> HIDE DEF W
<1>3. Room \in Nat
  <2>1. PICK d \in Nat : d = Minus(First, buffer)
    <3>1. Minus(First, buffer) \in 0 .. W - 1
      BY <1>1, <1>2, MinusWord
    <3>2. QED
      BY <1>1, <3>1
  <2>2. Minus(length, d) \in 0 .. W - 1
    BY <1>1, MinusWord
  <2>3. QED
    BY <1>1, <2>1, <2>2 DEF Room
<1>4. ASSUME Reached PROVE buffer <= First /\ First <= buffer + length
  <2>1. PICK x \in buffer .. buffer + length : x < W /\ x % alignment = 0
    BY <1>4 DEF Reached, W
  <2>2. x \in Nat /\ buffer <= x /\ x <= buffer + length
    BY <1>1
  <2>3. ~(W <= x)
    BY <1>1, <2>1, <2>2
  <2>4. buffer <= First /\ First <= x
    BY <2>1, <2>2, <2>3, FirstAligned
  <2>5. QED
    BY <1>1, <1>2, <2>2, <2>4
<1>5. ASSUME buffer <= First, First <= buffer + length PROVE Reached
  <2>1. First \in buffer .. buffer + length
    BY <1>1, <1>2, <1>5
  <2>2. QED
    BY <1>2, <2>1 DEF Reached, W
<1>6. ASSUME buffer <= First, First <= buffer + length PROVE Room = length - (First - buffer)
  <2>1. Minus(First, buffer) = First - buffer
    BY <1>1, <1>2, <1>6, Words
  <2>2. First - buffer \in Nat /\ First - buffer <= length /\ length - (First - buffer) < W
    BY <1>1, <1>2, <1>6
  <2>3. QED
    BY <1>1, <2>1, <2>2, Words DEF Room
<1>7. QED
  BY <1>3, <1>4, <1>5, <1>6

(* Whole items of size s in a room of r bytes.                             *)
LEMMA WholeItems ==
  ASSUME NEW s \in Nat \ {0}, NEW r \in Nat, r >= s
  PROVE  /\ r \div s \in Nat /\ r \div s >= 1
         /\ (r \div s) * s <= r /\ r < (r \div s + 1) * s /\ s <= (r \div s) * s
<1> DEFINE n == r \div s
           m == r % s
<1>1. n \in Nat /\ m \in 0 .. s - 1 /\ r = n * s + m
  BY Division
<1> HIDE DEF n, m
<1>2. n # 0
  <2>1. CASE n = 0
    <3>1. r = m
      BY <1>1, <2>1
    <3>2. QED
      BY <1>1, <3>1
  <2>2. QED
    BY <2>1
<1>3. n >= 1
  BY <1>1, <1>2
<1>4. (n + 1) * s = n * s + s
  BY <1>1
<1>5. s <= n * s
  <2>1. PICK d \in Nat : n = d + 1
    <3>1. n - 1 \in Nat /\ n = (n - 1) + 1
      BY <1>1, <1>3
    <3>2. QED
      BY <3>1
  <2>2. n * s = d * s + s /\ d * s \in Nat
    BY <2>1
  <2>3. QED
    BY <2>2
<1>6. n * s \in Nat
  BY <1>1
<1>7. n * s <= r /\ r < n * s + s
  BY <1>1, <1>6
<1>8. QED
  BY <1>1, <1>3, <1>4, <1>5, <1>7 DEF n

LEMMA ItemsFit ==
  ASSUME Args, Placed
  PROVE  ItemsInBuffer
<1> SUFFICES ASSUME stage = "initialised"
             PROVE  /\ start % alignment = 0 /\ item_size % alignment = 0
                    /\ item_size >= wanted /\ NumItems >= 1
                    /\ Reached <=> start >= buffer /\ start + NumItems * item_size <= buffer + length
  BY DEF ItemsInBuffer
<1>1. /\ is_power_of_two(alignment) /\ alignment # 0 /\ Room >= Size
      /\ start = First /\ buf_len = Room /\ item_size = Size
  BY DEF Placed
<1>2. PICK s \in Nat \ {0} : s = Size /\ s % alignment = 0 /\ s >= wanted
  <2>1. Size \in Nat /\ wanted <= Size /\ Size % alignment = 0 /\ wanted \in Nat /\ wanted > 0
    BY <1>1, SizeRounds DEF Args, Placed, OnlyZerosFail
  <2>2. QED
    BY <2>1
<1>3. PICK r \in Nat : r = Room
  BY <1>1, RoomLeft
<1>4. PICK k \in Nat : k = NumItems /\ k >= 1 /\ k * s <= r /\ s <= k * s
  <2>1. r >= s
    BY <1>1, <1>2, <1>3
  <2>2. NumItems = r \div s
    BY <1>1, <1>2, <1>3 DEF NumItems
  <2>3. QED
    BY <2>1, <2>2, WholeItems
<1>5. PICK f \in Nat : f = First /\ f % alignment = 0
  BY <1>1, FirstAligned, Words
<1>6. PICK b \in Nat, n \in Nat : b = buffer /\ n = length
  BY DEF Args
<1>7. ASSUME Reached PROVE f >= b /\ f + k * s <= b + n
  <2>1. b <= f /\ f <= b + n /\ r = n - (f - b)
    BY <1>1, <1>3, <1>5, <1>6, <1>7, RoomLeft
  <2>2. k * s \in Nat /\ k * s <= r
    BY <1>4
  <2>3. QED
    BY <2>1, <2>2
<1>8. ASSUME f >= b, f + k * s <= b + n PROVE Reached
  <2>1. k * s \in Nat
    BY <1>4
  <2>2. b <= f /\ f <= b + n
    BY <1>8, <2>1
  <2>3. QED
    BY <1>1, <1>5, <1>6, <2>2, RoomLeft
<1>9. QED
  BY <1>1, <1>2, <1>4, <1>5, <1>6, <1>7, <1>8

LEMMA NoWaste ==
  ASSUME Args, Placed
  PROVE  NothingWasted
<1>1. PICK b \in Nat, n \in Nat, w \in Nat, a \in Nat :
         b = buffer /\ n = length /\ w = wanted /\ a = alignment /\ b + n <= W
  BY DEF Args
<1>2. ASSUME stage = "initialised", Reached
      PROVE  /\ start - buffer < alignment /\ item_size - wanted < alignment
             /\ start + (NumItems + 1) * item_size > buffer + length
  <2>1. /\ is_power_of_two(alignment) /\ alignment # 0 /\ Room >= Size
        /\ start = First /\ buf_len = Room /\ item_size = Size
    BY <1>2 DEF Placed
  <2>2. PICK s \in Nat \ {0} : s = Size /\ s < w + a
    <3>1. Size \in Nat /\ wanted <= Size /\ Size < wanted + alignment /\ wanted > 0
      BY <1>2, <2>1, SizeRounds DEF Args, Placed, OnlyZerosFail
    <3>2. QED
      BY <1>1, <3>1
  <2>3. PICK f \in Nat : f = First
    BY <2>1, FirstAligned, Words
  <2>4. PICK r \in Nat : r = Room /\ r = n - (f - b) /\ b <= f /\ f <= b + n
    BY <1>1, <1>2, <2>1, <2>3, RoomLeft
  <2>5. f < b + a
    <3>1. ~(f = 0 /\ b + a > W)
      BY <1>1, <2>4 DEF Args
    <3>2. QED
      BY <1>1, <2>1, <2>3, <3>1, FirstAligned
  <2>6. PICK k \in Nat : k = NumItems /\ r < (k + 1) * s
    <3>1. r >= s
      BY <2>1, <2>2, <2>4
    <3>2. NumItems = r \div s
      BY <2>1, <2>2, <2>4 DEF NumItems
    <3>3. QED
      BY <3>1, <3>2, WholeItems
  <2>7. f + (k + 1) * s > b + n
    <3>1. (k + 1) * s \in Nat
      OBVIOUS
    <3>2. QED
      BY <2>4, <2>6, <3>1
  <2>8. f - b < a /\ s - w < a
    BY <2>2, <2>5
  <2>9. QED
    BY <1>1, <2>1, <2>2, <2>3, <2>6, <2>7, <2>8
<1>3. ASSUME stage = "aborted", is_power_of_two(alignment),
             NEW p \in buffer .. buffer + length, NEW s \in wanted .. wanted + alignment,
             p % alignment = 0, s % alignment = 0
      PROVE  p + s > buffer + length
  <2>1. alignment # 0 /\ Room < Size
    BY <1>3 DEF Placed
  <2>2. PICK x \in Nat, y \in Nat : x = p /\ y = s /\ b <= x /\ x <= b + n /\ w <= y
    BY <1>1 DEF Args
  <2>3. Size \in Nat /\ Size <= y /\ y > 0
    <3>1. Size \in Nat /\ Size <= y
      BY <1>1, <1>3, <2>1, <2>2, SizeRounds
    <3>2. Room \in Nat
      BY <1>3, <2>1, RoomLeft
    <3>3. QED
      BY <2>1, <2>2, <3>1, <3>2
  <2>4. CASE x < W
    <3>1. Reached
      BY <1>3, <2>2, <2>4 DEF Reached, W
    <3>2. PICK f \in Nat : f = First /\ b <= f /\ f <= b + n /\ Room = n - (f - b)
      <4>1. First \in Nat
        BY <1>3, <2>1, FirstAligned, Words
      <4>2. QED
        BY <1>1, <1>3, <2>1, <3>1, <4>1, RoomLeft
    <3>3. f <= x
      <4>1. W \in Nat /\ ~(W <= x)
        BY <2>4, Words
      <4>2. QED
        BY <1>1, <1>3, <2>1, <2>2, <3>2, <4>1, FirstAligned
    <3>4. n - (f - b) < y
      BY <2>1, <2>3, <3>2
    <3>5. QED
      BY <1>1, <2>2, <3>2, <3>3, <3>4
  <2>5. CASE x >= W
    BY <1>1, <2>2, <2>3, <2>5, Words
  <2>6. QED
    BY <2>2, <2>4, <2>5, Words
<1>4. QED
  BY <1>2, <1>3 DEF NothingWasted
(* The link that the loop would write next.                                *)
LEMMA NextLink ==
  ASSUME Args, Chained, stage \in {"linking", "chained"}
  PROVE  LET p == newest + (LinkSize + item_size)
             next == Newer(newest) IN
         /\ Plus(buffer, length) = buffer + length
         /\ p \in Nat /\ LinkSize + item_size \in Nat /\ LinkSize + item_size > 0
         /\ LinkSize + item_size >= LinkSize + wanted
         /\ next \in Nat /\ p <= next /\ next % alignment = 0
         /\ p % alignment = 0 => next = p
<1>1. /\ is_power_of_two(alignment) /\ alignment # 0
      /\ newest \in Nat /\ newest < buffer + length + alignment
      /\ buffer + length + LinkSize + wanted + 3 * alignment < W
      /\ item_size = Size
  BY DEF Chained
<1>2. PICK b \in Nat, n \in Nat, w \in Nat, a \in Nat \ {0}, k \in Nat \ {0}, v \in Nat :
         b = buffer /\ n = length /\ w = wanted /\ a = alignment /\ k = LinkSize /\ v = newest
  BY <1>1, WidthAssumption DEF Args
<1>3. PICK s \in Nat : s = item_size /\ w <= s /\ s < w + a
  BY <1>1, <1>2, SizeRounds
<1>4. Divides(a)
  BY <1>1, <1>2, SizeRounds
<1>5. W \in Nat
  BY Words
<1> HIDE DEF W
<1>6. /\ v < b + n + a /\ b + n + k + w + 3 * a < W
      /\ v + s < W /\ v + s + k < W /\ v + s + k + a < W /\ b + n < W
  BY <1>1, <1>2, <1>3, <1>5
<1>7. Plus(b, n) = b + n
  BY <1>6, Words
<1>8. PICK p \in Nat : p = v + (k + s) /\ p + a < W
  <2>1. v + (k + s) \in Nat /\ v + (k + s) + a < W
    BY <1>5, <1>6
  <2>2. QED
    BY <2>1
<1>9. Plus(Plus(v, s), k) = p
  <2>1. Plus(v, s) = v + s
    BY <1>6, Words
  <2>2. v + s \in Nat /\ Plus(v + s, k) = (v + s) + k
    BY <1>6, Words
  <2>3. QED
    BY <1>8, <2>1, <2>2
<1>10. Newer(newest) = align_forward(p, a)
  BY <1>2, <1>3, <1>9 DEF Newer
<1>11. PICK f \in Nat : f = align_forward(p, a) /\ p <= f /\ f % a = 0
                       /\ \A x \in Nat : p <= x /\ x % a = 0 => f <= x
  <2>1. p \in 0 .. W - 1 /\ ~(p + a > W)
    BY <1>5, <1>8
  <2>2. align_forward(p, a) \in Nat
    BY <1>4, <1>5, <2>1, Forward
  <2>3. QED
    BY <1>4, <2>1, <2>2, Forward
<1>12. p % a = 0 => f = p
  BY <1>11
<1>13. QED
  BY <1>2, <1>3, <1>7, <1>8, <1>10, <1>11, <1>12

(* Once the loop has ended its links lie where they should.                *)
LEMMA LinksFit ==
  ASSUME Args, Chained
  PROVE  LinksInBuffer
<1> SUFFICES ASSUME stage = "chained" PROVE LinksInBuffer
  BY DEF LinksInBuffer
<1> DEFINE stride == LinkSize + item_size
           size == LinkSize + wanted
<1>1. /\ stride \in Nat /\ stride > 0 /\ size <= stride /\ size \in Nat
      /\ newest \in Nat /\ newest \in links /\ IsFiniteSet(links)
      /\ buffer \in Nat /\ length \in Nat
      /\ Newer(newest) >= buffer + length
  BY NextLink, WidthAssumption DEF Args, Chained
<1>2. \A p \in links : p \in Nat /\ p % alignment = 0 /\ buffer <= p /\ p <= newest
  BY DEF Chained
<1>3. \A p \in links : p # newest => newest < buffer + length
  BY DEF Chained
<1>4. \A p, q \in links : p < q => p + stride <= q
  BY DEF Chained
<1>5. buffer % alignment = 0 /\ stride % alignment = 0 =>
         newest = buffer + (Cardinality(links) - 1) * stride
  BY DEF Chained
<1>6. alignment \in Nat \ {0}
  BY SizeRounds DEF Chained
<1>7. buffer % alignment = 0 /\ stride % alignment = 0 =>
         Newer(newest) = newest + stride
  <2>1. (newest + stride) % alignment = 0 => Newer(newest) = newest + stride
    BY NextLink
  <2>2. stride % alignment = 0 => (newest + stride) % alignment = 0
    BY <1>1, <1>2, <1>6, Sum
  <2>3. QED
    BY <2>1, <2>2
<1> HIDE DEF stride, size
<1>8. ASSUME NEW p \in links, NEW q \in links, p < q PROVE p + size <= q
  BY <1>1, <1>2, <1>4, <1>8
<1>9. ASSUME NEW p \in links, p # newest PROVE p + size <= buffer + length
  <2>1. p < newest
    BY <1>1, <1>2, <1>9
  <2>2. p + size <= newest
    BY <1>1, <1>8, <2>1
  <2>3. QED
    BY <1>1, <1>2, <1>3, <1>9, <2>2
<1>10. ASSUME buffer % alignment = 0, stride % alignment = 0, length % stride = 0, length > 0
       PROVE  Cardinality(links) = length \div stride /\ newest + size <= buffer + length
  <2>1. PICK m \in Nat : Cardinality(links) = m + 1
    <3>1. Cardinality(links) \in Nat /\ Cardinality(links) # 0
      BY <1>1, FS_CardinalityType, FS_EmptySet
    <3>2. Cardinality(links) - 1 \in Nat /\ Cardinality(links) = (Cardinality(links) - 1) + 1
      BY <3>1
    <3>3. QED
      BY <3>2
  <2>2. PICK k \in Nat : k = length \div stride /\ length = k * stride
    <3>1. /\ length \div stride \in Nat
          /\ length = (length \div stride) * stride + (length % stride)
      <4>1. stride \in Nat \ {0}
        BY <1>1
      <4>2. QED
        BY <1>1, <4>1, Division
    <3>2. (length \div stride) * stride \in Nat
      BY <1>1, <3>1
    <3>3. QED
      BY <1>1, <1>10, <3>1, <3>2
  <2>3. newest = buffer + m * stride
    BY <1>5, <1>10, <2>1
  <2>4. newest < buffer + length
    <3>1. CASE links = {newest}
      <4>1. m = 0
        BY <1>1, <2>1, <3>1, FS_Singleton
      <4>2. newest = buffer
        BY <1>1, <2>3, <4>1
      <4>3. QED
        BY <1>1, <1>10, <4>2
    <3>2. CASE links # {newest}
      BY <1>1, <1>3, <3>2
    <3>3. QED
      BY <3>1, <3>2
  <2>5. m * stride < k * stride
    BY <1>1, <2>2, <2>3, <2>4
  <2>6. m * stride + stride <= k * stride
    BY <1>1, <2>5, NextMultiple
  <2>7. m * stride + stride >= k * stride
    <3>1. newest + stride >= buffer + length
      BY <1>1, <1>7, <1>10
    <3>2. QED
      BY <1>1, <2>2, <2>3, <3>1
  <2>8. k = m + 1
    <3>1. (m + 1) * stride = m * stride + stride
      BY <1>1
    <3>2. (m + 1) * stride = k * stride
      BY <1>1, <2>6, <2>7, <3>1
    <3>3. QED
      BY <1>1, <3>2, Cancel
  <2>9. newest + size <= buffer + length
    BY <1>1, <2>2, <2>3, <2>6
  <2>10. QED
    BY <2>1, <2>2, <2>8, <2>9
<1>11. \A p \in links : p % alignment = 0 /\ (p # newest => buffer <= p /\ p + size <= buffer + length)
  BY <1>2, <1>9
<1>12. buffer <= newest
  BY <1>1, <1>2
<1>13. QED
  BY <1>8, <1>10, <1>11, <1>12 DEF LinksInBuffer, stride, size
-----------------------------------------------------------------------------
LEMMA InitHolds == LayoutInit => IInv
<1> SUFFICES ASSUME LayoutInit PROVE IInv
  OBVIOUS
<1>1. stage = "called"
  BY DEF LayoutInit
<1>2. Args
  <2>1. W \in Nat
    BY Words
  <2>2. buffer \in 1 .. W - 1 /\ length \in Nat /\ buffer + length <= W
    BY <2>1 DEF LayoutInit, Word, W
  <2>3. QED
    BY <2>2 DEF LayoutInit, Args
<1>3. QED
  BY <1>1, <1>2 DEF IInv, Placed, Chained, OnlyZerosFail

LEMMA PlaceHolds ==
  ASSUME IInv, Place
  PROVE  IInv'
<1>1. /\ Args /\ UNCHANGED <<buffer, length, wanted, alignment, links, newest>>
      /\ is_power_of_two(alignment)
  BY DEF IInv, Place, args, chain
<1>2. Args'
  BY <1>1 DEF Args
<1>3. First' = First /\ Room' = Room /\ Size' = Size
  BY <1>1 DEF First, Room, Size
<1>4. \/ /\ Room >= Size /\ start' = First /\ buf_len' = Room /\ item_size' = Size
         /\ stage' = IF Size = 0 THEN "sizeless" ELSE "initialised"
      \/ Room < Size /\ stage' = "aborted"
  BY DEF Place, First, Room, Size
<1>5. alignment = 0 => Size = 0 /\ ~(Room < Size)
  <2> SUFFICES ASSUME alignment = 0 PROVE Size = 0 /\ ~(Room < Size)
    OBVIOUS
  <2>1. W \in Nat /\ wanted \in 0 .. W - 1 /\ buffer \in 0 .. W - 1 /\ length \in Nat
    BY <1>1, WidthAssumption, Words DEF Args, W
  <2>2. Size = 0 /\ First = 0
    BY <2>1, ForwardZero DEF Size, First
  <2>3. PICK d \in Nat : d = Minus(First, buffer)
    BY <2>1, <2>2, MinusWord
  <2>4. Minus(length, d) \in 0 .. W - 1
    BY <2>1, MinusWord
  <2>5. QED
    BY <2>1, <2>2, <2>3, <2>4 DEF Room
<1>6. alignment # 0 => (Size = 0 <=> wanted = 0)
  <2> SUFFICES ASSUME alignment # 0 PROVE Size = 0 <=> wanted = 0
    OBVIOUS
  <2>1. wanted \in Nat /\ Size \in Nat /\ wanted <= Size
    BY <1>1, SizeRounds DEF Args
  <2>2. wanted = 0 => Size = 0
    <3>1. 0 % alignment = 0
      BY <1>1 DEF Args
    <3>2. QED
      BY <2>1, <3>1 DEF Size, align_forward, Modulo
  <2>3. QED
    BY <2>1, <2>2
<1>7. Placed'
  BY <1>1, <1>3, <1>4, <1>5, <1>6 DEF Placed, OnlyZerosFail
<1>8. Chained'
  BY <1>4 DEF Chained
<1>9. QED
  BY <1>2, <1>7, <1>8 DEF IInv

(* The first link. *)
LEMMA PlaceChainHolds ==
  ASSUME IInv, PlaceChain
  PROVE  IInv'
<1>1. /\ Args /\ UNCHANGED <<buffer, length, wanted, alignment>>
      /\ is_power_of_two(alignment)
      /\ buffer + length + LinkSize + wanted + 3 * alignment < W
      /\ item_size' = Size /\ newest' = First /\ links' = {First}
      /\ stage' = IF First = 0 THEN "crashed" ELSE "linking"
  BY DEF IInv, PlaceChain, args, First, Size, W
<1>2. Args'
  BY <1>1 DEF Args
<1>3. Size' = Size
  BY <1>1 DEF Size
<1>4. CASE alignment = 0
  <2>1. buffer \in 0 .. W - 1
    BY <1>1, Words DEF Args
  <2>2. First = 0
    BY <1>4, <2>1, ForwardZero DEF First
  <2>3. QED
    BY <1>1, <1>2, <1>4, <2>2 DEF IInv, Placed, Chained, OnlyZerosFail
<1>5. CASE alignment # 0
  <2>1. PICK b \in Nat, n \in Nat, w \in Nat, a \in Nat, k \in Nat :
           b = buffer /\ n = length /\ w = wanted /\ a = alignment /\ k = LinkSize /\ b > 0
    BY <1>1, WidthAssumption DEF Args
  <2>2. ~(b + a > W)
    <3>1. W \in Nat /\ b + n + k + w + 3 * a < W
      BY <1>1, <2>1, Words
    <3>2. QED
      BY <3>1
  <2>3. PICK f \in Nat : f = First /\ f % a = 0 /\ b <= f /\ f < b + a
    <3>1. First \in Nat
      BY <1>1, <1>5, FirstAligned, Words
    <3>2. QED
      BY <1>1, <1>5, <2>1, <2>2, <3>1, FirstAligned
  <2>4. stage' = "linking"
    BY <1>1, <2>1, <2>3
  <2>5. Cardinality(links') = 1 /\ IsFiniteSet(links')
    BY <1>1, FS_Singleton
  <2>6. buffer % alignment = 0 =>
           newest' = buffer + (Cardinality(links') - 1) * (LinkSize + item_size')
    <3>1. PICK s \in Nat : s = LinkSize + item_size'
      BY <1>1, <1>5, <2>1, SizeRounds
    <3>2. b % a = 0 => f = b
      BY <1>5, <2>1, <2>3 DEF First, align_forward, Modulo
    <3>3. (1 - 1) * s = 0
      OBVIOUS
    <3>4. QED
      BY <1>1, <2>1, <2>3, <2>5, <3>1, <3>2, <3>3
  <2>7. f < b + n + a
    BY <2>3
  <2>8. Chained'
    BY <1>1, <1>3, <1>5, <2>1, <2>3, <2>4, <2>5, <2>6, <2>7 DEF Chained
  <2>9. Placed'
    BY <1>1, <1>5, <2>4 DEF Placed, OnlyZerosFail
  <2>10. QED
    BY <1>2, <2>8, <2>9 DEF IInv
<1>6. QED
  BY <1>4, <1>5
(* A turn of the loop. *)
LEMMA AddLinkHolds ==
  ASSUME IInv, AddLink
  PROVE  IInv'
<1>1. /\ Args /\ Chained /\ stage = "linking"
      /\ UNCHANGED <<buffer, length, wanted, alignment, item_size>>
  BY DEF IInv, AddLink, args
<1>2. Args'
  BY <1>1 DEF Args
<1>3. Size' = Size
  BY <1>1 DEF Size
<1>4. stage' \in {"linking", "chained"}
  BY <1>1 DEF AddLink
<1>5. Placed'
  BY <1>1, <1>4 DEF Placed, Chained, OnlyZerosFail
<1> DEFINE next == Newer(newest)
           stride == LinkSize + item_size
<1>6. /\ Plus(buffer, length) = buffer + length
      /\ newest + stride \in Nat /\ stride \in Nat /\ stride > 0
      /\ next \in Nat /\ newest + stride <= next /\ next % alignment = 0
      /\ (newest + stride) % alignment = 0 => next = newest + stride
  BY <1>1, NextLink
<1>7. /\ is_power_of_two(alignment) /\ alignment # 0
      /\ buffer + length + LinkSize + wanted + 3 * alignment < W
      /\ item_size = Size
      /\ newest \in links /\ IsFiniteSet(links)
      /\ newest < buffer + length + alignment
  BY <1>1 DEF Chained
<1>8. \A p \in links : p \in Nat /\ p % alignment = 0 /\ buffer <= p /\ p <= newest
  BY <1>1 DEF Chained
<1>9. \A p \in links : p # newest => newest < buffer + length
  BY <1>1 DEF Chained
<1>10. \A p, q \in links : p < q => p + stride <= q
  BY <1>1 DEF Chained
<1>11. buffer % alignment = 0 /\ stride % alignment = 0 =>
          newest = buffer + (Cardinality(links) - 1) * stride
  BY <1>1 DEF Chained
<1>12. buffer \in Nat /\ length \in Nat /\ alignment \in Nat \ {0} /\ newest \in Nat
  BY <1>1, <1>7, <1>8 DEF Args
<1>13. CASE PastEnd(next)
  <2>1. stage' = "chained" /\ UNCHANGED <<links, newest>>
    BY <1>13 DEF AddLink, chain
  <2>2. next >= buffer + length
    BY <1>6, <1>13 DEF PastEnd
  <2>3. Newer(newest)' = next
    BY <1>1, <2>1 DEF Newer
  <2> HIDE DEF next
  <2>4. Chained'
    BY <1>1, <1>3, <1>7, <1>8, <1>9, <1>10, <1>11, <2>1, <2>2, <2>3 DEF Chained
  <2>5. QED
    BY <1>2, <1>5, <2>4 DEF IInv
<1>14. CASE ~PastEnd(next)
  <2>1. stage' = "linking" /\ newest' = next /\ links' = links \cup {next}
    BY <1>1, <1>14 DEF AddLink
  <2>2. next < buffer + length
    BY <1>6, <1>12, <1>14 DEF PastEnd
  <2>3. item_size' = item_size
    BY <1>1
  <2> HIDE DEF next, stride
  <2>4. newest < next
    BY <1>6, <1>12
  <2>5. next \notin links
    BY <1>6, <1>8, <1>12, <2>4
  <2>6. ASSUME NEW p \in links'
        PROVE  p \in Nat /\ p % alignment = 0 /\ buffer <= p /\ p <= next
    <3>1. buffer <= newest
      BY <1>7, <1>8
    <3>2. CASE p \in links
      <4>1. p \in Nat /\ p % alignment = 0 /\ buffer <= p /\ p <= newest
        BY <1>8, <3>2
      <4>2. QED
        BY <1>6, <1>12, <2>4, <4>1
    <3>3. CASE p = next
      BY <1>6, <1>12, <2>4, <3>1, <3>3
    <3>4. QED
      BY <2>1, <3>2, <3>3
  <2>7. ASSUME NEW p \in links', NEW q \in links', p < q PROVE p + stride <= q
    <3>1. p \in Nat /\ q \in Nat /\ p <= next /\ q <= next
      BY <2>6
    <3>2. p # next
      BY <1>6, <2>7, <3>1
    <3>3. p \in links /\ p <= newest
      BY <1>8, <2>1, <3>2
    <3>4. CASE q \in links
      BY <1>10, <2>7, <3>3, <3>4
    <3>5. CASE q = next
      BY <1>6, <1>12, <3>1, <3>3, <3>5
    <3>6. QED
      BY <2>1, <3>4, <3>5
  <2>8. IsFiniteSet(links') /\ Cardinality(links') = Cardinality(links) + 1
    BY <1>7, <2>1, <2>5, FS_AddElement
  <2>9. ASSUME buffer % alignment = 0, stride % alignment = 0
        PROVE  next = buffer + (Cardinality(links') - 1) * stride
    <3>1. PICK n \in Nat : n = Cardinality(links)
      BY <1>7, FS_CardinalityType
    <3>2. newest = buffer + (n - 1) * stride
      BY <1>11, <2>9, <3>1
    <3>3. (newest + stride) % alignment = 0
      <4>1. newest % alignment = 0
        BY <1>7, <1>8
      <4>2. QED
        BY <1>6, <1>12, <2>9, <4>1, Sum
    <3>4. next = newest + stride
      BY <1>6, <3>3
    <3>5. (n - 1) * stride + stride = ((n + 1) - 1) * stride
      BY <1>6, Turn
    <3>6. (n - 1) * stride \in Int
      BY <1>6
    <3>7. QED
      BY <1>6, <1>12, <2>8, <3>1, <3>2, <3>4, <3>5, <3>6
  <2>10. next < buffer + length + alignment
    BY <1>6, <1>12, <2>2
  <2>11. stride' = stride
    BY <2>3 DEF stride
  <2>12. next \in links'
    BY <2>1
  <2>13. Chained'
    BY <1>1, <1>3, <1>7, <2>1, <2>2, <2>3, <2>6, <2>7, <2>8, <2>9, <2>10, <2>12
    DEF Chained, stride
  <2>14. QED
    BY <1>2, <1>5, <2>13 DEF IInv
<1>15. QED
  BY <1>13, <1>14

LEMMA Invariance == IInv /\ [LayoutNext]_layoutVars => IInv'
<1> SUFFICES ASSUME IInv, [LayoutNext]_layoutVars PROVE IInv'
  OBVIOUS
<1>1. CASE Misaligned
  <2>1. stage' = "aborted" /\ ~is_power_of_two(alignment)
        /\ UNCHANGED <<buffer, length, wanted, alignment>>
    BY <1>1 DEF Misaligned, args
  <2>2. QED
    BY <2>1 DEF IInv, Args, Placed, Chained, OnlyZerosFail
<1>2. CASE Place
  BY <1>2, PlaceHolds
<1>3. CASE PlaceChain
  BY <1>3, PlaceChainHolds
<1>4. CASE AddLink
  BY <1>4, AddLinkHolds
<1>5. CASE UNCHANGED layoutVars
  BY <1>5 DEF layoutVars, args, fields, chain, IInv, Args, Placed, Chained, OnlyZerosFail,
              First, Room, Size, Newer
<1>6. QED
  BY <1>1, <1>2, <1>3, <1>4, <1>5 DEF LayoutNext

LEMMA AlwaysIInv == LayoutSpec => []IInv
BY InitHolds, Invariance, PTL DEF LayoutSpec

-----------------------------------------------------------------------------
(* For words of every width: the items of a container are aligned and lie  *)
(* in the client's buffer exactly if that reaches an aligned address.      *)
THEOREM ItemsInBufferCorrect == LayoutSpec => []ItemsInBuffer
<1>1. IInv => ItemsInBuffer
  BY ItemsFit DEF IInv
<1>2. QED
  BY <1>1, AlwaysIInv, PTL

(* No buffer is turned away in which an item fits, and no room is lost but *)
(* to alignment.                                                           *)
THEOREM NothingWastedCorrect == LayoutSpec => []NothingWasted
<1>1. IInv => NothingWasted
  BY NoWaste DEF IInv
<1>2. QED
  BY <1>1, AlwaysIInv, PTL

(* The links of a swap chain are aligned, apart and in the buffer.         *)
THEOREM LinksInBufferCorrect == LayoutSpec => []LinksInBuffer
<1>1. IInv => LinksInBuffer
  BY LinksFit DEF IInv
<1>2. QED
  BY <1>1, AlwaysIInv, PTL

(* Only an item of size 0 or an alignment of 0 leaves a container with     *)
(* items of size 0, and only the latter has a link written at NULL.        *)
THEOREM OnlyZerosFailCorrect == LayoutSpec => []OnlyZerosFail
<1>1. IInv => OnlyZerosFail
  BY DEF IInv, Placed
<1>2. QED
  BY <1>1, AlwaysIInv, PTL
=============================================================================
