--------------------------- MODULE FreelistProofs ---------------------------
(***************************************************************************)
(* For any number of users, any buffer and any item size, the list of the  *)
(* free list runs through exactly the free items, and the calls implement  *)
(* the allocator.                                                          *)
(***************************************************************************)
EXTENDS Freelist, FiniteSetTheorems, TLAPS

-----------------------------------------------------------------------------
(* A buffer that is as long as an item holds one at least. *)
LEMMA SomeItems == NumItems \in Nat \ {0}
<1>1. \A x \in Nat, d \in Nat \ {0} : x >= d => x \div d \in Nat \ {0}
  OBVIOUS
<1> QED
  BY <1>1, SizesAssumption DEF NumItems

(* The free items are those nobody holds. *)
LEMMA FreeItems == Free = {x \in Items : \A u \in Users : x \notin held[u]}
  BY DEF Free

-----------------------------------------------------------------------------
(* s is the list: n items, all the free ones and each once, from first on, *)
(* each linked to the next one and the last one to NULL.                   *)
IsList(n, s) ==
  /\ s \in [1 .. n -> Free]
  /\ \A i, j \in 1 .. n : s[i] = s[j] => i = j
  /\ \A x \in Free : \E i \in 1 .. n : s[i] = x
  /\ first = IF n = 0 THEN NULL ELSE s[1]
  /\ \A i \in 1 .. n : word[s[i]] = IF i = n THEN NULL ELSE s[i + 1]

Listed == \E n \in Nat : \E s : IsList(n, s)

(* No two users hold the same item. *)
HeldApart == \A u, v \in Users : u # v => held[u] \cap held[v] = {}

IInv ==
  /\ word \in [Items -> Items \cup {NULL, Data}]
  /\ held \in [Users -> SUBSET Items]
  /\ answer \in [Users -> Items \cup {NULL}]
  /\ HeldApart
  /\ Listed

-----------------------------------------------------------------------------
(* What a get takes is not free any more, and what is released is. *)
LEMMA TakenIsHeld ==
  ASSUME held \in [Users -> SUBSET Items], NEW u \in Users, NEW x \in Free,
         held' = [held EXCEPT ![u] = @ \cup {x}]
  PROVE  Free' = Free \ {x}
  BY FreeItems DEF Free

LEMMA ReleasedIsFree ==
  ASSUME held \in [Users -> SUBSET Items], HeldApart, NEW u \in Users, NEW x \in held[u],
         held' = [held EXCEPT ![u] = @ \ {x}]
  PROVE  Free' = Free \cup {x}
<1>1. \A v \in Users : held'[v] = IF v = u THEN held[u] \ {x} ELSE held[v]
  OBVIOUS
<1>2. \A v \in Users : v # u => x \notin held[v]
  BY DEF HeldApart
<1>3. Free' = {y \in Items : \A v \in Users : y \notin held'[v]}
  BY DEF Free
<1> QED
  BY <1>1, <1>2, <1>3, FreeItems

(* The list is never longer than it should be: it ends with first = NULL   *)
(* exactly if no item is free.                                             *)
LEMMA EmptyList ==
  ASSUME Listed
  PROVE  /\ first = NULL => Free = {}
         /\ first # NULL => first \in Free
<1>0. PICK n \in Nat : \E s : IsList(n, s)
  BY DEF Listed
<1>1. PICK s : IsList(n, s)
  BY <1>0
<1>2. NULL \notin Free
  BY NullAssumption, SomeItems DEF Free, Items
<1>3. CASE n = 0
  BY <1>1, <1>3 DEF IsList
<1>4. CASE n # 0
  <2>1. 1 \in 1 .. n
    BY <1>4
  <2> QED
    BY <1>1, <1>2, <1>4, <2>1 DEF IsList
<1> QED
  BY <1>3, <1>4

-----------------------------------------------------------------------------
(* freelist_init links the items in the order of their addresses. *)
LEMMA InitListed == Init => IInv
<1> SUFFICES ASSUME Init PROVE IInv
  OBVIOUS
<1> USE SomeItems
<1>1. Free = Items
  BY FreeItems DEF Init, InitOver
<1>2. \A i \in Items : word[i] = IF i = NumItems - 1 THEN NULL ELSE i + 1
  BY DEF Init, InitOver, Cleared, Items
<1>3. word \in [Items -> Items \cup {NULL, Data}]
  BY DEF Init, InitOver, Cleared, Items
<1>4. IsList(NumItems, [i \in 1 .. NumItems |-> i - 1])
  <2> DEFINE s == [i \in 1 .. NumItems |-> i - 1]
  <2>1. s \in [1 .. NumItems -> Free]
    BY <1>1 DEF Items
  <2>2. \A x \in Free : x + 1 \in 1 .. NumItems /\ s[x + 1] = x
    BY <1>1 DEF Items
  <2>3. first = s[1]
    BY DEF Init, InitOver
  <2>4. \A i \in 1 .. NumItems : word[s[i]] = IF i = NumItems THEN NULL ELSE s[i + 1]
    BY <1>2 DEF Items
  <2>5. \A i, j \in 1 .. NumItems : s[i] = s[j] => i = j
    OBVIOUS
  <2> HIDE DEF s
  <2>6. IsList(NumItems, s)
    BY <2>1, <2>2, <2>3, <2>4, <2>5 DEF IsList
  <2> QED
    BY <2>6 DEF s
<1>5. Listed
  BY <1>4 DEF Listed
<1>6. HeldApart
  BY DEF Init, InitOver, HeldApart
<1> QED
  BY <1>3, <1>5, <1>6 DEF IInv, Init, InitOver

(* A get takes the head off the list. *)
LEMMA GetListed ==
  ASSUME IInv, NEW u \in Users, first # NULL, Get(u)
  PROVE  Listed'
<1>0. PICK n \in Nat : \E s : IsList(n, s)
  BY DEF IInv, Listed
<1>1. PICK s : IsList(n, s)
  BY <1>0
<1>2. first \in Free
  BY EmptyList DEF IInv
<1>3. n # 0 /\ first = s[1] /\ n - 1 \in Nat
  BY <1>1 DEF IsList
<1>4. first' = word[first] /\ word' = word /\ Free' = Free \ {first}
  BY <1>2, TakenIsHeld DEF Get, AfterFirst, IInv
<1> DEFINE m == n - 1
           t == [i \in 1 .. m |-> s[i + 1]]
<1>5. \A i \in 1 .. m : i + 1 \in 1 .. n /\ t[i] = s[i + 1] /\ s[i + 1] # s[1]
  BY <1>1, <1>3 DEF IsList
<1>6. t \in [1 .. m -> Free']
  BY <1>1, <1>3, <1>4, <1>5 DEF IsList
<1>7. \A i, j \in 1 .. m : t[i] = t[j] => i = j
  BY <1>1, <1>5 DEF IsList
<1>8. \A x \in Free' : \E i \in 1 .. m : t[i] = x
  <2> SUFFICES ASSUME NEW x \in Free' PROVE \E i \in 1 .. m : t[i] = x
    OBVIOUS
  <2>1. PICK j \in 1 .. n : s[j] = x
    BY <1>1, <1>4 DEF IsList
  <2>2. j - 1 \in 1 .. m /\ t[j - 1] = x
    BY <2>1, <1>3, <1>4
  <2> QED
    BY <2>2
<1>9. first' = IF m = 0 THEN NULL ELSE t[1]
  BY <1>1, <1>3, <1>4 DEF IsList
<1>10. \A i \in 1 .. m : word'[t[i]] = IF i = m THEN NULL ELSE t[i + 1]
  BY <1>1, <1>3, <1>4, <1>5 DEF IsList
<1> HIDE DEF t
<1>11. IsList(m, t)'
  BY <1>6, <1>7, <1>8, <1>9, <1>10 DEF IsList
<1> QED
  BY <1>3, <1>11 DEF Listed

(* A release puts its item before the list. *)
LEMMA RelListed ==
  ASSUME IInv, NEW u \in Users, NEW x \in Items, Rel(u, x)
  PROVE  Listed'
<1>0. PICK n \in Nat : \E s : IsList(n, s)
  BY DEF IInv, Listed
<1>1. PICK s : IsList(n, s)
  BY <1>0
<1>2. x \notin Free /\ Free' = Free \cup {x}
  BY FreeItems, ReleasedIsFree DEF Rel, IInv
<1>3. first' = x /\ word' = [word EXCEPT ![x] = first]
  BY DEF Rel, Linked
<1> DEFINE m == n + 1
           t == [i \in 1 .. m |-> IF i = 1 THEN x ELSE s[i - 1]]
<1>4. \A i \in 1 .. m : i # 1 => i - 1 \in 1 .. n /\ s[i - 1] \in Free
  BY <1>1 DEF IsList
<1>5. t \in [1 .. m -> Free']
  BY <1>2, <1>4
<1>6. \A i, j \in 1 .. m : t[i] = t[j] => i = j
  BY <1>1, <1>2, <1>4 DEF IsList
<1>7. \A y \in Free' : \E i \in 1 .. m : t[i] = y
  <2> SUFFICES ASSUME NEW y \in Free' PROVE \E i \in 1 .. m : t[i] = y
    OBVIOUS
  <2>1. CASE y = x
    BY <2>1
  <2>2. CASE y # x
    <3>1. PICK j \in 1 .. n : s[j] = y
      BY <1>1, <1>2, <2>2 DEF IsList
    <3>2. j + 1 \in 1 .. m /\ t[j + 1] = y
      BY <3>1
    <3> QED
      BY <3>2
  <2> QED
    BY <2>1, <2>2
<1>8. \A i \in 1 .. m : word'[t[i]] = IF i = m THEN NULL ELSE t[i + 1]
  <2> SUFFICES ASSUME NEW i \in 1 .. m
               PROVE  word'[t[i]] = IF i = m THEN NULL ELSE t[i + 1]
    OBVIOUS
  <2>1. CASE i = 1
    <3>1. word'[x] = first
      BY <1>3 DEF IInv
    <3> QED
      BY <2>1, <3>1, <1>1 DEF IsList
  <2>2. CASE i # 1
    <3>1. t[i] = s[i - 1] /\ i - 1 \in 1 .. n /\ s[i - 1] \in Free
      BY <2>2, <1>4
    <3>2. word'[t[i]] = word[s[i - 1]]
      BY <3>1, <1>2, <1>3 DEF IInv, Free
    <3> QED
      BY <2>2, <3>1, <3>2, <1>1 DEF IsList
  <2> QED
    BY <2>1, <2>2
<1>9. first' = IF m = 0 THEN NULL ELSE t[1]
  BY <1>3
<1> HIDE DEF t
<1>10. IsList(m, t)'
  BY <1>5, <1>6, <1>7, <1>8, <1>9 DEF IsList
<1> QED
  BY <1>10 DEF Listed

(* What a client writes into an item it holds is not on the list. *)
LEMMA UseListed ==
  ASSUME IInv, NEW u \in Users, NEW x \in Items, Use(u, x)
  PROVE  Listed'
<1>0. PICK n \in Nat : \E s : IsList(n, s)
  BY DEF IInv, Listed
<1>1. PICK s : IsList(n, s)
  BY <1>0
<1>2. x \notin Free /\ Free' = Free /\ first' = first
  BY FreeItems DEF Use, Free
<1>3. \A y \in Free : word'[y] = word[y]
  BY <1>2 DEF Use, IInv, Free
<1>4. IsList(n, s)'
  BY <1>1, <1>2, <1>3 DEF IsList
<1> QED
  BY <1>4 DEF Listed

(* Every step keeps the list whole, and every item with one user at most. *)
LEMMA StepListed == IInv /\ [Next]_vars => IInv'
<1> SUFFICES ASSUME IInv, [Next]_vars PROVE IInv'
  OBVIOUS
<1>1. ASSUME NEW u \in Users, first # NULL, Get(u) PROVE IInv'
  <2>1. first \in Free /\ first \in Items
    BY <1>1, EmptyList, FreeItems DEF IInv
  <2>2. /\ held' = [held EXCEPT ![u] = @ \cup {first}]
        /\ answer' = [answer EXCEPT ![u] = first] /\ word' = word
    BY <1>1 DEF Get
  <2>3. HeldApart'
    BY <2>1, <2>2, FreeItems DEF HeldApart, IInv
  <2> QED
    BY <1>1, <2>1, <2>2, <2>3, GetListed DEF IInv
<1>2. ASSUME NEW u \in Users, first = NULL, Get(u) PROVE IInv'
  <2>1. /\ answer' = [answer EXCEPT ![u] = NULL]
        /\ UNCHANGED <<first, word, held>>
    BY <1>2 DEF Get
  <2> QED
    BY <2>1 DEF IInv, HeldApart, Listed, IsList, Free
<1>3. ASSUME NEW u \in Users, NEW x \in Items, Use(u, x) PROVE IInv'
  BY <1>3, UseListed DEF IInv, HeldApart, Use
<1>4. ASSUME NEW u \in Users, NEW x \in Items, Rel(u, x) PROVE IInv'
  <2>1. first \in Items \cup {NULL}
    BY EmptyList, FreeItems DEF IInv
  <2>2. word' \in [Items -> Items \cup {NULL, Data}]
    BY <1>4, <2>1 DEF Rel, Linked, IInv
  <2>3. held' \in [Users -> SUBSET Items] /\ HeldApart'
    BY <1>4 DEF Rel, IInv, HeldApart
  <2> QED
    BY <1>4, <2>2, <2>3, RelListed DEF Rel, IInv
<1>5. CASE UNCHANGED vars
  BY <1>5 DEF vars, IInv, HeldApart, Listed, IsList, Free
<1> QED
  BY <1>1, <1>2, <1>3, <1>4, <1>5 DEF Next

LEMMA Inductive == Spec => []IInv
  BY InitListed, StepListed, PTL DEF Spec

-----------------------------------------------------------------------------
(* Every pointer of the list is NULL or an item, whatever the clients have *)
(* written into the items they hold.                                       *)
THEOREM TypeCorrect == Spec => []TypeOK
<1>1. IInv => TypeOK
  BY EmptyList, FreeItems DEF IInv, TypeOK
<1> QED
  BY <1>1, Inductive, PTL

(* The list that freelist_init links, and that get and rel change at its   *)
(* head, runs through exactly the free items, each once.                   *)
THEOREM ListCorrect == Spec => []ListOK
<1>1. IInv => ListOK
  <2> SUFFICES ASSUME IInv PROVE ListOK
    OBVIOUS
  <2>0. PICK n \in Nat : \E s : IsList(n, s)
    BY DEF IInv, Listed
<2>1. PICK s : IsList(n, s)
    BY <2>0
  <2>2. s \in Bijection(1 .. n, Free)
    BY <2>1 DEF IsList, Bijection, Injection, Surjection, IsInjective
  <2>3. Cardinality(Free) = n
    <3>1. IsFiniteSet(1 .. n) /\ Cardinality(1 .. n) = n
      BY FS_Interval
    <3>2. ExistsBijection(1 .. n, Free)
      BY <2>2 DEF ExistsBijection
    <3> QED
      BY <3>1, <3>2, FS_Bijection
  <2> QED
    BY <2>1, <2>3 DEF ListOK, IsList
<1> QED
  BY <1>1, Inductive, PTL

(* The free list implements the allocator: a get hands out an item that    *)
(* nobody has, and comes back empty-handed only when none is left.         *)
THEOREM Refinement == Spec => AllocatorSpec
<1>1. Init => A!Init
  BY DEF Init, InitOver, A!Init
<1>2. IInv /\ [Next]_vars => [A!Next]_A!vars
  <2> SUFFICES ASSUME IInv, [Next]_vars PROVE A!Next \/ UNCHANGED A!vars
    OBVIOUS
  <2>1. A!Free = Free
    BY DEF A!Free, Free
  <2>2. ASSUME NEW u \in Users, first # NULL, Get(u) PROVE A!Get(u)
    BY <2>1, <2>2, EmptyList DEF Get, A!Get, IInv
  <2>3. ASSUME NEW u \in Users, first = NULL, Get(u) PROVE A!GetNothing(u)
    BY <2>1, <2>3, EmptyList DEF Get, A!GetNothing, IInv
  <2>4. ASSUME NEW u \in Users, NEW x \in Items, Use(u, x) PROVE UNCHANGED A!vars
    BY <2>4 DEF Use, A!vars
  <2>5. ASSUME NEW u \in Users, NEW x \in Items, Rel(u, x) PROVE A!Rel(u, x)
    BY <2>5 DEF Rel, A!Rel
  <2>6. CASE UNCHANGED vars
    BY <2>6 DEF vars, A!vars
  <2> QED
    BY <2>2, <2>3, <2>4, <2>5, <2>6 DEF Next, A!Next
<1> QED
  BY <1>1, <1>2, Inductive, PTL DEF Spec, AllocatorSpec, A!Spec

(* Every item that is handed out begins in the buffer, and it ends there   *)
(* unless it is the last one and the buffer no whole number of items.      *)
THEOREM ItemsFitCorrect == Spec => []ItemsFit
<1>1. PICK b \in Nat, d \in Nat \ {0} : b = BufLen /\ d = ItemSize
  BY SizesAssumption
<1>2. ASSUME NEW i \in Items
      PROVE  /\ i * d < b
             /\ (i + 1) * d > b => i = b \div d /\ b % d # 0
  <2>1. PICK n \in Nat : n = (b + d - 1) \div d /\ n * d <= b + d - 1
    <3>1. b + d - 1 \in Nat
      OBVIOUS
    <3>2. \A x \in Nat : x \div d \in Nat /\ (x \div d) * d <= x
      OBVIOUS
    <3> QED
      BY <3>1, <3>2
  <2>2. i \in Nat /\ i + 1 <= n
    BY <1>1, <2>1 DEF Items, NumItems
  <2>3. (i + 1) * d <= n * d
    BY <2>2
  <2>4. (i + 1) * d = i * d + d /\ i * d \in Nat
    BY <2>2
  <2>5. i * d < b
    BY <2>1, <2>3, <2>4
  <2>6. ASSUME (i + 1) * d > b PROVE i = b \div d /\ b % d # 0
    <3>1. PICK r \in 0 .. d - 1 : b = i * d + r /\ r # 0
      <4>1. b - i * d \in 1 .. d - 1 /\ b = i * d + (b - i * d)
        BY <2>4, <2>5, <2>6
      <4>2. b - i * d \in 0 .. d - 1 /\ b - i * d # 0
        BY <2>4, <4>1
      <4> QED
        BY <4>1, <4>2
    <3>2. (i * d + r) \div d = i /\ (i * d + r) % d = r
      BY <2>2, <3>1
    <3> QED
      BY <3>1, <3>2
  <2> QED
    BY <2>5, <2>6
<1>3. IInv => ItemsFit
  BY <1>1, <1>2 DEF IInv, ItemsFit
<1> QED
  BY <1>3, Inductive, PTL
=============================================================================
