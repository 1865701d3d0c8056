---------------------------- MODULE HashmapProofs ---------------------------
(***************************************************************************)
(* Proofs about Hashmap: its lists of nodes stay apart, whatever the hash  *)
(* function and the number of nodes, and implement the partial map Dict.   *)
(*                                                                         *)
(* The code follows pointers; the invariant says of each node which list   *)
(* it is on, and at which place.  From that and by induction, the walks    *)
(* down a list are shown to come by all of its nodes, in their order, and  *)
(* every call to move the nodes from one list to another.                  *)
(***************************************************************************)
EXTENDS Hashmap, TLAPS, FiniteSetTheorems, NaturalsInduction, WellFoundedInduction

-----------------------------------------------------------------------------
(* Induction over the naturals, about the members of a set: what the walks *)
(* down a chain compute is proved with it.                                 *)
LEMMA LessWellFounded == IsWellFoundedOn({p \in Nat \X Nat : p[1] < p[2]}, Nat)
<1>1. OpToRel(<, Nat) = {p \in Nat \X Nat : p[1] < p[2]}
  BY DEF OpToRel
<1>2. QED
  BY <1>1, NatLessThanWellFounded

LEMMA SetInduction ==
  ASSUME NEW S, 0 \in S, \A n \in Nat : n \in S => n + 1 \in S
  PROVE  \A n \in Nat : n \in S
<1> SUFFICES ASSUME Nat \ S # {} PROVE FALSE
  OBVIOUS
<1>1. PICK x \in Nat \ S : \A y \in Nat \ S : <<y, x>> \notin {p \in Nat \X Nat : p[1] < p[2]}
  BY LessWellFounded, WFMin
<1>2. x # 0 /\ x - 1 \in Nat
  BY <1>1
<1>3. x - 1 \notin S
  <2>1. (x - 1) + 1 = x
    BY <1>1
  <2>2. QED
    BY <1>1, <1>2, <2>1
<1>4. <<x - 1, x>> \in {p \in Nat \X Nat : p[1] < p[2]}
  BY <1>1, <1>2
<1>5. QED
  BY <1>1, <1>2, <1>3, <1>4

(* f takes the step g, from a, m times. *)
Iterates(f, g, a, m) == f[0] = a /\ \A i \in 1 .. m : f[i] = g[f[i - 1]]

LEMMA IterationExists ==
  ASSUME NEW S, NEW a \in S, NEW g \in [S -> S]
  PROVE  \A m \in Nat : \E f \in [0 .. m -> S] : Iterates(f, g, a, m)
<1> USE DEF Iterates
<1> DEFINE Exists(m) == \E f \in [0 .. m -> S] : Iterates(f, g, a, m)
           Good == {m \in Nat : Exists(m)}
<1>1. 0 \in Good
  <2> DEFINE f == [i \in 0 .. 0 |-> a]
  <2>1. f \in [0 .. 0 -> S] /\ f[0] = a /\ 1 .. 0 = {}
    OBVIOUS
  <2>2. QED
    BY <2>1
<1>2. ASSUME NEW m \in Nat, m \in Good PROVE m + 1 \in Good
  <2>1. PICK h \in [0 .. m -> S] : h[0] = a /\ \A i \in 1 .. m : h[i] = g[h[i - 1]]
    BY <1>2
  <2> DEFINE f == [i \in 0 .. m + 1 |-> IF i <= m THEN h[i] ELSE g[h[m]]]
  <2>2. f \in [0 .. m + 1 -> S] /\ f[0] = a
    BY <2>1
  <2>3. ASSUME NEW i \in 1 .. m + 1 PROVE f[i] = g[f[i - 1]]
    <3>1. CASE i \in 1 .. m
      BY <2>1, <3>1
    <3>2. CASE i = m + 1
      <4>1. f[i] = g[h[m]] /\ i - 1 = m /\ f[m] = h[m]
        BY <3>2
      <4>2. QED
        BY <4>1
    <3>3. QED
      BY <3>1, <3>2
  <2> HIDE DEF f
  <2>4. Exists(m + 1)
    BY <2>2, <2>3
  <2> HIDE DEF Exists
  <2>5. QED
    BY <2>4
<1> HIDE DEF Good
<1>3. \A m \in Nat : m \in Good
  BY <1>1, <1>2, SetInduction
<1>4. QED
  BY <1>3 DEF Good

-----------------------------------------------------------------------------
(* A walk down the chain of k takes one step after the other, among nodes  *)
(* that link to no others.                                                 *)
LEMMA WalkIn ==
  ASSUME NEW k \in Keys, NEW C,
         hash_node_ptr_array[Hash[k]] \in Maybe(C), \A n \in C : next[n] \in Maybe(C)
  PROVE  /\ Walk(k) \in [0 .. NodeCount -> Maybe(C)]
         /\ Walk(k)[0] = hash_node_ptr_array[Hash[k]]
         /\ \A i \in 0 .. NodeCount - 1 :
              Walk(k)[i + 1] = IF Stops(k, Walk(k)[i]) THEN Walk(k)[i] ELSE next[Walk(k)[i]]
<1> DEFINE a == hash_node_ptr_array[Hash[k]]
           g == [n \in Maybe(C) |-> IF Stops(k, n) THEN n ELSE next[n]]
<1>1. a \in Maybe(C)
  OBVIOUS
<1>2. g \in [Maybe(C) -> Maybe(C)]
  BY DEF Stops, Maybe
<1>3. PICK f \in [0 .. NodeCount -> Maybe(C)] :
        f[0] = a /\ \A i \in 1 .. NodeCount : f[i] = g[f[i - 1]]
  <2> DEFINE S == Maybe(C)
  <2> HIDE DEF a, g, S
  <2>1. a \in S /\ g \in [S -> S]
    BY <1>1, <1>2 DEF S
  <2>2. \A m \in Nat : \E f \in [0 .. m -> S] : Iterates(f, g, a, m)
    BY <2>1, IterationExists
  <2>3. QED
    BY <2>2, CountsAssumption DEF S, Iterates
<1>4. f = [i \in 0 .. NodeCount |->
             IF i = 0 THEN hash_node_ptr_array[Hash[k]]
             ELSE LET n == f[i - 1] IN IF Stops(k, n) THEN n ELSE next[n]]
  <2>1. \A i \in 1 .. NodeCount : i - 1 \in 0 .. NodeCount /\ f[i - 1] \in Maybe(C)
    BY CountsAssumption
  <2>2. \A i \in 1 .. NodeCount :
           f[i] = IF Stops(k, f[i - 1]) THEN f[i - 1] ELSE next[f[i - 1]]
    BY <1>3, <2>1
  <2>3. QED
    BY <1>3, <2>2
<1>5. Walk(k) = [i \in 0 .. NodeCount |->
             IF i = 0 THEN hash_node_ptr_array[Hash[k]]
             ELSE LET n == Walk(k)[i - 1] IN IF Stops(k, n) THEN n ELSE next[n]]
  BY <1>4 DEF Walk
<1> DEFINE w == Walk(k)
           Good == {i \in Nat : i <= NodeCount => w[i] \in Maybe(C)}
<1>6. /\ w[0] = a
      /\ \A i \in 0 .. NodeCount - 1 :
           i + 1 \in 0 .. NodeCount /\ w[i + 1] = IF Stops(k, w[i]) THEN w[i] ELSE next[w[i]]
  <2> HIDE DEF w
  <2>1. w = [i \in 0 .. NodeCount |->
               IF i = 0 THEN a
               ELSE LET n == w[i - 1] IN IF Stops(k, n) THEN n ELSE next[n]]
    BY <1>5 DEF w
  <2>2. \A i \in 0 .. NodeCount - 1 : i + 1 \in 0 .. NodeCount /\ i + 1 # 0 /\ (i + 1) - 1 = i
    BY CountsAssumption
  <2>3. QED
    BY <2>1, <2>2, CountsAssumption
<1>7. \A i \in Nat : i \in Good
  <2> HIDE DEF w, a
  <2>1. 0 \in Good
    BY <1>1, <1>6
  <2>2. ASSUME NEW i \in Nat, i \in Good PROVE i + 1 \in Good
    <3> SUFFICES ASSUME i + 1 <= NodeCount PROVE w[i + 1] \in Maybe(C)
      OBVIOUS
    <3>1. i \in 0 .. NodeCount - 1 /\ w[i] \in Maybe(C)
      BY <2>2, CountsAssumption
    <3>2. w[i] # NULL => next[w[i]] \in Maybe(C)
      BY <3>1 DEF Maybe
    <3>3. QED
      BY <1>6, <3>1, <3>2 DEF Stops
  <2> HIDE DEF Good
  <2>3. QED
    BY <2>1, <2>2, SetInduction
<1>8. w \in [0 .. NodeCount -> Maybe(C)]
  <2> HIDE DEF w
  <2>1. w = [i \in 0 .. NodeCount |-> w[i]]
    BY <1>5 DEF w
  <2>2. \A i \in 0 .. NodeCount : w[i] \in Maybe(C)
    BY <1>7, CountsAssumption
  <2>3. QED
    BY <2>1, <2>2
<1>9. QED
  BY <1>6, <1>8

LEMMA WalkSteps ==
  ASSUME TypeOK, NEW k \in Keys
  PROVE  /\ Walk(k) \in [0 .. NodeCount -> Maybe(Nodes)]
         /\ Walk(k)[0] = hash_node_ptr_array[Hash[k]]
         /\ \A i \in 0 .. NodeCount - 1 :
              Walk(k)[i + 1] = IF Stops(k, Walk(k)[i]) THEN Walk(k)[i] ELSE next[Walk(k)[i]]
<1>1. hash_node_ptr_array[Hash[k]] \in Maybe(Nodes) /\ \A n \in Nodes : next[n] \in Maybe(Nodes)
  BY HashAssumption DEF TypeOK, Buckets
<1>2. QED
  BY <1>1, WalkIn

(* The node i + 1 places behind n is the next of the one i places behind. *)
LEMMA BehindIn ==
  ASSUME NEW C, NEW n \in Maybe(C), \A m \in C : next[m] \in Maybe(C)
  PROVE  /\ Behind(n, 0) = n
         /\ \A i \in Nat : /\ Behind(n, i) \in Maybe(C)
                          /\ Behind(n, i + 1) = IF Behind(n, i) = NULL THEN NULL
                                                ELSE next[Behind(n, i)]
<1> DEFINE g == [m \in Maybe(C) |-> IF m = NULL THEN NULL ELSE next[m]]
           Is(i, f) == f = [j \in 0 .. i |->
                             IF j = 0 THEN n
                             ELSE LET m == f[j - 1] IN IF m = NULL THEN NULL ELSE next[m]]
           walk(i) == CHOOSE f : Is(i, f)
<1>1. g \in [Maybe(C) -> Maybe(C)]
  BY DEF Maybe
<1>2. ASSUME NEW i \in Nat PROVE Is(i, walk(i))
  <2>1. PICK f \in [0 .. i -> Maybe(C)] :
          f[0] = n /\ \A j \in 1 .. i : f[j] = g[f[j - 1]]
    <3> DEFINE S == Maybe(C)
    <3> HIDE DEF g, S
    <3>1. n \in S /\ g \in [S -> S]
      BY <1>1 DEF S
    <3>2. \A m \in Nat : \E f \in [0 .. m -> S] : Iterates(f, g, n, m)
      BY <3>1, IterationExists
    <3>3. QED
      BY <3>2 DEF S, Iterates
  <2>2. Is(i, f)
    <3>1. \A j \in 1 .. i : j - 1 \in 0 .. i /\ f[j - 1] \in Maybe(C)
      OBVIOUS
    <3>2. \A j \in 1 .. i : f[j] = IF f[j - 1] = NULL THEN NULL ELSE next[f[j - 1]]
      BY <2>1, <3>1
    <3>3. QED
      BY <2>1, <3>2
  <2> HIDE DEF Is
  <2>3. QED
    BY <2>2
<1>3. \A i \in Nat : Behind(n, i) = walk(i)[i]
  BY DEF Behind
<1> HIDE DEF walk
<1>4. ASSUME NEW i \in Nat, NEW j \in 1 .. i
      PROVE  walk(i)[j] = IF walk(i)[j - 1] = NULL THEN NULL ELSE next[walk(i)[j - 1]]
  BY <1>2
<1>5. \A i \in Nat : walk(i)[0] = n
  BY <1>2
<1> DEFINE Good == {j \in Nat : \A i \in Nat : j <= i => walk(i)[j] = walk(j)[j] /\ walk(j)[j] \in Maybe(C)}
<1>6. \A j \in Nat : j \in Good
  <2>1. 0 \in Good
    BY <1>5
  <2>2. ASSUME NEW j \in Nat, j \in Good PROVE j + 1 \in Good
    <3> SUFFICES ASSUME NEW i \in Nat, j + 1 <= i
                 PROVE  walk(i)[j + 1] = walk(j + 1)[j + 1] /\ walk(j + 1)[j + 1] \in Maybe(C)
      OBVIOUS
    <3>1. walk(i)[j] = walk(j)[j] /\ walk(j + 1)[j] = walk(j)[j] /\ walk(j)[j] \in Maybe(C)
      BY <2>2
    <3>2. j + 1 \in 1 .. i /\ j + 1 \in 1 .. j + 1 /\ (j + 1) - 1 = j
      OBVIOUS
    <3>3. QED
      BY <1>4, <3>1, <3>2 DEF Maybe
  <2> HIDE DEF Good
  <2>3. QED
    BY <2>1, <2>2, SetInduction
<1>7. Behind(n, 0) = n
  BY <1>3, <1>5
<1>8. ASSUME NEW i \in Nat
      PROVE  /\ Behind(n, i) \in Maybe(C)
             /\ Behind(n, i + 1) = IF Behind(n, i) = NULL THEN NULL ELSE next[Behind(n, i)]
  <2>1. walk(i)[i] \in Maybe(C) /\ walk(i + 1)[i] = walk(i)[i]
    BY <1>6
  <2>2. i + 1 \in 1 .. i + 1 /\ (i + 1) - 1 = i
    OBVIOUS
  <2>3. QED
    BY <1>3, <1>4, <2>1, <2>2
<1>9. QED
  BY <1>7, <1>8

LEMMA BehindSteps ==
  ASSUME TypeOK, NEW n \in Maybe(Nodes)
  PROVE  /\ Behind(n, 0) = n
         /\ \A i \in Nat : /\ Behind(n, i) \in Maybe(Nodes)
                          /\ Behind(n, i + 1) = IF Behind(n, i) = NULL THEN NULL
                                                ELSE next[Behind(n, i)]
<1>1. \A m \in Nodes : next[m] \in Maybe(Nodes)
  BY DEF TypeOK
<1>2. QED
  BY <1>1, BehindIn

-----------------------------------------------------------------------------
(* The lists, by number: the chains of the buckets and then the free list. *)
(* owner says on which of them a node is; one that a remove has cut off    *)
(* with its chain is on none.  depth is its place there, and len the       *)
(* number of nodes of each list.                                           *)
FreeList == HashCount
Lost == HashCount + 1
Lists == 0 .. HashCount

Head(o) == IF o = FreeList THEN first_free_node ELSE hash_node_ptr_array[o]

(* Every list starts at its head, ... *)
HeadsOK(owner, depth, len) ==
  \A o \in Lists :
    IF len[o] = 0 THEN Head(o) = NULL
                  ELSE Head(o) \in Nodes /\ owner[Head(o)] = o /\ depth[Head(o)] = 0

(* goes on from each node to the next, and ends after its last one. *)
NextsOK(owner, depth, len) ==
  \A n \in Nodes :
    owner[n] \in Lists =>
      /\ depth[n] < len[owner[n]]
      /\ IF depth[n] + 1 = len[owner[n]]
         THEN next[n] = NULL
         ELSE /\ next[n] \in Nodes /\ owner[next[n]] = owner[n]
              /\ depth[next[n]] = depth[n] + 1

OnePlace(owner, depth) ==
  \A m, n \in Nodes :
    owner[m] = owner[n] /\ owner[n] \in Lists /\ depth[m] = depth[n] => m = n

(* A chain holds the keys that hash to its bucket, each of them once. *)
KeysOK(owner) ==
  /\ \A n \in Nodes : owner[n] \in Buckets => /\ key[n] \in Keys /\ data[n] \in Values
                                              /\ Hash[key[n]] = owner[n]
  /\ \A m, n \in Nodes :
       owner[m] = owner[n] /\ owner[n] \in Buckets /\ key[m] = key[n] => m = n

Shape(owner, depth, len) ==
  /\ HeadsOK(owner, depth, len) /\ NextsOK(owner, depth, len)
  /\ OnePlace(owner, depth) /\ KeysOK(owner)

Owners == [Nodes -> 0 .. Lost]
Depths == [Nodes -> Nat]
Lens == [Lists -> Nat]

IInv == TypeOK /\ \E owner \in Owners, depth \in Depths, len \in Lens : Shape(owner, depth, len)

(* From the head of a list, its i-th node is the one at depth i. *)
LEMMA Position ==
  ASSUME TypeOK, NEW owner \in Owners, NEW depth \in Depths, NEW len \in Lens,
         Shape(owner, depth, len), NEW o \in Lists
  PROVE  \A i \in Nat :
           IF i < len[o]
           THEN /\ Behind(Head(o), i) \in Nodes /\ owner[Behind(Head(o), i)] = o
                /\ depth[Behind(Head(o), i)] = i
           ELSE Behind(Head(o), i) = NULL
<1> DEFINE p(i) == Behind(Head(o), i)
           Good == {i \in Nat : IF i < len[o] THEN p(i) \in Nodes /\ owner[p(i)] = o /\ depth[p(i)] = i
                                             ELSE p(i) = NULL}
<1>1. Head(o) \in Maybe(Nodes)
  BY CountsAssumption DEF TypeOK, Head, Lists, FreeList, Buckets
<1>2. p(0) = Head(o) /\ \A i \in Nat : p(i + 1) = IF p(i) = NULL THEN NULL ELSE next[p(i)]
  BY <1>1, BehindSteps
<1>n. NULL \notin Nodes
  BY NullAssumption DEF Nodes
<1> HIDE DEF p
<1>3. 0 \in Good
  BY <1>2 DEF Shape, HeadsOK, Lens
<1>4. ASSUME NEW i \in Nat, i \in Good PROVE i + 1 \in Good
  <2>1. CASE i < len[o]
    <3>1. p(i) \in Nodes /\ owner[p(i)] = o /\ depth[p(i)] = i /\ p(i + 1) = next[p(i)]
      BY <1>2, <1>4, <1>n, <2>1
    <3>2. IF i + 1 = len[o] THEN next[p(i)] = NULL
          ELSE /\ next[p(i)] \in Nodes /\ owner[next[p(i)]] = o /\ depth[next[p(i)]] = i + 1
      BY <3>1 DEF Shape, NextsOK
    <3>3. QED
      BY <2>1, <3>1, <3>2 DEF Lens
  <2>2. CASE ~(i < len[o])
    BY <1>2, <1>4, <2>2 DEF Lens
  <2>3. QED
    BY <2>1, <2>2
<1> HIDE DEF Good
<1>5. \A i \in Nat : i \in Good
  BY <1>3, <1>4, SetInduction
<1>6. QED
  BY <1>5 DEF Good, p

(* No list has more nodes than there are. *)
LEMMA LenBound ==
  ASSUME TypeOK, NEW owner \in Owners, NEW depth \in Depths, NEW len \in Lens,
         Shape(owner, depth, len), NEW o \in Lists
  PROVE  len[o] <= NodeCount
<1> SUFFICES ASSUME len[o] > NodeCount PROVE FALSE
  BY CountsAssumption DEF Lens
<1> DEFINE S == 1 .. len[o]
           f == [i \in S |-> Behind(Head(o), i - 1)]
<1>1. IsFiniteSet(S) /\ Cardinality(S) = len[o]
  BY FS_Interval DEF Lens
<1>2. IsFiniteSet(Nodes) /\ Cardinality(Nodes) = NodeCount
  BY FS_Interval, CountsAssumption DEF Nodes
<1>3. \A i \in S : i - 1 \in Nat /\ i - 1 < len[o]
  BY DEF Lens
<1>4. \A i \in S : f[i] \in Nodes /\ depth[f[i]] = i - 1
  BY <1>3, Position
<1>5. f \in [S -> Nodes]
  BY <1>4
<1> HIDE DEF S, f
<1>6. PICK i, j \in S : i # j /\ f[i] = f[j]
  BY <1>1, <1>2, <1>5, FS_PigeonHole
<1>7. QED
  BY <1>3, <1>4, <1>6 DEF S

(* Where a lookup stops: at the node with its key, or at the end of the    *)
(* chain if there is none.                                                 *)
LEMMA WalkStops ==
  ASSUME TypeOK, NEW owner \in Owners, NEW depth \in Depths, NEW len \in Lens,
         Shape(owner, depth, len), NEW k \in Keys
  PROVE  \A i \in 0 .. NodeCount :
           LET n == Walk(k)[i] IN
           \/ n = NULL /\ \A m \in Nodes : owner[m] = Hash[k] => key[m] # k
           \/ n \in Nodes /\ owner[n] = Hash[k] /\ key[n] = k
           \/ /\ n \in Nodes /\ owner[n] = Hash[k] /\ key[n] # k /\ depth[n] = i
              /\ \A m \in Nodes : owner[m] = Hash[k] /\ depth[m] <= i => key[m] # k
<1> DEFINE b == Hash[k]
           w == Walk(k)
           AtEnd(n) == n = NULL /\ \A m \in Nodes : owner[m] = b => key[m] # k
           Found(n) == n \in Nodes /\ owner[n] = b /\ key[n] = k
           OnTheWay(n, i) == /\ n \in Nodes /\ owner[n] = b /\ key[n] # k /\ depth[n] = i
                             /\ \A m \in Nodes : owner[m] = b /\ depth[m] <= i => key[m] # k
           Good == {i \in Nat : i <= NodeCount =>
                                  AtEnd(w[i]) \/ Found(w[i]) \/ OnTheWay(w[i], i)}
<1>1. b \in Buckets /\ b \in Lists /\ Head(b) = hash_node_ptr_array[b]
  BY HashAssumption, CountsAssumption DEF Buckets, Lists, Head, FreeList
<1>2. w[0] = Head(b) /\ \A i \in 0 .. NodeCount - 1 :
                          w[i + 1] = IF Stops(k, w[i]) THEN w[i] ELSE next[w[i]]
  BY <1>1, WalkSteps
<1>n. NULL \notin Nodes
  BY NullAssumption DEF Nodes
<1> HIDE DEF b, w
<1>3. 0 \in Good
  <2>1. CASE len[b] = 0
    BY <1>1, <1>2, <2>1 DEF Shape, HeadsOK, NextsOK, Lens, Depths
  <2>2. CASE len[b] # 0
    <3>1. w[0] \in Nodes /\ owner[w[0]] = b /\ depth[w[0]] = 0
      BY <1>1, <1>2, <2>2 DEF Shape, HeadsOK
    <3>2. \A m \in Nodes : owner[m] = b /\ depth[m] <= 0 => m = w[0]
      BY <1>1, <3>1 DEF Shape, OnePlace, Depths
    <3>3. QED
      BY <3>1, <3>2
  <2>3. QED
    BY <2>1, <2>2
<1>4. ASSUME NEW i \in Nat, i \in Good PROVE i + 1 \in Good
  <2> SUFFICES ASSUME i + 1 <= NodeCount
               PROVE  AtEnd(w[i + 1]) \/ Found(w[i + 1]) \/ OnTheWay(w[i + 1], i + 1)
    OBVIOUS
  <2>1. /\ w[i + 1] = IF Stops(k, w[i]) THEN w[i] ELSE next[w[i]]
        /\ AtEnd(w[i]) \/ Found(w[i]) \/ OnTheWay(w[i], i)
    BY <1>2, <1>4, CountsAssumption
  <2>2. CASE AtEnd(w[i]) \/ Found(w[i])
    BY <2>1, <2>2 DEF Stops
  <2>3. CASE OnTheWay(w[i], i)
    <3>1. w[i + 1] = next[w[i]]
      BY <1>n, <2>1, <2>3 DEF Stops
    <3>2. CASE i + 1 = len[b]
      <4>1. w[i + 1] = NULL
        BY <1>1, <2>3, <3>1, <3>2 DEF Shape, NextsOK
      <4>2. \A m \in Nodes : owner[m] = b => depth[m] <= i
        BY <1>1, <3>2 DEF Shape, NextsOK, Depths
      <4>3. QED
        BY <2>3, <4>1, <4>2
    <3>3. CASE i + 1 # len[b]
      <4>1. w[i + 1] \in Nodes /\ owner[w[i + 1]] = b /\ depth[w[i + 1]] = i + 1
        BY <1>1, <2>3, <3>1, <3>3 DEF Shape, NextsOK
      <4>2. \A m \in Nodes : owner[m] = b /\ depth[m] <= i + 1 => depth[m] <= i \/ m = w[i + 1]
        BY <1>1, <4>1 DEF Shape, OnePlace, Depths
      <4>3. QED
        BY <2>3, <4>1, <4>2
    <3>4. QED
      BY <3>2, <3>3
  <2>4. QED
    BY <2>1, <2>2, <2>3
<1> HIDE DEF Good
<1>5. \A i \in Nat : i \in Good
  BY <1>3, <1>4, SetInduction
<1>6. QED
  BY <1>5, CountsAssumption DEF Good, b, w

(* What a lookup of k returns: the node with that key, if there is one,    *)
(* and the pointer that leads to it.                                       *)
NodeFound(k, owner) ==
  \/ Node(k) = NULL /\ \A m \in Nodes : owner[m] = Hash[k] => key[m] # k
  \/ Node(k) \in Nodes /\ owner[Node(k)] = Hash[k] /\ key[Node(k)] = k

PointerFound(k, owner) ==
  IF InBucket(k)
  THEN Node(k) = hash_node_ptr_array[Hash[k]]
  ELSE /\ Before(k) \in Nodes /\ owner[Before(k)] = Hash[k] /\ next[Before(k)] = Node(k)

LEMMA LookupFinds ==
  ASSUME TypeOK, NEW owner \in Owners, NEW depth \in Depths, NEW len \in Lens,
         Shape(owner, depth, len), NEW k \in Keys
  PROVE  NodeFound(k, owner) /\ PointerFound(k, owner)
<1> DEFINE b == Hash[k]
           w == Walk(k)
           AtEnd(n) == n = NULL /\ \A m \in Nodes : owner[m] = b => key[m] # k
           Found(n) == n \in Nodes /\ owner[n] = b /\ key[n] = k
           OnTheWay(n) == n \in Nodes /\ owner[n] = b /\ key[n] # k
<1>1. b \in Buckets /\ b \in Lists
  BY HashAssumption, CountsAssumption DEF Buckets, Lists
<1>2. \A i \in 0 .. NodeCount : AtEnd(w[i]) \/ Found(w[i]) \/ (OnTheWay(w[i]) /\ depth[w[i]] = i)
  BY WalkStops
<1>3. AtEnd(Node(k)) \/ Found(Node(k))
  <2>1. NodeCount \in 0 .. NodeCount /\ Node(k) = w[NodeCount]
    BY CountsAssumption DEF Node
  <2>2. ASSUME OnTheWay(w[NodeCount]) /\ depth[w[NodeCount]] = NodeCount PROVE FALSE
    <3>1. NodeCount < len[b] /\ len[b] <= NodeCount
      BY <1>1, <2>2, LenBound DEF Shape, NextsOK
    <3>2. QED
      BY <1>1, <3>1, CountsAssumption DEF Lens
  <2>3. QED
    BY <1>2, <2>1, <2>2
<1>4. NodeFound(k, owner)
  BY <1>3 DEF NodeFound
<1>5. /\ w[0] = hash_node_ptr_array[b]
      /\ \A i \in 0 .. NodeCount - 1 : w[i + 1] = IF Stops(k, w[i]) THEN w[i] ELSE next[w[i]]
  BY WalkSteps
<1>n. NULL \notin Nodes
  BY NullAssumption DEF Nodes
<1> HIDE DEF w
<1>6. \A i \in 0 .. NodeCount : Stops(k, w[i]) => w[i] = Node(k)
  <2> SUFFICES ASSUME NEW i \in 0 .. NodeCount, Stops(k, w[i]) PROVE w[i] = Node(k)
    OBVIOUS
  <2>1. AtEnd(w[i]) \/ Found(w[i])
    BY <1>2, <1>n DEF Stops
  <2>2. ASSUME NEW m \in Nodes, NEW n \in Nodes, Found(m), Found(n) PROVE m = n
    BY <1>1, <2>2 DEF Shape, KeysOK
  <2>3. QED
    BY <1>3, <2>1, <2>2
<1>7. InBucket(k) => Node(k) = hash_node_ptr_array[b]
  BY <1>5, <1>6, CountsAssumption DEF InBucket
<1>8. ASSUME ~InBucket(k)
      PROVE  Before(k) \in Nodes /\ owner[Before(k)] = b /\ next[Before(k)] = Node(k)
  <2> DEFINE Met == {w[i] : i \in 0 .. NodeCount} \ {Node(k)}
  <2>1. \A n \in Met : n \in Nodes /\ owner[n] = b /\ ~Stops(k, n)
    BY <1>2, <1>6, <1>n DEF Stops
  <2>2. \E n \in Met : next[n] = Node(k)
    <3> SUFFICES ASSUME \A n \in Met : next[n] # Node(k) PROVE FALSE
      OBVIOUS
    <3> DEFINE Good == {i \in Nat : i <= NodeCount => w[i] # Node(k)}
    <3>1. 0 \in Good
      <4>1. Stops(k, Node(k))
        BY <1>3 DEF Stops
      <4>2. QED
        BY <1>5, <1>8, <4>1 DEF InBucket
    <3>2. ASSUME NEW i \in Nat, i \in Good PROVE i + 1 \in Good
      <4> SUFFICES ASSUME i + 1 <= NodeCount PROVE w[i + 1] # Node(k)
        OBVIOUS
      <4>1. i \in 0 .. NodeCount - 1 /\ i \in 0 .. NodeCount
        BY CountsAssumption
      <4>2. w[i] \in Met
        BY <3>2, <4>1
      <4>3. w[i + 1] = next[w[i]]
        BY <1>5, <2>1, <4>1, <4>2
      <4>4. QED
        BY <4>2, <4>3
    <3> HIDE DEF Good
    <3>3. \A i \in Nat : i \in Good
      BY <3>1, <3>2, SetInduction
    <3>4. NodeCount \in Nat /\ w[NodeCount] = Node(k)
      BY CountsAssumption DEF Node, w
    <3>5. QED
      BY <3>3, <3>4 DEF Good
  <2>3. Before(k) = CHOOSE n \in Met : next[n] = Node(k)
    BY DEF Before, w
  <2> HIDE DEF Met
  <2>4. Before(k) \in Met /\ next[Before(k)] = Node(k)
    BY <2>2, <2>3
  <2>5. QED
    BY <2>1, <2>4
<1>9. QED
  BY <1>4, <1>7, <1>8 DEF PointerFound

-----------------------------------------------------------------------------
(* hashmap_init puts all the nodes on the free list. *)
LEMMA InitShape == Init => IInv
<1> SUFFICES ASSUME Init PROVE IInv
  OBVIOUS
<1> USE CountsAssumption, NullAssumption DEF Init, InitOver, InitialNext
<1>1. \A n \in Nodes : IF n + 1 = NodeCount THEN next[n] = NULL
                                          ELSE n + 1 \in Nodes /\ next[n] = n + 1
  <2> SUFFICES ASSUME NEW n \in Nodes
               PROVE  IF n + 1 = NodeCount THEN next[n] = NULL
                                           ELSE n + 1 \in Nodes /\ next[n] = n + 1
    OBVIOUS
  <2>1. next[n] = InitialNext(n, NULL) /\ n \in 0 .. NodeCount - 1
    BY DEF Nodes
  <2>2. CASE n + 1 = NodeCount
    BY <2>1, <2>2
  <2>3. CASE n + 1 # NodeCount
    <3>1. n < NodeCount - 1 /\ n + 1 \in 0 .. NodeCount - 1
      BY <2>1, <2>3
    <3>2. QED
      BY <2>1, <2>3, <3>1 DEF Nodes
  <2>4. QED
    BY <2>2, <2>3
<1>2. TypeOK
  <2>1. next \in [Nodes -> Maybe(Nodes)]
    BY <1>1 DEF Maybe
  <2>2. first_free_node \in Maybe(Nodes)
    BY DEF Maybe, Nodes
  <2>3. QED
    BY <2>1, <2>2 DEF TypeOK, Maybe
<1> DEFINE owner == [n \in Nodes |-> FreeList]
           depth == [n \in Nodes |-> n]
           len == [o \in Lists |-> IF o = FreeList THEN NodeCount ELSE 0]
<1>3. owner \in Owners /\ depth \in Depths /\ len \in Lens
  BY DEF Owners, Depths, Lens, Lost, FreeList, Nodes
<1>4. HeadsOK(owner, depth, len)
  BY DEF HeadsOK, Head, Lists, FreeList, Nodes, Buckets
<1>5. NextsOK(owner, depth, len)
  <2>1. \A n \in Nodes : owner[n] = FreeList /\ depth[n] = n /\ n < NodeCount
    BY DEF Nodes
  <2>2. len[FreeList] = NodeCount
    BY DEF Lists, FreeList
  <2> HIDE DEF owner, depth, len
  <2>3. QED
    BY <1>1, <2>1, <2>2 DEF NextsOK
<1>6. OnePlace(owner, depth)
  BY DEF OnePlace
<1>7. KeysOK(owner)
  BY DEF KeysOK, FreeList, Buckets
<1> HIDE DEF owner, depth, len
<1>8. Shape(owner, depth, len)
  BY <1>4, <1>5, <1>6, <1>7 DEF Shape
<1>9. QED
  BY <1>2, <1>3, <1>8 DEF IInv

(* An add of a new key moves the first free node to the end of its chain. *)
Added(owner, depth, len, k) ==
  /\ Shape(owner, depth, len)
  /\ \E owner2 \in Owners, depth2 \in Depths, len2 \in Lens :
       /\ Shape(owner2, depth2, len2)'
       /\ owner2[first_free_node] = Hash[k]
       /\ \A n \in Nodes \ {first_free_node} :
            owner2[n] = owner[n] /\ (owner[n] = Hash[k] => key[n] # k)

LEMMA AddShape ==
  ASSUME IInv, NEW k \in Keys, NEW v \in Values, Node(k) = NULL, first_free_node \in Nodes,
         Add(k, v)
  PROVE  TypeOK' /\ \E owner \in Owners, depth \in Depths, len \in Lens : Added(owner, depth, len, k)
<1> DEFINE b == Hash[k]
           f == first_free_node
<1>1. PICK owner \in Owners, depth \in Depths, len \in Lens : Shape(owner, depth, len)
  BY DEF IInv
<1>2. TypeOK /\ NodeFound(k, owner) /\ PointerFound(k, owner)
  BY <1>1, LookupFinds DEF IInv
<1>3. /\ b \in Buckets /\ b \in Lists /\ b # FreeList /\ FreeList \in Lists
      /\ \A o \in Lists : o # FreeList => o \in Buckets
  BY HashAssumption, CountsAssumption DEF Buckets, Lists, FreeList
<1>n. NULL \notin Nodes
  BY NullAssumption DEF Nodes
<1>4. f \in Nodes /\ owner[f] = FreeList /\ depth[f] = 0 /\ len[FreeList] > 0
  BY <1>1, <1>3, <1>n DEF Shape, HeadsOK, Head, Lens
<1>5. /\ hash_node_ptr_array' = Heads(k, f)
      /\ next' = [Nexts(k, f) EXCEPT ![f] = NULL]
      /\ key' = [key EXCEPT ![f] = k] /\ data' = [data EXCEPT ![f] = v]
      /\ first_free_node' = next[f] /\ UNCHANGED <<answer, crashed>>
  BY DEF Add
<1>6. TypeOK'
  BY <1>2, <1>3, <1>4, <1>5 DEF TypeOK, Heads, Nexts, Maybe, PointerFound
<1>7. \A n \in Nodes \ {f} : owner[n] = FreeList => depth[n] > 0
  BY <1>1, <1>3, <1>4 DEF Shape, OnePlace, Depths
<1>8. /\ next'[f] = NULL /\ key'[f] = k /\ data'[f] = v
      /\ \A n \in Nodes \ {f} : key'[n] = key[n] /\ data'[n] = data[n]
  <2>1. Nexts(k, f) \in [Nodes -> Maybe(Nodes)]
    BY <1>2, <1>4 DEF TypeOK, Nexts, PointerFound, Maybe
  <2>2. QED
    BY <1>2, <1>4, <1>5, <2>1 DEF TypeOK
<1>9. PICK owner2 \in Owners, depth2 \in Depths, len2 \in Lens :
        /\ owner2[f] = b /\ depth2[f] = len[b]
        /\ len2[b] = len[b] + 1 /\ len2[FreeList] = len[FreeList] - 1
        /\ \A o \in Lists \ {b, FreeList} : len2[o] = len[o]
        /\ \A n \in Nodes \ {f} :
             /\ owner2[n] = owner[n]
             /\ depth2[n] = IF owner[n] = FreeList THEN depth[n] - 1 ELSE depth[n]
  <2> DEFINE ow == [owner EXCEPT ![f] = b]
             de == [n \in Nodes |-> IF n = f THEN len[b]
                                    ELSE IF owner[n] = FreeList THEN depth[n] - 1 ELSE depth[n]]
             le == [len EXCEPT ![b] = @ + 1, ![FreeList] = @ - 1]
  <2>1. ow \in Owners /\ ow[f] = b /\ \A n \in Nodes \ {f} : ow[n] = owner[n]
    BY <1>3, <1>4 DEF Owners, Lost, Buckets, FreeList, Lists
  <2>2. de \in Depths
    BY <1>3, <1>7 DEF Depths, Lens
  <2>3. le \in Lens
    BY <1>3, <1>4 DEF Lens
  <2>4. /\ de[f] = len[b]
        /\ \A n \in Nodes \ {f} :
             de[n] = IF owner[n] = FreeList THEN depth[n] - 1 ELSE depth[n]
    BY <1>4
  <2>5. /\ le[b] = len[b] + 1 /\ le[FreeList] = len[FreeList] - 1
        /\ \A o \in Lists \ {b, FreeList} : le[o] = len[o]
    BY <1>3 DEF Lens
  <2> HIDE DEF ow, de, le, b, f
  <2>6. QED
    BY <2>1, <2>2, <2>3, <2>4, <2>5
<1>10. /\ len2[FreeList] = 0 => next[f] = NULL
       /\ len2[FreeList] # 0 => /\ next[f] \in Nodes /\ owner[next[f]] = FreeList
                                /\ depth[next[f]] = 1 /\ next[f] # f
  <2>1. IF depth[f] + 1 = len[FreeList]
        THEN next[f] = NULL
        ELSE next[f] \in Nodes /\ owner[next[f]] = FreeList /\ depth[next[f]] = depth[f] + 1
    BY <1>1, <1>3, <1>4 DEF Shape, NextsOK
  <2>2. QED
    BY <1>4, <1>9, <2>1 DEF Lens
(* Other nodes keep their next, but the last one of the chain. *)
<1>11. /\ HeadsOK(owner2, depth2, len2)'
       /\ \A n \in Nodes \ {f} :
            IF owner[n] = b /\ depth[n] + 1 = len[b] THEN next'[n] = f ELSE next'[n] = next[n]
  <2>h. /\ Head(FreeList)' = next[f] /\ Head(b) = hash_node_ptr_array[b]
        /\ \A o \in Buckets : Head(o)' = Heads(k, f)[o]
        /\ \A o \in Buckets : Head(o) = hash_node_ptr_array[o] /\ o \in Lists /\ o # FreeList
    BY <1>3, <1>5, CountsAssumption DEF Head, FreeList, Buckets, Lists
  <2>f. IF len2[FreeList] = 0 THEN Head(FreeList)' = NULL
        ELSE /\ Head(FreeList)' \in Nodes /\ owner2[Head(FreeList)'] = FreeList
             /\ depth2[Head(FreeList)'] = 0
    BY <1>9, <1>10, <2>h
  <2>o. \A o \in Buckets \ {b} :
           Head(o) = Head(o)' =>
             IF len2[o] = 0 THEN Head(o)' = NULL
             ELSE Head(o)' \in Nodes /\ owner2[Head(o)'] = o /\ depth2[Head(o)'] = 0
    BY <1>1, <1>3, <1>4, <1>9, <2>h DEF Shape, HeadsOK
  <2>1. CASE InBucket(k)
    <3>1. Head(b) = NULL
      BY <1>2, <2>1, <2>h DEF PointerFound
    <3>2. len[b] = 0
      BY <1>1, <1>3, <1>n, <3>1 DEF Shape, HeadsOK
    <3>3. /\ hash_node_ptr_array' = [hash_node_ptr_array EXCEPT ![b] = f]
          /\ next' = [next EXCEPT ![f] = NULL]
      BY <1>5, <2>1 DEF Heads, Nexts
    <3>4. \A n \in Nodes : owner[n] # b
      BY <1>1, <1>3, <3>2 DEF Shape, NextsOK, Depths
    <3>5. Head(b)' = f /\ \A o \in Buckets \ {b} : Head(o)' = Head(o)
      BY <1>2, <1>3, <2>1, <2>h DEF Heads, TypeOK
    <3>6. HeadsOK(owner2, depth2, len2)'
      BY <1>3, <1>4, <1>9, <2>f, <2>o, <3>2, <3>5 DEF HeadsOK, Lens
    <3>7. \A n \in Nodes \ {f} : next'[n] = next[n]
      BY <1>2, <3>3 DEF TypeOK
    <3>8. QED
      BY <3>4, <3>6, <3>7
  <2>2. CASE ~InBucket(k)
    <3> DEFINE e == Before(k)
    <3>1. e \in Nodes /\ owner[e] = b /\ next[e] = NULL /\ e # f
      BY <1>2, <1>3, <1>4, <2>2 DEF PointerFound
    <3>2. depth[e] + 1 = len[b]
      BY <1>1, <1>3, <1>n, <3>1 DEF Shape, NextsOK
    <3>3. /\ hash_node_ptr_array' = hash_node_ptr_array
          /\ next' = [[next EXCEPT ![e] = f] EXCEPT ![f] = NULL]
      BY <1>5, <2>2 DEF Heads, Nexts
    <3> HIDE DEF e
    <3>4. \A o \in Buckets : Head(o)' = Head(o)
      BY <2>2, <2>h DEF Heads
    <3>5. len[b] # 0 /\ Head(b) \in Nodes /\ owner[Head(b)] = b /\ depth[Head(b)] = 0
      BY <1>1, <1>3, <3>1, <3>2 DEF Shape, HeadsOK, Depths
    <3>6. HeadsOK(owner2, depth2, len2)'
      BY <1>3, <1>4, <1>9, <2>f, <2>o, <3>4, <3>5 DEF HeadsOK, Lens
    <3>7. next'[e] = f /\ \A n \in Nodes \ {e, f} : next'[n] = next[n]
      BY <1>2, <1>4, <3>1, <3>3 DEF TypeOK
    <3>8. \A n \in Nodes : owner[n] = b /\ depth[n] + 1 = len[b] => n = e
      BY <1>1, <1>3, <3>1, <3>2 DEF Shape, OnePlace, Depths
    <3>9. QED
      BY <3>1, <3>2, <3>6, <3>7, <3>8
  <2>3. QED
    BY <2>1, <2>2
<1>12. NextsOK(owner2, depth2, len2)'
  <2> SUFFICES ASSUME NEW n \in Nodes, owner2[n] \in Lists
               PROVE  /\ depth2[n] < len2[owner2[n]]
                      /\ IF depth2[n] + 1 = len2[owner2[n]]
                         THEN next'[n] = NULL
                         ELSE /\ next'[n] \in Nodes /\ owner2[next'[n]] = owner2[n]
                              /\ depth2[next'[n]] = depth2[n] + 1
    BY DEF NextsOK
  <2>1. CASE n = f
    BY <1>3, <1>8, <1>9, <2>1 DEF Lens
  <2>2. CASE n # f /\ owner[n] = b
    <3>1. /\ depth[n] < len[b] /\ owner2[n] = b /\ depth2[n] = depth[n] /\ len2[b] = len[b] + 1
          /\ depth[n] \in Nat /\ len[b] \in Nat
      BY <1>1, <1>3, <1>9, <2>2 DEF Shape, NextsOK, Depths, Lens
    <3>2. CASE depth[n] + 1 = len[b]
      BY <1>4, <1>9, <1>11, <2>2, <3>1, <3>2
    <3>3. CASE depth[n] + 1 # len[b]
      <4>1. next[n] \in Nodes /\ owner[next[n]] = b /\ depth[next[n]] = depth[n] + 1
        BY <1>1, <1>3, <2>2, <3>3 DEF Shape, NextsOK
      <4>2. next'[n] = next[n] /\ next[n] # f
        BY <1>3, <1>4, <1>11, <2>2, <3>3, <4>1
      <4>3. QED
        BY <1>3, <1>9, <3>1, <3>3, <4>1, <4>2
    <3>4. QED
      BY <3>2, <3>3
  <2>3. CASE n # f /\ owner[n] # b
    <3> DEFINE o == owner[n]
    <3>1. o \in Lists /\ owner2[n] = o /\ next'[n] = next[n]
      BY <1>9, <1>11, <2>3
    <3>2. depth[n] < len[o] /\ depth[n] \in Nat /\ len[o] \in Nat
      BY <1>1, <3>1 DEF Shape, NextsOK, Depths, Lens
    <3>3. CASE depth[n] + 1 = len[o]
      <4>1. next[n] = NULL
        BY <1>1, <3>1, <3>3 DEF Shape, NextsOK
      <4>2. QED
        BY <1>7, <1>9, <2>3, <3>1, <3>2, <3>3, <4>1
    <3>4. CASE depth[n] + 1 # len[o]
      <4>1. next[n] \in Nodes /\ owner[next[n]] = o /\ depth[next[n]] = depth[n] + 1
        BY <1>1, <3>1, <3>4 DEF Shape, NextsOK
      <4>2. next[n] # f
        BY <1>4, <3>2, <4>1
      <4>3. QED
        BY <1>7, <1>9, <2>3, <3>1, <3>2, <3>4, <4>1, <4>2
    <3>5. QED
      BY <3>3, <3>4
  <2>4. QED
    BY <2>1, <2>2, <2>3
<1>13. OnePlace(owner2, depth2)'
  <2>1. \A n \in Nodes \ {f} : owner[n] = b => depth[n] < len[b]
    BY <1>1, <1>3 DEF Shape, NextsOK
  <2> SUFFICES ASSUME NEW m \in Nodes, NEW n \in Nodes, owner2[m] = owner2[n],
                      owner2[n] \in Lists, depth2[m] = depth2[n]
               PROVE  m = n
    BY DEF OnePlace
  <2>2. depth[m] \in Nat /\ depth[n] \in Nat /\ len[b] \in Nat
    BY <1>3 DEF Depths, Lens
  <2>3. CASE m = f \/ n = f
    BY <1>3, <1>9, <2>1, <2>2, <2>3
  <2>4. CASE m # f /\ n # f
    <3>1. owner[m] = owner[n] /\ owner[n] \in Lists /\ depth[m] = depth[n]
      BY <1>9, <2>2, <2>4
    <3>2. QED
      BY <1>1, <3>1 DEF Shape, OnePlace
  <2>5. QED
    BY <2>3, <2>4
<1>14. KeysOK(owner2)'
  <2>1. \A n \in Nodes \ {f} : owner[n] = b => key[n] # k
    BY <1>2, <1>n DEF NodeFound
  <2>2. ASSUME NEW n \in Nodes, owner2[n] \in Buckets
        PROVE  key'[n] \in Keys /\ data'[n] \in Values /\ Hash[key'[n]] = owner2[n]
    BY <1>1, <1>8, <1>9, <2>2 DEF Shape, KeysOK
  <2>3. ASSUME NEW m \in Nodes, NEW n \in Nodes, owner2[m] = owner2[n], owner2[n] \in Buckets,
               key'[m] = key'[n]
        PROVE  m = n
    BY <1>1, <1>8, <1>9, <2>1, <2>3 DEF Shape, KeysOK
  <2>4. QED
    BY <2>2, <2>3 DEF KeysOK
<1>15. Shape(owner2, depth2, len2)'
  BY <1>11, <1>12, <1>13, <1>14 DEF Shape
<1>16. \A n \in Nodes \ {f} : owner2[n] = owner[n] /\ (owner[n] = b => key[n] # k)
  BY <1>2, <1>9, <1>n DEF NodeFound
<1>17. Added(owner, depth, len, k)
  <2> HIDE DEF b, f
  <2>1. f = first_free_node /\ b = Hash[k] /\ owner2[f] = b
    BY <1>9 DEF b, f
  <2>2. QED
    BY <1>1, <1>15, <1>16, <2>1 DEF Added
<1>18. QED
  BY <1>6, <1>17

(* A remove puts its node at the head of the free list, and cuts off what  *)
(* is behind that node in its chain.                                       *)
Removed(owner, depth, len, k) ==
  /\ Shape(owner, depth, len)
  /\ \E owner2 \in Owners, depth2 \in Depths, len2 \in Lens :
       /\ Shape(owner2, depth2, len2)'
       /\ owner2[Node(k)] = FreeList
       /\ \A n \in Nodes \ {Node(k)} : owner2[n] = owner[n] \/ (owner[n] = Hash[k] /\ owner2[n] = Lost)

LEMMA RemoveShape ==
  ASSUME IInv, NEW k \in Keys, Node(k) # NULL, Remove(k)
  PROVE  TypeOK' /\ \E owner \in Owners, depth \in Depths, len \in Lens : Removed(owner, depth, len, k)
<1> DEFINE b == Hash[k]
           r == Node(k)
<1>1. PICK owner \in Owners, depth \in Depths, len \in Lens : Shape(owner, depth, len)
  BY DEF IInv
<1>2. TypeOK /\ NodeFound(k, owner) /\ PointerFound(k, owner)
  BY <1>1, LookupFinds DEF IInv
<1>3. /\ b \in Buckets /\ b \in Lists /\ b # FreeList /\ FreeList \in Lists
      /\ \A o \in Lists : o # FreeList => o \in Buckets
      /\ Lost \notin Lists
  BY HashAssumption, CountsAssumption DEF Buckets, Lists, FreeList, Lost
<1>n. NULL \notin Nodes
  BY NullAssumption DEF Nodes
<1>4. r \in Nodes /\ owner[r] = b /\ key[r] = k
  BY <1>2 DEF NodeFound
<1>5. /\ hash_node_ptr_array' = Heads(k, NULL)
      /\ next' = [Nexts(k, NULL) EXCEPT ![r] = first_free_node]
      /\ key' = key /\ data' = data
      /\ first_free_node' = r /\ answer' = data[r] /\ UNCHANGED crashed
  BY DEF Remove, Rest, FreeRest
<1>6. TypeOK'
  BY <1>1, <1>2, <1>3, <1>4, <1>5 DEF TypeOK, Heads, Nexts, Maybe, PointerFound
<1>7. depth[r] \in Nat /\ len[FreeList] \in Nat
  BY <1>3, <1>4 DEF Depths, Lens
<1>8. PICK d \in Nat, c \in Nodes : d = depth[r] /\ c = r
  BY <1>4, <1>7
<1>9. PICK owner2 \in Owners, depth2 \in Depths, len2 \in Lens :
        /\ owner2[c] = FreeList /\ depth2[c] = 0
        /\ len2[b] = d /\ len2[FreeList] = len[FreeList] + 1
        /\ \A o \in Lists \ {b, FreeList} : len2[o] = len[o]
        /\ \A n \in Nodes \ {c} :
             /\ owner2[n] = IF owner[n] = b /\ depth[n] > d THEN Lost ELSE owner[n]
             /\ depth2[n] = IF owner[n] = FreeList THEN depth[n] + 1 ELSE depth[n]
  <2> DEFINE ow == [n \in Nodes |-> IF n = c THEN FreeList
                                    ELSE IF owner[n] = b /\ depth[n] > d THEN Lost ELSE owner[n]]
             de == [n \in Nodes |-> IF n = c THEN 0
                                    ELSE IF owner[n] = FreeList THEN depth[n] + 1 ELSE depth[n]]
             le == [len EXCEPT ![b] = d, ![FreeList] = @ + 1]
  <2>1. ow \in Owners
    BY CountsAssumption DEF Owners, Lost, FreeList
  <2>2. de \in Depths
    BY DEF Depths
  <2>3. le \in Lens
    BY <1>3 DEF Lens
  <2>4. /\ ow[c] = FreeList /\ de[c] = 0
        /\ \A n \in Nodes \ {c} :
             /\ ow[n] = IF owner[n] = b /\ depth[n] > d THEN Lost ELSE owner[n]
             /\ de[n] = IF owner[n] = FreeList THEN depth[n] + 1 ELSE depth[n]
    OBVIOUS
  <2>5. /\ le[b] = d /\ le[FreeList] = len[FreeList] + 1
        /\ \A o \in Lists \ {b, FreeList} : le[o] = len[o]
    BY <1>3 DEF Lens
  <2> HIDE DEF ow, de, le, b
  <2>6. QED
    BY <2>1, <2>2, <2>3, <2>4, <2>5
<1>10. IF len[FreeList] = 0 THEN first_free_node = NULL
       ELSE /\ first_free_node \in Nodes /\ owner[first_free_node] = FreeList
            /\ depth[first_free_node] = 0 /\ first_free_node # c
  BY <1>1, <1>3, <1>4, <1>8 DEF Shape, HeadsOK, Head
(* Other nodes keep their next, but the one before. *)
<1>11. /\ HeadsOK(owner2, depth2, len2)'
       /\ next'[c] = first_free_node
       /\ \A n \in Nodes \ {c} :
            IF owner[n] = b /\ depth[n] + 1 = d THEN next'[n] = NULL ELSE next'[n] = next[n]
  <2>h. /\ Head(FreeList)' = c /\ Head(b) = hash_node_ptr_array[b]
        /\ \A o \in Buckets : Head(o)' = Heads(k, NULL)[o]
        /\ \A o \in Buckets : Head(o) = hash_node_ptr_array[o] /\ o \in Lists /\ o # FreeList
    BY <1>3, <1>5, <1>8, CountsAssumption DEF Head, FreeList, Buckets, Lists
  <2>f. /\ len2[FreeList] # 0 /\ Head(FreeList)' \in Nodes
        /\ owner2[Head(FreeList)'] = FreeList /\ depth2[Head(FreeList)'] = 0
    BY <1>7, <1>9, <2>h
  <2>o. \A o \in Buckets \ {b} :
           Head(o) = Head(o)' =>
             IF len2[o] = 0 THEN Head(o)' = NULL
             ELSE Head(o)' \in Nodes /\ owner2[Head(o)'] = o /\ depth2[Head(o)'] = 0
    BY <1>1, <1>3, <1>4, <1>8, <1>9, <2>h DEF Shape, HeadsOK
  <2>1. CASE InBucket(k)
    <3>1. Head(b) = c
      BY <1>2, <1>8, <2>1, <2>h DEF PointerFound
    <3>2. d = 0
      BY <1>1, <1>3, <1>n, <1>8, <3>1 DEF Shape, HeadsOK
    <3>3. /\ hash_node_ptr_array' = [hash_node_ptr_array EXCEPT ![b] = NULL]
          /\ next' = [next EXCEPT ![c] = first_free_node]
      BY <1>5, <1>8, <2>1 DEF Heads, Nexts
    <3>4. Head(b)' = NULL /\ \A o \in Buckets \ {b} : Head(o)' = Head(o)
      BY <1>2, <1>3, <2>1, <2>h DEF Heads, TypeOK
    <3>5. HeadsOK(owner2, depth2, len2)'
      BY <1>3, <1>9, <2>f, <2>o, <3>2, <3>4 DEF HeadsOK, Lens
    <3>6. next'[c] = first_free_node /\ \A n \in Nodes \ {c} : next'[n] = next[n]
      BY <1>2, <3>3 DEF TypeOK
    <3>7. \A n \in Nodes : depth[n] + 1 # d
      BY <3>2 DEF Depths
    <3>8. QED
      BY <3>5, <3>6, <3>7
  <2>2. CASE ~InBucket(k)
    <3>1. PICK e \in Nodes : e = Before(k) /\ owner[e] = b /\ next[e] = c
      BY <1>2, <1>3, <1>4, <1>8, <2>2 DEF PointerFound
    <3>2. depth[e] + 1 = d /\ e # c
      BY <1>1, <1>3, <1>n, <1>8, <3>1 DEF Shape, NextsOK, Depths
    <3>3. /\ hash_node_ptr_array' = hash_node_ptr_array
          /\ next' = [[next EXCEPT ![e] = NULL] EXCEPT ![c] = first_free_node]
      BY <1>5, <1>8, <2>2, <3>1 DEF Heads, Nexts
    <3>4. \A o \in Buckets : Head(o)' = Head(o)
      BY <2>2, <2>h DEF Heads
    <3>5. len[b] # 0
      BY <1>1, <1>3, <3>1, <3>2 DEF Shape, NextsOK, Depths
    <3>6. Head(b) \in Nodes /\ owner[Head(b)] = b /\ depth[Head(b)] = 0
      BY <1>1, <1>3, <3>5 DEF Shape, HeadsOK
    <3>7. d # 0 /\ Head(b) # c
      BY <1>8, <3>2, <3>6 DEF Depths
    <3>8. owner2[Head(b)] = b /\ depth2[Head(b)] = 0
      BY <1>3, <1>9, <3>6, <3>7
    <3>9. HeadsOK(owner2, depth2, len2)'
      BY <1>3, <1>9, <2>f, <2>o, <3>4, <3>6, <3>7, <3>8 DEF HeadsOK, Lens
    <3>10. next'[e] = NULL /\ next'[c] = first_free_node
           /\ \A n \in Nodes \ {e, c} : next'[n] = next[n]
      BY <1>2, <3>1, <3>2, <3>3 DEF TypeOK
    <3>11. \A n \in Nodes : owner[n] = b /\ depth[n] + 1 = d => n = e
      BY <1>1, <1>3, <3>1, <3>2 DEF Shape, OnePlace, Depths
    <3>12. QED
      BY <3>1, <3>2, <3>9, <3>10, <3>11
  <2>3. QED
    BY <2>1, <2>2
<1>12. NextsOK(owner2, depth2, len2)'
  <2> SUFFICES ASSUME NEW n \in Nodes, owner2[n] \in Lists
               PROVE  /\ depth2[n] < len2[owner2[n]]
                      /\ IF depth2[n] + 1 = len2[owner2[n]]
                         THEN next'[n] = NULL
                         ELSE /\ next'[n] \in Nodes /\ owner2[next'[n]] = owner2[n]
                              /\ depth2[next'[n]] = depth2[n] + 1
    BY DEF NextsOK
  <2>1. CASE n = c
    <3>1. len2[FreeList] = len[FreeList] + 1 /\ next'[n] = first_free_node /\ depth2[n] = 0
      BY <1>9, <1>11, <2>1
    <3>2. CASE len[FreeList] = 0
      BY <1>9, <1>10, <2>1, <3>1, <3>2
    <3>3. CASE len[FreeList] # 0
      BY <1>3, <1>7, <1>9, <1>10, <2>1, <3>1, <3>3
    <3>4. QED
      BY <3>2, <3>3
  <2>2. CASE n # c /\ owner[n] = b
    <3>1. depth[n] <= d /\ owner2[n] = b /\ depth2[n] = depth[n] /\ depth[n] \in Nat
      BY <1>3, <1>9, <2>2 DEF Depths
    <3>2. depth[n] < d
      BY <1>1, <1>3, <1>4, <1>8, <2>2, <3>1 DEF Shape, OnePlace
    <3>3. CASE depth[n] + 1 = d
      BY <1>9, <1>11, <2>2, <3>1, <3>3
    <3>4. CASE depth[n] + 1 # d
      <4>1. d < len[b]
        BY <1>1, <1>3, <1>4, <1>8 DEF Shape, NextsOK
      <4>2. depth[n] + 1 # len[b]
        BY <1>3, <3>1, <3>2, <4>1 DEF Lens
      <4>3. next[n] \in Nodes /\ owner[next[n]] = b /\ depth[next[n]] = depth[n] + 1
        BY <1>1, <1>3, <2>2, <4>2 DEF Shape, NextsOK
      <4>4. next'[n] = next[n] /\ next[n] # c
        BY <1>8, <1>11, <2>2, <3>4, <4>3
      <4>5. owner2[next[n]] = b /\ depth2[next[n]] = depth[n] + 1
        BY <1>3, <1>9, <3>1, <3>2, <4>3, <4>4
      <4>6. QED
        BY <1>9, <3>1, <3>2, <3>4, <4>3, <4>4, <4>5
    <3>5. QED
      BY <3>3, <3>4
  <2>3. CASE n # c /\ owner[n] # b
    <3> DEFINE o == owner[n]
    <3>1. o \in Lists /\ owner2[n] = o /\ next'[n] = next[n]
      BY <1>9, <1>11, <2>3
    <3>2. depth[n] < len[o] /\ depth[n] \in Nat /\ len[o] \in Nat
      BY <1>1, <3>1 DEF Shape, NextsOK, Depths, Lens
    <3>3. CASE depth[n] + 1 = len[o]
      <4>1. next[n] = NULL
        BY <1>1, <3>1, <3>3 DEF Shape, NextsOK
      <4>2. QED
        BY <1>9, <2>3, <3>1, <3>2, <3>3, <4>1
    <3>4. CASE depth[n] + 1 # len[o]
      <4>1. next[n] \in Nodes /\ owner[next[n]] = o /\ depth[next[n]] = depth[n] + 1
        BY <1>1, <3>1, <3>4 DEF Shape, NextsOK
      <4>2. next[n] # c
        BY <1>4, <1>8, <2>3, <4>1
      <4>3. QED
        BY <1>9, <2>3, <3>1, <3>2, <3>4, <4>1, <4>2
    <3>5. QED
      BY <3>3, <3>4
  <2>4. QED
    BY <2>1, <2>2, <2>3
<1>13. OnePlace(owner2, depth2)'
  <2> SUFFICES ASSUME NEW m \in Nodes, NEW n \in Nodes, owner2[m] = owner2[n],
                      owner2[n] \in Lists, depth2[m] = depth2[n]
               PROVE  m = n
    BY DEF OnePlace
  <2>1. depth[m] \in Nat /\ depth[n] \in Nat
    BY DEF Depths
  <2>2. CASE m = c \/ n = c
    BY <1>3, <1>9, <2>1, <2>2
  <2>3. CASE m # c /\ n # c
    <3>1. owner[m] = owner[n] /\ owner[n] \in Lists /\ depth[m] = depth[n]
      BY <1>3, <1>9, <2>1, <2>3
    <3>2. QED
      BY <1>1, <3>1 DEF Shape, OnePlace
  <2>4. QED
    BY <2>2, <2>3
<1>14. KeysOK(owner2)'
  <2>1. \A n \in Nodes : owner2[n] \in Buckets => owner[n] = owner2[n]
    BY <1>3, <1>9 DEF Buckets, FreeList, Lost, Lists
  <2>2. QED
    BY <1>1, <1>5, <2>1 DEF Shape, KeysOK
<1>15. Shape(owner2, depth2, len2)'
  BY <1>11, <1>12, <1>13, <1>14 DEF Shape
<1>16. \A n \in Nodes \ {c} : owner2[n] = owner[n] \/ (owner[n] = b /\ owner2[n] = Lost)
  BY <1>9
<1>17. Removed(owner, depth, len, k)
  <2> HIDE DEF b, r
  <2>1. c = Node(k) /\ b = Hash[k] /\ owner2[c] = FreeList
    BY <1>8, <1>9 DEF b, r
  <2>2. QED
    BY <1>1, <1>15, <1>16, <2>1 DEF Removed
<1>18. QED
  BY <1>6, <1>17

-----------------------------------------------------------------------------
(* What a lookup reads depends on the nodes alone. *)
LEMMA QuietShape ==
  ASSUME UNCHANGED nodeVars
  PROVE  /\ \A owner \in Owners, depth \in Depths, len \in Lens :
              Shape(owner, depth, len) => Shape(owner, depth, len)'
         /\ \A k \in Keys : Lookup(k)' = Lookup(k)
<1>1. ASSUME NEW owner \in Owners, NEW depth \in Depths, NEW len \in Lens, Shape(owner, depth, len)
      PROVE  Shape(owner, depth, len)'
  BY <1>1 DEF nodeVars, Shape, HeadsOK, NextsOK, OnePlace, KeysOK, Head
<1>2. ASSUME NEW k \in Keys PROVE Lookup(k)' = Lookup(k)
  <2>1. Walk(k)' = Walk(k)
    BY DEF nodeVars, Walk, Stops
  <2>2. QED
    BY <2>1 DEF nodeVars, Lookup, Node
<1>3. QED
  BY <1>1, <1>2

(* Every key that is in a chain is found by its own lookup. *)
LookupsOK ==
  \A owner \in Owners, depth \in Depths, len \in Lens :
    Shape(owner, depth, len) =>
      \A k \in Keys :
        /\ Node(k) = NULL \/ (Node(k) \in Nodes /\ owner[Node(k)] = Hash[k] /\ key[Node(k)] = k)
        /\ \A n \in Nodes : owner[n] = Hash[k] /\ key[n] = k => Node(k) = n

LEMMA Lookups == TypeOK => LookupsOK
<1> SUFFICES ASSUME TypeOK, NEW owner \in Owners, NEW depth \in Depths, NEW len \in Lens,
                    Shape(owner, depth, len), NEW k \in Keys
             PROVE  /\ Node(k) = NULL \/ (Node(k) \in Nodes /\ owner[Node(k)] = Hash[k] /\ key[Node(k)] = k)
                    /\ \A n \in Nodes : owner[n] = Hash[k] /\ key[n] = k => Node(k) = n
  BY DEF LookupsOK
<1>1. NodeFound(k, owner)
  BY LookupFinds
<1>2. Hash[k] \in Buckets
  BY HashAssumption DEF Buckets
<1>3. QED
  BY <1>1, <1>2 DEF NodeFound, Shape, KeysOK

(* A find leaves data of the map, or NULL, in its caller's variable. *)
LEMMA LookupType ==
  ASSUME IInv, NEW k \in Keys
  PROVE  /\ Lookup(k) \in Maybe(Values)
         /\ Lookup(k) = NULL <=> Node(k) = NULL
<1>1. PICK owner \in Owners, depth \in Depths, len \in Lens : Shape(owner, depth, len)
  BY DEF IInv
<1>2. Node(k) = NULL \/ (Node(k) \in Nodes /\ owner[Node(k)] = Hash[k])
  BY <1>1, Lookups DEF IInv, LookupsOK
<1>3. Node(k) = NULL \/ data[Node(k)] \in Values
  BY <1>1, <1>2, HashAssumption DEF Shape, KeysOK, Buckets
<1>4. QED
  BY <1>3, NullAssumption DEF Lookup, Maybe

LEMMA StepInv == IInv /\ [Next]_vars => IInv'
<1> SUFFICES ASSUME IInv, [Next]_vars PROVE IInv'
  OBVIOUS
<1>1. ASSUME UNCHANGED nodeVars, answer' \in Maybe(Values), crashed' \in BOOLEAN PROVE IInv'
  <2>1. TypeOK'
    BY <1>1 DEF IInv, TypeOK, nodeVars, Maybe
  <2>2. QED
    BY <1>1, <2>1, QuietShape DEF IInv
<1>2. ASSUME NEW k \in Keys, Find(k) PROVE IInv'
  BY <1>1, <1>2, LookupType DEF Find, IInv, TypeOK
<1>3. ASSUME NEW k \in Keys, NEW v \in Values, Add(k, v) PROVE IInv'
  <2>1. CASE Node(k) = NULL /\ first_free_node \in Nodes
    BY <1>3, <2>1, AddShape DEF IInv, Added
  <2>2. CASE ~(Node(k) = NULL /\ first_free_node \in Nodes)
    <3>1. UNCHANGED nodeVars /\ crashed' \in BOOLEAN /\ answer' = answer
      BY <1>3, <2>2 DEF Add, IInv, TypeOK
    <3>2. QED
      BY <1>1, <3>1 DEF IInv, TypeOK
  <2>3. QED
    BY <2>1, <2>2
<1>4. ASSUME NEW k \in Keys, Remove(k) PROVE IInv'
  <2>1. CASE Node(k) # NULL
    BY <1>4, <2>1, RemoveShape DEF IInv, Removed
  <2>2. CASE Node(k) = NULL
    <3>1. UNCHANGED nodeVars /\ crashed' = crashed /\ answer' = NULL
      BY <1>4, <2>2 DEF Remove
    <3>2. QED
      BY <1>1, <3>1 DEF IInv, TypeOK, Maybe
  <2>3. QED
    BY <2>1, <2>2
<1>5. CASE UNCHANGED vars
  BY <1>1, <1>5 DEF vars, IInv, TypeOK
<1>6. QED
  BY <1>2, <1>3, <1>4, <1>5 DEF Next

(* The nodes form one list per bucket and a free list. *)
THEOREM Invariance == Spec => []IInv
<1>1. QED
  BY InitShape, StepInv, PTL DEF Spec

(* hashmap.c keeps its pointers to nodes of its array or NULL, and its     *)
(* callers' variables to data that was added.                              *)
THEOREM TypeCorrect == Spec => []TypeOK
<1>1. IInv => TypeOK
  BY DEF IInv
<1>2. QED
  BY <1>1, Invariance, PTL

(* Whatever is added and removed, every chain and the free list of         *)
(* hashmap.c end, none of them leads into another, and every key in a      *)
(* chain is the one its lookup finds.                                      *)
THEOREM ListsApartCorrect == Spec => []ListsApart
<1>1. ASSUME IInv PROVE ListsApart
  <2>1. PICK owner \in Owners, depth \in Depths, len \in Lens : Shape(owner, depth, len)
    BY <1>1 DEF IInv
  <2>2. TypeOK /\ LookupsOK
    BY <1>1, Lookups DEF IInv
  <2>3. ASSUME NEW o \in Lists PROVE Behind(Head(o), NodeCount) = NULL
    <3>1. len[o] <= NodeCount /\ len[o] \in Nat /\ NodeCount \in Nat
      BY <2>1, <2>2, LenBound, CountsAssumption DEF Lens
    <3>2. ~(NodeCount < len[o])
      BY <3>1
    <3>3. QED
      BY <2>1, <2>2, <3>1, <3>2, Position
  <2>4. ASSUME NEW o \in Lists, NEW n \in List(Head(o)) PROVE n \in Nodes /\ owner[n] = o
    <3>1. PICK i \in 0 .. NodeCount : n = Behind(Head(o), i) /\ n # NULL
      BY <2>4 DEF List
    <3>2. i \in Nat
      BY CountsAssumption
    <3>3. QED
      BY <2>1, <2>2, <3>1, <3>2, Position
  <2>5. /\ FreeList \in Lists /\ Head(FreeList) = first_free_node
        /\ \A b \in Buckets : b \in Lists /\ b # FreeList /\ Head(b) = hash_node_ptr_array[b]
    BY CountsAssumption DEF Lists, FreeList, Head, Buckets
  <2>6. \A n \in ListHeads : Behind(n, NodeCount) = NULL
    BY <2>3, <2>5 DEF ListHeads
  <2>7. ASSUME NEW b \in Buckets, NEW n \in List(hash_node_ptr_array[b])
        PROVE  n \in Nodes /\ owner[n] = b /\ Hash[key[n]] = b /\ Node(key[n]) = n
    <3>1. n \in Nodes /\ owner[n] = b
      BY <2>4, <2>5
    <3>2. key[n] \in Keys /\ Hash[key[n]] = b
      BY <2>1, <3>1 DEF Shape, KeysOK
    <3>3. QED
      BY <2>1, <2>2, <3>1, <3>2 DEF LookupsOK
  <2>8. \A n \in List(first_free_node) : owner[n] = FreeList
    BY <2>4, <2>5
  <2>9. QED
    BY <2>5, <2>6, <2>7, <2>8 DEF ListsApart
<1>2. QED
  BY <1>1, Invariance, PTL

(* An add of a new key, with a node to spare, changes what that key maps   *)
(* to, and nothing else.                                                   *)
LEMMA AddNew ==
  ASSUME IInv, IInv', NEW k \in Keys, NEW v \in Values, Add(k, v),
         Node(k) = NULL, first_free_node \in Nodes
  PROVE  /\ Lookup(k) = NULL /\ Lookup(k)' = v
         /\ \A j \in Keys \ {k} : Lookup(j)' = Lookup(j)
         /\ answer' = answer
<1>1. PICK owner \in Owners, depth \in Depths, len \in Lens : Added(owner, depth, len, k)
  BY AddShape
<1>2. PICK f \in Nodes, owner2 \in Owners, depth2 \in Depths, len2 \in Lens :
        /\ f = first_free_node
        /\ Shape(owner2, depth2, len2)'
        /\ owner2[f] = Hash[k]
        /\ \A n \in Nodes \ {f} : owner2[n] = owner[n] /\ (owner[n] = Hash[k] => key[n] # k)
  BY <1>1 DEF Added
<1>3. Shape(owner, depth, len)
  BY <1>1 DEF Added
<1>4. LookupsOK /\ LookupsOK'
  BY Lookups, PTL DEF IInv
<1>5. /\ key'[f] = k /\ data'[f] = v /\ answer' = answer
      /\ \A n \in Nodes \ {f} : key'[n] = key[n] /\ data'[n] = data[n]
  BY <1>2 DEF Add, IInv, TypeOK
<1>6. owner[f] = FreeList /\ \A j \in Keys : Hash[j] # FreeList
  <2>1. FreeList \in Lists /\ \A j \in Keys : Hash[j] # FreeList
    BY HashAssumption, CountsAssumption DEF FreeList, Lists
  <2>2. NULL \notin Nodes
    BY NullAssumption DEF Nodes
  <2>3. QED
    BY <1>2, <1>3, <2>1, <2>2 DEF Shape, HeadsOK, Head
<1>7. Lookup(k) = NULL /\ Lookup(k)' = v
  <2>1. Node(k)' = f
    BY <1>2, <1>4, <1>5 DEF LookupsOK
  <2>2. f # NULL
    BY NullAssumption DEF Nodes
  <2>3. QED
    BY <1>5, <2>1, <2>2 DEF Lookup
<1>8. ASSUME NEW j \in Keys \ {k} PROVE Lookup(j)' = Lookup(j)
  <2>n. NULL \notin Nodes
    BY NullAssumption DEF Nodes
  <2>1. /\ Node(j) = NULL \/ (Node(j) \in Nodes /\ owner[Node(j)] = Hash[j] /\ key[Node(j)] = j)
        /\ \A n \in Nodes : owner[n] = Hash[j] /\ key[n] = j => Node(j) = n
    BY <1>3, <1>4 DEF LookupsOK
  <2>2. /\ Node(j)' = NULL \/ (Node(j)' \in Nodes /\ owner2[Node(j)'] = Hash[j] /\ key'[Node(j)'] = j)
        /\ \A n \in Nodes : owner2[n] = Hash[j] /\ key'[n] = j => Node(j)' = n
    BY <1>2, <1>4 DEF LookupsOK
  <2>3. Node(j)' # NULL => Node(j)' # f /\ Node(j) = Node(j)'
    BY <1>2, <1>5, <2>1, <2>2
  <2>4. Node(j) # NULL => Node(j) # f /\ Node(j)' = Node(j)
    BY <1>2, <1>5, <1>6, <2>1, <2>2
  <2>5. QED
    BY <1>5, <2>1, <2>2, <2>3, <2>4 DEF Lookup
<1>9. QED
  BY <1>5, <1>7, <1>8

-----------------------------------------------------------------------------
(* The calls implement those of the partial map. *)
LEMMA AddSimulation ==
  ASSUME IInv, IInv', NEW k \in Keys, NEW v \in Values, Add(k, v)
  PROVE  [D!Next]_D!vars
<1> DEFINE map == [j \in Keys |-> Lookup(j)]
<1>1. CASE Node(k) = NULL /\ first_free_node \in Nodes
  <2>1. /\ Lookup(k) = NULL /\ Lookup(k)' = v /\ answer' = answer
        /\ \A j \in Keys \ {k} : Lookup(j)' = Lookup(j)
    BY <1>1, AddNew
  <2>2. map' = [map EXCEPT ![k] = v]
    BY <2>1
  <2>3. D!Add(k, v)
    BY <2>1, <2>2 DEF D!Add
  <2>4. QED
    BY <2>3 DEF D!Next
<1>2. CASE Node(k) = NULL /\ first_free_node \notin Nodes
  <2>1. UNCHANGED nodeVars /\ answer' = answer
    BY <1>2 DEF Add
  <2>2. map' = map
    BY <2>1, QuietShape
  <2>3. QED
    BY <2>1, <2>2 DEF D!vars
<1>3. CASE Node(k) # NULL
  <2>1. UNCHANGED nodeVars /\ answer' = answer
    BY <1>3 DEF Add
  <2>2. map' = map
    BY <2>1, QuietShape
  <2>3. QED
    BY <2>1, <2>2 DEF D!vars
<1>4. QED
  BY <1>1, <1>2, <1>3

LEMMA RemoveSimulation ==
  ASSUME IInv, IInv', NEW k \in Keys, Remove(k)
  PROVE  D!Remove(k)
<1> DEFINE map == [j \in Keys |-> Lookup(j)]
<1>1. CASE Node(k) = NULL
  <2>1. UNCHANGED nodeVars /\ answer' = NULL /\ Lookup(k) = NULL
    BY <1>1 DEF Remove, Lookup
  <2>2. map' = map
    BY <2>1, QuietShape
  <2>3. QED
    BY <2>1, <2>2 DEF D!Remove
<1>2. CASE Node(k) # NULL
  <2>1. PICK owner \in Owners, depth \in Depths, len \in Lens : Removed(owner, depth, len, k)
    BY <1>2, RemoveShape
  <2>2. Shape(owner, depth, len)
    BY <2>1 DEF Removed
  <2>3. LookupsOK /\ LookupsOK'
    BY Lookups, PTL DEF IInv
  <2>4. Node(k) \in Nodes /\ owner[Node(k)] = Hash[k] /\ key[Node(k)] = k
    BY <1>2, <2>2, <2>3 DEF LookupsOK
  <2>5. PICK r \in Nodes, owner2 \in Owners, depth2 \in Depths, len2 \in Lens :
          /\ r = Node(k)
          /\ Shape(owner2, depth2, len2)'
          /\ owner2[r] = FreeList
          /\ \A n \in Nodes \ {r} : owner2[n] = owner[n] \/ (owner[n] = Hash[k] /\ owner2[n] = Lost)
    BY <2>1, <2>4 DEF Removed
  <2>6. key' = key /\ data' = data /\ answer' = Lookup(k) /\ Lookup(k) # NULL
    BY <1>2, LookupType DEF Remove, Lookup
  <2>7. \A j \in Keys : Hash[j] # FreeList /\ Hash[j] # Lost
    BY HashAssumption, CountsAssumption DEF FreeList, Lost
  <2>n. NULL \notin Nodes
    BY NullAssumption DEF Nodes
  <2> DEFINE lost == {j \in Keys : Hash[j] = Hash[k] /\ Lookup(j)' = NULL}
  <2>8. ASSUME NEW j \in Keys
        PROVE  Lookup(j)' = IF j = k \/ j \in lost THEN NULL ELSE Lookup(j)
    <3>1. /\ Node(j) = NULL \/ (Node(j) \in Nodes /\ owner[Node(j)] = Hash[j] /\ key[Node(j)] = j)
          /\ \A n \in Nodes : owner[n] = Hash[j] /\ key[n] = j => Node(j) = n
      BY <2>2, <2>3 DEF LookupsOK
    <3>2. /\ Node(j)' = NULL \/ (Node(j)' \in Nodes /\ owner2[Node(j)'] = Hash[j] /\ key[Node(j)'] = j)
          /\ \A n \in Nodes : owner2[n] = Hash[j] /\ key[n] = j => Node(j)' = n
      BY <2>3, <2>5, <2>6 DEF LookupsOK
    <3>3. Node(j)' # NULL => Node(j)' # r /\ Node(j) = Node(j)'
      BY <2>5, <2>7, <3>1, <3>2
    <3>4. j = k => Lookup(j)' = NULL
      BY <2>5, <3>3 DEF Lookup
    <3>5. Hash[j] # Hash[k] => Node(j)' = Node(j)
      BY <2>4, <2>5, <3>1, <3>2, <3>3
    <3>6. Node(j)' = Node(j) => Lookup(j)' = Lookup(j)
      BY <2>6 DEF Lookup
    <3>7. Node(j)' = NULL => Lookup(j)' = NULL
      BY DEF Lookup
    <3>8. QED
      BY <3>3, <3>4, <3>5, <3>6, <3>7
  <2>9. lost \in SUBSET {j \in Keys : Hash[j] = Hash[k]}
    OBVIOUS
  <2> HIDE DEF lost
  <2>10. map' = [j \in Keys |-> IF j = k \/ j \in lost THEN NULL ELSE map[j]]
    BY <2>8
  <2>11. QED
    BY <2>6, <2>9, <2>10 DEF D!Remove
<1>3. QED
  BY <1>1, <1>2

(* hashmap.c implements a partial map: the first add of a key counts, a    *)
(* find returns it, and a remove loses, beside the key it is given, only   *)
(* keys of the same bucket.                                                *)
THEOREM DictCorrect == Spec => DictSpec
<1> DEFINE map == [j \in Keys |-> Lookup(j)]
<1>1. Init => D!Init
  <2> SUFFICES ASSUME Init PROVE D!Init
    OBVIOUS
  <2>1. ASSUME NEW j \in Keys PROVE Lookup(j) = NULL
    <3>1. IInv
      BY InitShape
    <3>2. PICK owner \in Owners, depth \in Depths, len \in Lens : Shape(owner, depth, len)
      BY <3>1 DEF IInv
    <3>3. Node(j) = NULL \/ (Node(j) \in Nodes /\ key[Node(j)] = j)
      BY <3>1, <3>2, Lookups DEF IInv, LookupsOK
    <3>4. QED
      BY <3>3, NullAssumption DEF Init, InitOver, Lookup
  <2>2. QED
    BY <2>1 DEF D!Init, Init, InitOver
<1>2. IInv /\ IInv' /\ [Next]_vars => [D!Next]_D!vars
  <2> SUFFICES ASSUME IInv, IInv', [Next]_vars PROVE [D!Next]_D!vars
    OBVIOUS
  <2>1. ASSUME NEW k \in Keys, Find(k) PROVE [D!Next]_D!vars
    <3>1. map' = map /\ answer' = map[k]
      BY <2>1, QuietShape DEF Find
    <3>2. D!Find(k)
      BY <3>1 DEF D!Find
    <3>3. QED
      BY <3>2 DEF D!Next
  <2>2. ASSUME NEW k \in Keys, Remove(k) PROVE [D!Next]_D!vars
    BY <2>2, RemoveSimulation DEF D!Next
  <2>3. CASE UNCHANGED vars
    <3>1. map' = map /\ answer' = answer
      BY <2>3, QuietShape DEF vars
    <3>2. QED
      BY <3>1 DEF D!vars
  <2>4. QED
    BY <2>1, <2>2, <2>3, AddSimulation DEF Next
<1>3. QED
  BY <1>1, <1>2, Invariance, PTL DEF Spec, DictSpec, D!Spec
=============================================================================
