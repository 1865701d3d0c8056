---------------------------- MODULE WordCountProofs -------------------------
(***************************************************************************)
(* Proofs about WordCount: every word of the text is counted once per      *)
(* occurrence and printed once, for any text, number of items and hash     *)
(* function; the links that nobody wrote are NULL or point nowhere.        *)
(*                                                                         *)
(* Items and nodes are taken in the order of their addresses and never     *)
(* given back, so the n-th node has the n-th item: the invariant says so,  *)
(* and that the map's chains stay among the nodes in use.                  *)
(***************************************************************************)
EXTENDS WordCount, FiniteSetTheorems, FunctionTheorems, TLAPS

(* A pointer to nowhere marks the end of a free list that was built over   *)
(* memory nobody had cleared.  Read as NULL, it makes the map one that was *)
(* built over cleared memory, about which HashmapProofs has its theorems.  *)
Bar(p) == IF p = Wild THEN NULL ELSE p

B == INSTANCE HashmapProofs WITH
  Values <- F!Items, NodeCount <- MAX_WORD, answer <- found,
  next <- [n \in H!Nodes |-> Bar(next[n])], first_free_node <- Bar(first_free_node)

(* The same about the map as it is, for what holds of any memory.          *)
A == INSTANCE HashmapProofs WITH
  Values <- F!Items, NodeCount <- MAX_WORD, answer <- found

-----------------------------------------------------------------------------
(* How many nodes are in use, and how many items were handed out: nodes    *)
(* and items are taken in the order of their addresses.                    *)
UsedNodes == IF first_free_node \in H!Nodes THEN first_free_node ELSE MAX_WORD

HandedOut == IF first \in F!Items THEN first ELSE MAX_WORD

(* Those behind them are free, and linked up to a last one.                *)
ItemsOK ==
  /\ first \in F!Items \cup {NULL, Wild}
  /\ held = [u \in {"main"} |-> 0 .. HandedOut - 1]
  /\ got \in [{"main"} -> F!Items \cup {NULL}]
  /\ word \in [F!Items -> Nat \cup {NULL, Wild}]
  /\ \A i \in F!Items : i >= HandedOut =>
       IF i + 1 < MAX_WORD THEN word[i] = i + 1 ELSE word[i] \in {NULL, Wild}

(* The nodes in use have keys, and the chains stay among them.             *)
NodesOK ==
  /\ first_free_node \in H!Nodes \cup {NULL, Wild}
  /\ next \in [H!Nodes -> H!Nodes \cup {NULL, Wild}]
  /\ \A b \in H!Buckets : hash_node_ptr_array[b] \in 0 .. UsedNodes - 1 \cup {NULL}
  /\ \A n \in H!Nodes : n < UsedNodes =>
       key[n] \in Keys /\ next[n] \in 0 .. UsedNodes - 1 \cup {NULL}
  /\ \A n \in H!Nodes : n >= UsedNodes =>
       /\ key[n] = NULL
       /\ IF n + 1 < MAX_WORD THEN next[n] = n + 1 ELSE next[n] \in {NULL, Wild}

(* The item of a node in use is the one with its number, and the map finds *)
(* it by the key of the node.                                              *)
MapOK ==
  /\ \A n \in H!Nodes : n < UsedNodes => data[n] = n /\ H!Lookup(key[n]) = n
  /\ \A k \in Keys : H!Lookup(k) # NULL =>
       /\ H!Lookup(k) \in H!Nodes /\ H!Lookup(k) < UsedNodes
       /\ key[H!Lookup(k)] = k

(* The word read last is yet to be counted. *)
Busy == pc \in {"finding", "counting", "getting", "filling", "adding"}

CountsOK ==
  /\ read \in [Keys -> Nat]
  /\ \A k \in Keys :
       /\ H!Lookup(k) # NULL => word[H!Lookup(k)] \in Nat \ {0}
       /\ read[k] = (IF H!Lookup(k) = NULL THEN 0 ELSE word[H!Lookup(k)])
                      + (IF Busy /\ k = y THEN 1 ELSE 0)

(* An item that was handed out and is not yet in the map. *)
Pending == pc \in {"filling", "adding"} /\ got["main"] # NULL

StageOK ==
  /\ pc \in {"reading", "finding", "counting", "getting", "filling", "adding", "done"}
  /\ y \in Keys \cup {NULL} /\ (Busy => y \in Keys)
  /\ pc = "counting" => found = H!Lookup(y) /\ found # NULL
  /\ pc \in {"getting", "filling", "adding"} => H!Lookup(y) = NULL
  /\ HandedOut = IF Pending THEN UsedNodes + 1 ELSE UsedNodes
  /\ Pending => got["main"] = UsedNodes
  /\ pc = "filling" /\ ~Pending => UsedNodes = MAX_WORD
  /\ pc = "adding" => Pending /\ word[got["main"]] = 1
  /\ crashed => pc \in {"getting", "filling"} /\ UsedNodes = MAX_WORD

-----------------------------------------------------------------------------
LEMMA Numbers ==
  /\ F!Items = 0 .. MAX_WORD - 1 /\ H!Nodes = 0 .. MAX_WORD - 1
  /\ NULL \notin Nat /\ NULL \notin Keys /\ Wild \notin Nat /\ Wild # NULL
  /\ NULL \notin F!Items /\ NULL \notin H!Nodes /\ Wild \notin H!Nodes
  /\ NULL \notin Keys \cup F!Items \cup Nat
<1>1. F!NumItems = MAX_WORD
  <2>1. (MAX_WORD + 1) - 1 = MAX_WORD /\ MAX_WORD \div 1 = MAX_WORD
    BY CountsAssumption
  <2>2. QED
    BY <2>1, CountsAssumption DEF F!NumItems
<1>2. QED
  BY <1>1, NullAssumption, WildAssumption, CountsAssumption DEF F!Items, H!Nodes

LEMMA BarNext ==
  ASSUME NEW n \in H!Nodes
  PROVE  [m \in H!Nodes |-> Bar(next[m])][n] = Bar(next[n])
OBVIOUS

(* A lookup, and a walk down a chain, come by nodes in use only, so that   *)
(* it makes no difference what the pointers to nowhere are read as.        *)
LEMMA WalksAgree ==
  ASSUME NodesOK, NEW k \in Keys
  PROVE  /\ H!Walk(k) \in [0 .. MAX_WORD -> 0 .. UsedNodes - 1 \cup {NULL}]
         /\ B!Walk(k) = H!Walk(k)
<1> DEFINE C == 0 .. UsedNodes - 1
<1>1. UsedNodes \in 0 .. MAX_WORD /\ C \subseteq H!Nodes
  BY Numbers, CountsAssumption DEF UsedNodes, NodesOK
<1>2. /\ hash_node_ptr_array[Hash[k]] \in A!Maybe(C)
      /\ \A n \in C : next[n] \in A!Maybe(C)
  BY <1>1, HashAssumption DEF NodesOK, H!Buckets, A!Maybe
<1>3. ASSUME NEW n \in C PROVE [m \in H!Nodes |-> Bar(next[m])][n] = next[n]
  <2>1. n \in H!Nodes /\ next[n] # Wild
    BY <1>1, <1>2, Numbers DEF A!Maybe
  <2>2. QED
    BY <2>1 DEF Bar
<1>4. /\ hash_node_ptr_array[Hash[k]] \in B!Maybe(C)
      /\ \A n \in C : [m \in H!Nodes |-> Bar(next[m])][n] \in B!Maybe(C)
  BY <1>2, <1>3 DEF A!Maybe, B!Maybe
<1>5. /\ A!Walk(k) \in [0 .. MAX_WORD -> A!Maybe(C)]
      /\ A!Walk(k)[0] = hash_node_ptr_array[Hash[k]]
      /\ \A i \in 0 .. MAX_WORD - 1 :
           A!Walk(k)[i + 1] = IF A!Stops(k, A!Walk(k)[i]) THEN A!Walk(k)[i] ELSE next[A!Walk(k)[i]]
  BY <1>2, A!WalkIn, CountsAssumption, HashAssumption, Numbers
<1>6. /\ B!Walk(k) \in [0 .. MAX_WORD -> B!Maybe(C)]
      /\ B!Walk(k)[0] = hash_node_ptr_array[Hash[k]]
      /\ \A i \in 0 .. MAX_WORD - 1 :
           B!Walk(k)[i + 1] = IF B!Stops(k, B!Walk(k)[i]) THEN B!Walk(k)[i]
                              ELSE [m \in H!Nodes |-> Bar(next[m])][B!Walk(k)[i]]
  BY <1>4, B!WalkIn, CountsAssumption, HashAssumption, Numbers
<1> DEFINE a == A!Walk(k)
           b == B!Walk(k)
           Good == {i \in Nat : i <= MAX_WORD => a[i] = b[i]}
<1>7. \A i \in Nat : i \in Good
  <2> HIDE DEF a, b, C
  <2>1. 0 \in Good
    BY <1>5, <1>6 DEF a, b
  <2>2. ASSUME NEW i \in Nat, i \in Good PROVE i + 1 \in Good
    <3> SUFFICES ASSUME i + 1 <= MAX_WORD PROVE a[i + 1] = b[i + 1]
      OBVIOUS
    <3>1. i \in 0 .. MAX_WORD - 1 /\ i \in 0 .. MAX_WORD /\ a[i] = b[i]
      BY <2>2, CountsAssumption
    <3>2. a[i] = NULL \/ a[i] \in C
      BY <1>5, <3>1 DEF a, A!Maybe
    <3>3. a[i + 1] = IF a[i] = NULL \/ key[a[i]] = k THEN a[i] ELSE next[a[i]]
      BY <1>5, <3>1 DEF a, A!Stops
    <3>4. b[i + 1] = IF b[i] = NULL \/ key[b[i]] = k THEN b[i]
                     ELSE [m \in H!Nodes |-> Bar(next[m])][b[i]]
      BY <1>6, <3>1 DEF b, B!Stops
    <3>5. QED
      BY <1>3, <3>1, <3>2, <3>3, <3>4
  <2> HIDE DEF Good
  <2>3. QED
    BY <2>1, <2>2, A!SetInduction, CountsAssumption, HashAssumption, Numbers
<1>8. a = b
  <2> HIDE DEF a, b
  <2>1. \A i \in 0 .. MAX_WORD : a[i] = b[i]
    BY <1>7, CountsAssumption
  <2>2. a = [i \in 0 .. MAX_WORD |-> a[i]] /\ b = [i \in 0 .. MAX_WORD |-> b[i]]
    BY <1>5, <1>6 DEF a, b
  <2>3. QED
    BY <2>1, <2>2
<1>9. A!Walk(k) = H!Walk(k)
  BY DEF A!Walk, H!Walk, A!Stops, H!Stops
<1>10. QED
  BY <1>5, <1>8, <1>9 DEF A!Maybe

SameLookups ==
  \A k \in Keys : B!Node(k) = H!Node(k) /\ B!Lookup(k) = H!Lookup(k)

LEMMA LookupsAgree == NodesOK => SameLookups
BY WalksAgree DEF SameLookups, B!Node, H!Node, B!Lookup, H!Lookup

(* An add of a word that is not in the map does the same, too. *)
LEMMA PointersAgree ==
  ASSUME NodesOK, NEW k \in Keys, H!Node(k) = NULL
  PROVE  /\ B!InBucket(k) <=> H!InBucket(k)
         /\ B!Before(k) = H!Before(k)
<1> DEFINE w == H!Walk(k)
           S == {w[i] : i \in 0 .. MAX_WORD} \ {NULL}
<1>1. B!InBucket(k) <=> H!InBucket(k)
  BY DEF B!InBucket, H!InBucket, B!Stops, H!Stops
<1>2. /\ H!Before(k) = CHOOSE n \in S : next[n] = NULL
      /\ B!Before(k) = CHOOSE n \in S : [m \in H!Nodes |-> Bar(next[m])][n] = NULL
  <2>1. B!Walk(k) = w /\ B!Node(k) = NULL
    BY WalksAgree, LookupsAgree DEF SameLookups
  <2>2. QED
    BY <2>1 DEF H!Before, B!Before
<1>3. ASSUME NEW n \in S PROVE [m \in H!Nodes |-> Bar(next[m])][n] = next[n]
  <2>1. n \in 0 .. UsedNodes - 1
    BY WalksAgree
  <2>2. UsedNodes \in 0 .. MAX_WORD
    BY Numbers, CountsAssumption DEF UsedNodes, NodesOK
  <2>3. n \in H!Nodes /\ n < UsedNodes /\ next[n] # Wild
    BY <2>1, <2>2, Numbers, CountsAssumption DEF NodesOK
  <2>4. QED
    BY <2>3 DEF Bar
<1> HIDE DEF S
<1>4. QED
  BY <1>1, <1>2, <1>3

-----------------------------------------------------------------------------
IInv == ItemsOK /\ NodesOK /\ B!IInv /\ MapOK /\ CountsOK /\ StageOK /\ PrintsAll

LEMMA UsedBound ==
  ASSUME NodesOK
  PROVE  /\ UsedNodes \in 0 .. MAX_WORD
         /\ UsedNodes < MAX_WORD <=> first_free_node \in H!Nodes
         /\ first_free_node \in H!Nodes => first_free_node = UsedNodes
BY Numbers, CountsAssumption DEF UsedNodes, NodesOK

(* The pointer that an add moves is in a node in use, if not in a bucket.  *)
LEMMA BeforeUsed ==
  ASSUME NodesOK, B!IInv, NEW k \in Keys, H!Node(k) = NULL, ~H!InBucket(k)
  PROVE  H!Before(k) \in H!Nodes /\ H!Before(k) < UsedNodes
<1>1. PICK owner \in B!Owners, depth \in B!Depths, len \in B!Lens : B!Shape(owner, depth, len)
  BY DEF B!IInv
<1>2. B!PointerFound(k, owner)
  BY <1>1, B!LookupFinds, CountsAssumption, HashAssumption, Numbers DEF B!IInv
<1>3. B!Before(k) = H!Before(k) /\ B!Node(k) = NULL /\ ~B!InBucket(k)
  BY PointersAgree, LookupsAgree DEF SameLookups
<1>4. H!Before(k) \in H!Nodes /\ owner[H!Before(k)] = Hash[k]
  BY <1>2, <1>3 DEF B!PointerFound, B!Nodes, H!Nodes
<1>5. key[H!Before(k)] \in Keys
  BY <1>1, <1>4, HashAssumption DEF B!Shape, B!KeysOK, B!Buckets, B!Nodes, H!Nodes
<1>6. QED
  BY <1>4, <1>5, Numbers, UsedBound DEF NodesOK

LEMMA AddAgrees ==
  ASSUME NodesOK, B!IInv, NEW k \in Keys, NEW v, H!Node(k) = NULL, first_free_node \in H!Nodes,
         H!Add(k, v)
  PROVE  B!Add(k, v)
<1> DEFINE f == first_free_node
<1>1. Bar(f) = f
  BY Numbers DEF Bar
<1>2. /\ ~crashed /\ UNCHANGED <<found, crashed>>
      /\ hash_node_ptr_array' = H!Heads(k, f)
      /\ next' = [H!Nexts(k, f) EXCEPT ![f] = NULL]
      /\ key' = [key EXCEPT ![f] = k] /\ data' = [data EXCEPT ![f] = v]
      /\ f' = next[f]
  BY DEF H!Add
<1>3. B!Node(k) = NULL /\ (B!InBucket(k) <=> H!InBucket(k)) /\ B!Before(k) = H!Before(k)
  BY PointersAgree, LookupsAgree DEF SameLookups
<1>4. B!Heads(k, f) = H!Heads(k, f)
  BY <1>3 DEF B!Heads, H!Heads
<1>5. [n \in H!Nodes |-> Bar(next'[n])]
        = [B!Nexts(k, f) EXCEPT ![f] = NULL]
  <2>1. ASSUME NEW n \in H!Nodes
        PROVE  next'[n] = IF n = f THEN NULL
                          ELSE IF ~H!InBucket(k) /\ n = H!Before(k) THEN f ELSE next[n]
    BY <1>2 DEF H!Nexts, NodesOK
  <2>2. [B!Nexts(k, f) EXCEPT ![f] = NULL]
          = [n \in H!Nodes |-> IF n = f THEN NULL
                               ELSE IF ~H!InBucket(k) /\ n = H!Before(k) THEN f ELSE Bar(next[n])]
    BY <1>3 DEF B!Nexts
  <2>3. Bar(NULL) = NULL
    BY Numbers DEF Bar
  <2>4. QED
    BY <1>1, <2>1, <2>2, <2>3
<1>6. Bar(f)' = [n \in H!Nodes |-> Bar(next[n])][Bar(f)]
  BY <1>1, <1>2 DEF Bar
<1>7. Bar(f) \in B!Nodes
  BY <1>1 DEF B!Nodes, H!Nodes
<1>8. QED
  BY <1>1, <1>2, <1>3, <1>4, <1>5, <1>6, <1>7 DEF B!Add

(* An add of a new word, for which there is a node, puts its item into the *)
(* map and leaves all others where they are.                               *)
LEMMA AddHolds ==
  ASSUME NodesOK, B!IInv, MapOK, NEW k \in Keys, H!Lookup(k) = NULL,
         UsedNodes < MAX_WORD, H!Add(k, UsedNodes)
  PROVE  /\ NodesOK' /\ (B!IInv)' /\ MapOK' /\ UNCHANGED <<found, crashed>>
         /\ UsedNodes' = UsedNodes + 1
         /\ \A j \in Keys : H!Lookup(j)' = IF j = k THEN UsedNodes ELSE H!Lookup(j)
<1>1. PICK f \in H!Nodes : f = UsedNodes /\ f = first_free_node /\ f \in F!Items
  BY UsedBound, Numbers
<1>2. H!Node(k) = NULL /\ B!Node(k) = NULL
  <2>1. B!Lookup(k) = NULL
    BY LookupsAgree DEF SameLookups
  <2>2. B!Node(k) = NULL
    BY <2>1, B!LookupType, CountsAssumption, HashAssumption, Numbers
  <2>3. QED
    BY <2>2, LookupsAgree DEF SameLookups
<1>3. /\ hash_node_ptr_array' = H!Heads(k, f)
      /\ next' = [H!Nexts(k, f) EXCEPT ![f] = NULL]
      /\ key' = [key EXCEPT ![f] = k] /\ data' = [data EXCEPT ![f] = f]
      /\ first_free_node' = next[f] /\ UNCHANGED <<found, crashed>>
  BY <1>1, <1>2 DEF H!Add
<1>4. /\ hash_node_ptr_array \in [H!Buckets -> H!Nodes \cup {NULL}]
      /\ key \in [H!Nodes -> Keys \cup {NULL}] /\ data \in [H!Nodes -> F!Items \cup {NULL}]
  BY DEF B!IInv, B!TypeOK, B!Maybe, B!Nodes, B!Buckets, H!Nodes, H!Buckets
<1>5. /\ \A n \in H!Nodes : key'[n] = IF n = f THEN k ELSE key[n]
      /\ \A n \in H!Nodes : data'[n] = IF n = f THEN f ELSE data[n]
      /\ \A n \in H!Nodes : next'[n] = IF n = f THEN NULL
                                      ELSE IF ~H!InBucket(k) /\ n = H!Before(k) THEN f ELSE next[n]
      /\ \A b \in H!Buckets : hash_node_ptr_array'[b] \in {hash_node_ptr_array[b], f}
      /\ next' \in [H!Nodes -> H!Nodes \cup {NULL, Wild}]
  BY <1>1, <1>3, <1>4 DEF H!Nexts, H!Heads, NodesOK
<1>6. ~H!InBucket(k) => H!Before(k) \in H!Nodes /\ H!Before(k) < f
  BY <1>1, <1>2, BeforeUsed
<1>7. first_free_node' \in H!Nodes \cup {NULL, Wild} /\ UsedNodes' = f + 1
  <2>1. IF f + 1 < MAX_WORD THEN next[f] = f + 1 ELSE next[f] \in {NULL, Wild}
    BY <1>1, Numbers, CountsAssumption DEF NodesOK
  <2>2. CASE f + 1 < MAX_WORD
    BY <1>1, <1>3, <2>1, <2>2, Numbers, CountsAssumption DEF UsedNodes, H!Nodes
  <2>3. CASE ~(f + 1 < MAX_WORD)
    BY <1>1, <1>3, <2>1, <2>3, Numbers, CountsAssumption DEF UsedNodes, H!Nodes
  <2>4. QED
    BY <2>2, <2>3
<1>8. NodesOK'
  <2>1. f \in Nat /\ f < MAX_WORD /\ MAX_WORD \in Nat
    BY <1>1, Numbers, CountsAssumption
  <2>2. ASSUME NEW b \in H!Buckets
        PROVE  hash_node_ptr_array'[b] \in 0 .. f \cup {NULL}
    BY <1>1, <1>5, <2>1 DEF NodesOK
  <2>3. ASSUME NEW n \in H!Nodes, n < f + 1
        PROVE  key'[n] \in Keys /\ next'[n] \in 0 .. f \cup {NULL}
    <3>1. CASE n = f
      BY <1>5, <3>1
    <3>2. CASE n # f
      <4>1. n < f
        BY <2>1, <2>3, <3>2, Numbers
      <4>2. key[n] \in Keys /\ next[n] \in 0 .. f - 1 \cup {NULL}
        BY <1>1, <4>1 DEF NodesOK
      <4>3. QED
        BY <1>5, <2>1, <3>2, <4>2
    <3>3. QED
      BY <3>1, <3>2
  <2>4. ASSUME NEW n \in H!Nodes, n >= f + 1
        PROVE  /\ key'[n] = NULL
               /\ IF n + 1 < MAX_WORD THEN next'[n] = n + 1 ELSE next'[n] \in {NULL, Wild}
    <3>1. n >= f /\ n # f /\ ~(n < f)
      BY <2>1, <2>4, Numbers
    <3>2. /\ key[n] = NULL
          /\ IF n + 1 < MAX_WORD THEN next[n] = n + 1 ELSE next[n] \in {NULL, Wild}
      BY <1>1, <3>1 DEF NodesOK
    <3>3. next'[n] = next[n] /\ key'[n] = key[n]
      BY <1>5, <1>6, <3>1
    <3>4. QED
      BY <3>2, <3>3
  <2>5. (f + 1) - 1 = f
    BY <2>1
  <2>6. QED
    BY <1>5, <1>7, <2>2, <2>3, <2>4, <2>5 DEF NodesOK, H!Buckets, H!Nodes
<1>9. B!Add(k, f) /\ f \in F!Items
  BY <1>1, <1>2, AddAgrees
<1>10. (B!IInv)'
  <2>1. [B!Next]_B!vars
    BY <1>9 DEF B!Next
  <2>2. QED
    BY <2>1, B!StepInv, CountsAssumption, HashAssumption, Numbers
<1>11. /\ B!Lookup(k)' = f
       /\ \A j \in Keys \ {k} : B!Lookup(j)' = B!Lookup(j)
  <2>1. Bar(first_free_node) \in B!Nodes
    BY <1>1, Numbers DEF Bar, B!Nodes, H!Nodes
  <2>2. QED
    BY <1>2, <1>9, <1>10, <2>1, B!AddNew, CountsAssumption, HashAssumption, Numbers
<1>12. \A j \in Keys : H!Lookup(j)' = IF j = k THEN f ELSE H!Lookup(j)
  <2>1. SameLookups /\ SameLookups'
    BY <1>8, LookupsAgree, PTL
  <2>2. H!Lookup(k)' = f /\ \A j \in Keys \ {k} : H!Lookup(j)' = H!Lookup(j)
    BY <1>11, <2>1 DEF SameLookups
  <2>3. ASSUME NEW j \in Keys, j = k PROVE H!Lookup(j)' = H!Lookup(k)'
    BY <2>3 DEF H!Lookup, H!Node, H!Walk, H!Stops
  <2>4. QED
    BY <2>2, <2>3
<1>13. MapOK'
  <2>1. f \in Nat /\ f < MAX_WORD /\ MAX_WORD \in Nat
    BY <1>1, Numbers, CountsAssumption
  <2>2. ASSUME NEW n \in H!Nodes, n < f + 1
        PROVE  data'[n] = n /\ \A j : j = key'[n] => H!Lookup(j)' = n
    <3>1. CASE n = f
      BY <1>5, <1>12, <3>1
    <3>2. CASE n # f
      <4>1. n < f
        BY <2>1, <2>2, <3>2, Numbers
      <4>2. data[n] = n /\ H!Lookup(key[n]) = n /\ key[n] \in Keys
        BY <1>1, <4>1 DEF MapOK, NodesOK
      <4>3. key[n] # k
        BY <4>2, Numbers
      <4>4. QED
        BY <1>5, <1>12, <3>2, <4>2, <4>3
    <3>3. QED
      BY <3>1, <3>2
  <2>3. ASSUME NEW j \in Keys, NEW m, m = H!Lookup(j)', m # NULL
        PROVE  m \in H!Nodes /\ m < f + 1 /\ key'[m] = j
    <3>1. CASE j = k
      BY <1>5, <1>12, <2>1, <2>3, <3>1
    <3>2. CASE j # k
      <4>1. m = H!Lookup(j)
        BY <1>12, <2>3, <3>2
      <4>2. m \in H!Nodes /\ m < f /\ key[m] = j
        BY <1>1, <2>3, <4>1 DEF MapOK
      <4>3. QED
        BY <1>5, <2>1, <4>2, Numbers
    <3>3. QED
      BY <3>1, <3>2
  <2>4. QED
    BY <1>7, <2>2, <2>3 DEF MapOK, H!Nodes
<1>14. QED
  BY <1>1, <1>3, <1>7, <1>8, <1>10, <1>12, <1>13

(* What a lookup finds depends on the nodes alone. *)
LEMMA QuietNodes ==
  ASSUME NodesOK, B!IInv, MapOK, UNCHANGED H!nodeVars,
         found' \in F!Items \cup {NULL}, crashed' \in BOOLEAN
  PROVE  /\ NodesOK' /\ (B!IInv)' /\ MapOK'
         /\ UsedNodes' = UsedNodes /\ \A k \in Keys : H!Lookup(k)' = H!Lookup(k)
<1>1. /\ hash_node_ptr_array' = hash_node_ptr_array /\ next' = next /\ key' = key
      /\ data' = data /\ first_free_node' = first_free_node
  BY DEF H!nodeVars
<1>2. UsedNodes' = UsedNodes
  BY <1>1 DEF UsedNodes, H!Nodes
<1>3. NodesOK'
  BY <1>1, <1>2 DEF NodesOK, H!Nodes, H!Buckets
<1>4. ASSUME NEW k \in Keys PROVE H!Lookup(k)' = H!Lookup(k)
  <2>1. H!Walk(k)' = H!Walk(k)
    BY <1>1 DEF H!Walk, H!Stops
  <2>2. QED
    BY <1>1, <2>1 DEF H!Lookup, H!Node
<1>5. MapOK'
  <2>1. ASSUME NEW n \in H!Nodes, n < UsedNodes
        PROVE  data'[n] = n /\ \A j : j = key'[n] => H!Lookup(j)' = n
    <3>1. key[n] \in Keys /\ data[n] = n /\ H!Lookup(key[n]) = n
      BY <2>1 DEF NodesOK, MapOK
    <3>2. QED
      BY <1>1, <1>4, <3>1
  <2>2. ASSUME NEW j \in Keys, NEW m, m = H!Lookup(j)', m # NULL
        PROVE  m \in H!Nodes /\ m < UsedNodes /\ key'[m] = j
    BY <1>1, <1>4, <2>2 DEF MapOK
  <2>3. QED
    BY <1>2, <2>1, <2>2 DEF MapOK, H!Nodes
<1>6. (B!IInv)'
  <2>1. UNCHANGED B!nodeVars
    BY <1>1 DEF B!nodeVars, H!Nodes, Bar
  <2>2. \A owner \in B!Owners, depth \in B!Depths, len \in B!Lens :
          B!Shape(owner, depth, len) => B!Shape(owner, depth, len)'
    BY <2>1, B!QuietShape, CountsAssumption, HashAssumption, Numbers
  <2>3. (B!TypeOK)'
    BY <1>1, <2>1 DEF B!IInv, B!TypeOK, B!nodeVars, B!Maybe
  <2>4. QED
    BY <2>2, <2>3 DEF B!IInv
<1>7. QED
  BY <1>2, <1>3, <1>4, <1>5, <1>6

(* The items and nodes a step finds. *)
LEMMA Bounds ==
  ASSUME ItemsOK, NodesOK
  PROVE  /\ UsedNodes \in 0 .. MAX_WORD /\ HandedOut \in 0 .. MAX_WORD
         /\ HandedOut < MAX_WORD <=> first \in F!Items
         /\ first \in F!Items => first = HandedOut
BY UsedBound, Numbers, CountsAssumption DEF HandedOut, ItemsOK

LEMMA TypesKept ==
  ASSUME NodesOK, B!IInv
  PROVE  found \in F!Items \cup {NULL} /\ crashed \in BOOLEAN
BY DEF B!IInv, B!TypeOK, B!Maybe

-----------------------------------------------------------------------------
LEMMA InitHolds == Init => IInv
<1> SUFFICES ASSUME Init PROVE IInv
  OBVIOUS
<1>1. PICK lastItem \in {NULL, Wild} : F!InitOver(lastItem)
  BY DEF Init
<1>2. PICK lastNode \in {NULL, Wild} : H!InitOver(lastNode)
  BY DEF Init
<1>3. UsedNodes = 0 /\ HandedOut = 0
  BY <1>1, <1>2, Numbers, CountsAssumption DEF UsedNodes, HandedOut, F!InitOver, H!InitOver
<1>4. ItemsOK
  <2>1. 0 .. 0 - 1 = {} /\ 0 \in F!Items
    BY Numbers, CountsAssumption
  <2>2. word = [i \in F!Items |-> IF i + 1 \in F!Items THEN i + 1 ELSE lastItem]
    BY <1>1 DEF F!InitOver, F!Cleared
  <2>3. \A i \in F!Items : i + 1 \in F!Items <=> i + 1 < MAX_WORD
    BY Numbers, CountsAssumption
  <2>4. \A i \in F!Items : IF i + 1 < MAX_WORD THEN word[i] = i + 1 ELSE word[i] \in {NULL, Wild}
    BY <2>2, <2>3
  <2>5. word \in [F!Items -> Nat \cup {NULL, Wild}]
    BY <2>2, Numbers
  <2>6. QED
    BY <1>1, <1>3, <2>1, <2>4, <2>5 DEF ItemsOK, F!InitOver
<1>5. NodesOK
  <2>1. 0 .. 0 - 1 = {} /\ 0 \in H!Nodes /\ \A n \in H!Nodes : ~(n < 0)
    BY Numbers, CountsAssumption
  <2>2. next = [n \in H!Nodes |-> IF n < MAX_WORD - 1 THEN n + 1 ELSE lastNode]
    BY <1>2 DEF H!InitOver, H!InitialNext
  <2>3. \A n \in H!Nodes : /\ n < MAX_WORD - 1 <=> n + 1 < MAX_WORD
                           /\ n + 1 < MAX_WORD => n + 1 \in H!Nodes
    BY Numbers, CountsAssumption
  <2>4. /\ next \in [H!Nodes -> H!Nodes \cup {NULL, Wild}]
        /\ \A n \in H!Nodes : IF n + 1 < MAX_WORD THEN next[n] = n + 1 ELSE next[n] \in {NULL, Wild}
    BY <2>2, <2>3
  <2>5. QED
    BY <1>2, <1>3, <2>1, <2>4 DEF NodesOK, H!InitOver
<1>6. B!IInv
  <2>1. [n \in H!Nodes |-> Bar(next[n])] = [n \in B!Nodes |-> B!InitialNext(n, NULL)]
    <3>1. Bar(lastNode) = NULL
      BY DEF Bar
    <3>2. ASSUME NEW n \in H!Nodes, n < MAX_WORD - 1 PROVE Bar(n + 1) = n + 1
      BY Numbers DEF Bar
    <3>3. H!Nodes = B!Nodes
      BY DEF H!Nodes, B!Nodes
    <3>4. QED
      BY <1>2, <3>1, <3>2, <3>3 DEF H!InitOver, H!InitialNext, B!InitialNext
  <2>2. Bar(first_free_node) = 0
    BY <1>2, Numbers DEF H!InitOver, Bar
  <2>3. B!Init
    BY <1>2, <2>1, <2>2 DEF H!InitOver, B!Init, B!InitOver, H!Buckets, B!Buckets, H!Nodes, B!Nodes
  <2>4. QED
    BY <2>3, B!InitShape, CountsAssumption, HashAssumption, Numbers
<1>7. \A k \in Keys : H!Lookup(k) = NULL
  <2> SUFFICES ASSUME NEW k \in Keys PROVE H!Node(k) = NULL
    BY DEF H!Lookup
  <2>1. 0 .. 0 - 1 = {} /\ MAX_WORD \in 0 .. MAX_WORD
    BY CountsAssumption
  <2>2. QED
    BY <1>3, <1>5, <2>1, WalksAgree DEF H!Node
<1>8. MapOK
  BY <1>3, <1>7, Numbers DEF MapOK
<1>9. CountsOK /\ StageOK /\ PrintsAll
  BY <1>1, <1>2, <1>3, <1>7 DEF Init, CountsOK, StageOK, PrintsAll, Busy, Pending, H!InitOver
<1>10. QED
  BY <1>4, <1>5, <1>6, <1>8, <1>9 DEF IInv

-----------------------------------------------------------------------------
(* Every step keeps the invariant. *)
LEMMA ReadHolds ==
  ASSUME IInv, ~crashed, NEW t \in Tokens, Read(t)
  PROVE  IInv'
<1>1. /\ UNCHANGED <<first, word, held, got>> /\ UNCHANGED H!nodeVars
      /\ UNCHANGED <<found, crashed, printed>> /\ pc = "reading" /\ y' = Word[t]
  BY DEF Read, listVars, mapVars, H!nodeVars
<1>2. /\ NodesOK' /\ (B!IInv)' /\ MapOK'
      /\ UsedNodes' = UsedNodes /\ \A k \in Keys : H!Lookup(k)' = H!Lookup(k)
  BY <1>1, QuietNodes, TypesKept DEF IInv
<1>3. ItemsOK' /\ HandedOut' = HandedOut
  BY <1>1 DEF IInv, ItemsOK, HandedOut
<1>4. read \in [Keys -> Nat] /\ y' \in Keys \cup {NULL} /\ ~Busy /\ ~Pending /\ HandedOut = UsedNodes
  BY <1>1, WordAssumption DEF IInv, CountsOK, StageOK, Busy, Pending
<1>5. CASE Word[t] = NULL
  <2>1. pc' = "reading" /\ read' = read /\ ~Busy' /\ ~Pending'
    BY <1>1, <1>5, NullAssumption DEF Read, Busy, Pending
  <2>2. CountsOK'
    BY <1>1, <1>2, <1>4, <2>1 DEF IInv, CountsOK
  <2>3. StageOK' /\ PrintsAll'
    BY <1>1, <1>2, <1>3, <1>4, <2>1 DEF StageOK, PrintsAll
  <2>4. QED
    BY <1>2, <1>3, <2>2, <2>3 DEF IInv
<1>6. CASE Word[t] # NULL
  <2>1. /\ pc' = "finding" /\ y' \in Keys /\ Busy' /\ ~Pending'
        /\ read' = [read EXCEPT ![y'] = @ + 1]
    BY <1>1, <1>4, <1>6 DEF Read, Busy, Pending
  <2>2. CountsOK'
    <3>1. ASSUME NEW k \in Keys
          PROVE  /\ H!Lookup(k)' # NULL => word'[H!Lookup(k)'] \in Nat \ {0}
                 /\ read'[k] = (IF H!Lookup(k)' = NULL THEN 0 ELSE word'[H!Lookup(k)'])
                                 + (IF k = y' THEN 1 ELSE 0)
      <4>1. PICK v : v = H!Lookup(k)
        OBVIOUS
      <4>2. v # NULL => word[v] \in Nat \ {0}
        BY <4>1 DEF IInv, CountsOK
      <4>3. read[k] = (IF v = NULL THEN 0 ELSE word[v]) + 0
        BY <1>4, <4>1 DEF IInv, CountsOK
      <4>4. read'[k] = IF k = y' THEN read[k] + 1 ELSE read[k]
        BY <1>4, <2>1
      <4>5. H!Lookup(k)' = v /\ word' = word
        BY <1>1, <1>2, <4>1
      <4>6. PICK w \in Nat : w = IF v = NULL THEN 0 ELSE word[v]
        BY <4>2
      <4>7. read'[k] = w + (IF k = y' THEN 1 ELSE 0)
        BY <4>3, <4>4, <4>6
      <4>8. QED
        BY <4>2, <4>5, <4>6, <4>7
    <3>2. read' \in [Keys -> Nat]
      BY <1>4, <2>1
    <3>3. QED
      BY <2>1, <3>1, <3>2 DEF CountsOK
  <2>3. StageOK' /\ PrintsAll'
    BY <1>1, <1>2, <1>3, <1>4, <2>1 DEF StageOK, PrintsAll
  <2>4. QED
    BY <1>2, <1>3, <2>2, <2>3 DEF IInv
<1>7. QED
  BY <1>5, <1>6

(* The counts are about words and their items: they change only where one  *)
(* of them does.                                                           *)
LEMMA CountsKept ==
  ASSUME CountsOK, Busy, Busy', UNCHANGED <<word, read, y>>,
         \A k \in Keys : H!Lookup(k)' = H!Lookup(k)
  PROVE  CountsOK'
BY DEF CountsOK

LEMMA FindHolds ==
  ASSUME IInv, ~crashed, Find
  PROVE  IInv'
<1>1. /\ UNCHANGED <<first, word, held, got, y, read, printed, crashed>> /\ UNCHANGED H!nodeVars
      /\ pc = "finding" /\ y \in Keys /\ found' = H!Lookup(y)
      /\ pc' = IF found' = NULL THEN "getting" ELSE "counting"
  BY DEF Find, listVars, H!Find, IInv, StageOK, Busy
<1>2. found' \in F!Items \cup {NULL}
  BY <1>1, Numbers DEF IInv, MapOK, H!Nodes
<1>3. /\ NodesOK' /\ (B!IInv)' /\ MapOK'
      /\ UsedNodes' = UsedNodes /\ \A k \in Keys : H!Lookup(k)' = H!Lookup(k)
  BY <1>1, <1>2, QuietNodes, TypesKept DEF IInv
<1>4. ItemsOK' /\ HandedOut' = HandedOut
  BY <1>1 DEF IInv, ItemsOK, HandedOut
<1>5. Busy /\ Busy' /\ ~Pending /\ ~Pending' /\ pc' \in {"getting", "counting"}
  BY <1>1 DEF Busy, Pending
<1>6. CountsOK'
  BY <1>1, <1>3, <1>5, CountsKept DEF IInv
<1>7. StageOK' /\ PrintsAll'
  BY <1>1, <1>3, <1>4, <1>5 DEF IInv, StageOK, PrintsAll
<1>8. QED
  BY <1>3, <1>4, <1>6, <1>7 DEF IInv

LEMMA CountHolds ==
  ASSUME IInv, ~crashed, Count
  PROVE  IInv'
<1>1. /\ UNCHANGED <<first, held, got, y, read, printed, crashed, found>> /\ UNCHANGED H!nodeVars
      /\ pc = "counting" /\ pc' = "reading"
      /\ word' = [word EXCEPT ![found] = @ + 1]
  BY DEF Count, mapVars, H!nodeVars
<1>2. y \in Keys /\ found = H!Lookup(y) /\ found # NULL
  BY <1>1 DEF IInv, StageOK, Busy
<1>3. /\ NodesOK' /\ (B!IInv)' /\ MapOK'
      /\ UsedNodes' = UsedNodes /\ \A k \in Keys : H!Lookup(k)' = H!Lookup(k)
  BY <1>1, QuietNodes, TypesKept DEF IInv
<1>4. PICK f \in F!Items : f = found /\ f < UsedNodes /\ word[f] \in Nat \ {0}
  BY <1>2, Numbers DEF IInv, MapOK, CountsOK
<1>5. ~Pending /\ ~Pending' /\ Busy /\ ~Busy' /\ HandedOut = UsedNodes
  BY <1>1 DEF Pending, Busy, IInv, StageOK
<1>6. PICK v \in Nat \ {0} :
        /\ v = word[f] + 1 /\ word'[f] = v
        /\ \A i \in F!Items : i # f => word'[i] = word[i]
        /\ word' \in [F!Items -> Nat \cup {NULL, Wild}]
  <2>1. PICK v \in Nat \ {0} : v = word[f] + 1
    BY <1>4
  <2>2. word \in [F!Items -> Nat \cup {NULL, Wild}]
    BY DEF IInv, ItemsOK
  <2>3. word' = [word EXCEPT ![f] = v]
    BY <1>1, <1>4, <2>1
  <2>4. QED
    BY <2>1, <2>2, <2>3
<1>7. ItemsOK' /\ HandedOut' = HandedOut
  <2>1. HandedOut' = HandedOut
    BY <1>1 DEF HandedOut
  <2>2. ASSUME NEW i \in F!Items, i >= HandedOut
        PROVE  IF i + 1 < MAX_WORD THEN word'[i] = i + 1 ELSE word'[i] \in {NULL, Wild}
    <3>1. UsedNodes \in Nat /\ i \in Nat /\ f \in Nat
      BY Numbers, Bounds DEF IInv
    <3>2. i # f
      BY <1>4, <1>5, <2>2, <3>1
    <3>3. IF i + 1 < MAX_WORD THEN word[i] = i + 1 ELSE word[i] \in {NULL, Wild}
      BY <2>2 DEF IInv, ItemsOK
    <3>4. word'[i] = word[i]
      BY <1>6, <3>2
    <3>5. QED
      BY <3>3, <3>4
  <2>3. QED
    BY <1>1, <1>6, <2>1, <2>2 DEF IInv, ItemsOK
<1>8. CountsOK'
  <2>1. ASSUME NEW k \in Keys
        PROVE  /\ H!Lookup(k)' # NULL => word'[H!Lookup(k)'] \in Nat \ {0}
               /\ read[k] = (IF H!Lookup(k)' = NULL THEN 0 ELSE word'[H!Lookup(k)']) + 0
    <3>1. PICK u : u = H!Lookup(k)
      OBVIOUS
    <3>2. /\ u # NULL => u \in F!Items /\ key[u] = k /\ word[u] \in Nat \ {0}
          /\ read[k] = (IF u = NULL THEN 0 ELSE word[u]) + (IF k = y THEN 1 ELSE 0)
      BY <1>5, <3>1, Numbers DEF IInv, MapOK, CountsOK
    <3>3. u = f <=> k = y
      BY <1>2, <1>4, <3>1, <3>2 DEF IInv, MapOK
    <3>4. u # NULL /\ u # f => word'[u] = word[u]
      BY <1>6, <3>2
    <3>5. CASE k = y
      <4>1. u = f /\ u # NULL /\ H!Lookup(k)' = u
        BY <1>2, <1>3, <1>4, <3>1, <3>3, <3>5
      <4>2. word'[u] = v /\ read[k] = v + 0
        BY <1>6, <3>2, <3>5, <4>1
      <4>3. QED
        BY <4>1, <4>2
    <3>6. CASE k # y
      <4>1. u # NULL => word'[u] = word[u]
        BY <3>3, <3>4, <3>6
      <4>2. QED
        BY <1>3, <3>1, <3>2, <3>6, <4>1
    <3>7. QED
      BY <3>5, <3>6
  <2>2. QED
    BY <1>1, <1>5, <2>1 DEF IInv, CountsOK
<1>9. StageOK' /\ PrintsAll'
  BY <1>1, <1>3, <1>5, <1>7 DEF IInv, StageOK, PrintsAll
<1>10. QED
  BY <1>3, <1>7, <1>8, <1>9 DEF IInv

LEMMA CrashHolds ==
  ASSUME IInv, Crash, pc \in {"getting", "filling"}, UsedNodes = MAX_WORD
  PROVE  IInv'
<1>1. /\ UNCHANGED <<first, word, held, got, y, read, printed, pc, found>> /\ UNCHANGED H!nodeVars
      /\ crashed' = TRUE
  BY DEF Crash, listVars, mapVars, H!nodeVars
<1>2. /\ NodesOK' /\ (B!IInv)' /\ MapOK'
      /\ UsedNodes' = UsedNodes /\ \A k \in Keys : H!Lookup(k)' = H!Lookup(k)
  BY <1>1, QuietNodes, TypesKept DEF IInv
<1>3. ItemsOK' /\ HandedOut' = HandedOut
  BY <1>1 DEF IInv, ItemsOK, HandedOut
<1>4. Busy /\ Busy' /\ (Pending' <=> Pending)
  BY <1>1 DEF Busy, Pending
<1>5. CountsOK'
  BY <1>1, <1>2, <1>4, CountsKept DEF IInv
<1>6. StageOK' /\ PrintsAll'
  BY <1>1, <1>2, <1>3, <1>4 DEF IInv, StageOK, PrintsAll
<1>7. QED
  BY <1>2, <1>3, <1>5, <1>6 DEF IInv

LEMMA GetHolds ==
  ASSUME IInv, ~crashed, Get
  PROVE  IInv'
<1>1. pc = "getting" /\ ~Pending /\ Busy /\ HandedOut = UsedNodes /\ y \in Keys
  BY DEF Get, Pending, Busy, IInv, StageOK
<1>2. CASE first = Wild /\ Crash
  <2>1. UsedNodes = MAX_WORD
    BY <1>1, <1>2, Numbers DEF HandedOut
  <2>2. QED
    BY <1>1, <1>2, <2>1, CrashHolds
<1>3. CASE first # Wild /\ F!Get("main") /\ pc' = "filling" /\ UNCHANGED <<mapVars, crashed, y, read, printed>>
  <2>1. UNCHANGED H!nodeVars /\ UNCHANGED <<found, crashed, y, read, printed, word>>
    BY <1>3 DEF mapVars, H!nodeVars, F!Get
  <2>2. /\ NodesOK' /\ (B!IInv)' /\ MapOK'
        /\ UsedNodes' = UsedNodes /\ \A k \in Keys : H!Lookup(k)' = H!Lookup(k)
    BY <2>1, QuietNodes, TypesKept DEF IInv
  <2>3. CountsOK'
    <3>1. Busy'
      BY <1>3 DEF Busy
    <3>2. QED
      BY <1>1, <2>1, <2>2, <3>1, CountsKept DEF IInv
  <2>4. PrintsAll'
    BY <1>3 DEF PrintsAll
  <2>5. H!Lookup(y)' = NULL /\ y' = y /\ crashed' = FALSE
    BY <1>1, <2>1, <2>2, TypesKept DEF IInv, StageOK
  <2>6. CASE first # NULL
    <3>1. PICK h \in F!Items : h = first /\ h = HandedOut /\ h = UsedNodes
      BY <1>1, <1>3, <2>6, Bounds DEF IInv, ItemsOK
    <3>2. /\ first' = word[h] /\ held' = [held EXCEPT !["main"] = @ \cup {h}]
          /\ got' = [got EXCEPT !["main"] = h]
      BY <1>3, <2>6, <3>1 DEF F!Get, F!AfterFirst
    <3>3. /\ held = [u \in {"main"} |-> 0 .. h - 1]
          /\ got \in [{"main"} -> F!Items \cup {NULL}]
          /\ \A i \in F!Items : i >= h =>
               IF i + 1 < MAX_WORD THEN word[i] = i + 1 ELSE word[i] \in {NULL, Wild}
      BY <3>1 DEF IInv, ItemsOK
    <3>4. h \in Nat /\ h < MAX_WORD /\ h >= h /\ MAX_WORD \in Nat
      BY Numbers, CountsAssumption
    <3>5. HandedOut' = h + 1 /\ first' \in F!Items \cup {NULL, Wild}
      <4>1. IF h + 1 < MAX_WORD THEN first' = h + 1 ELSE first' \in {NULL, Wild}
        BY <3>2, <3>3, <3>4
      <4>2. CASE h + 1 < MAX_WORD
        <5>1. first' = h + 1 /\ h + 1 \in F!Items
          BY <3>4, <4>1, <4>2, Numbers
        <5>2. QED
          BY <5>1 DEF HandedOut, F!Items, F!NumItems
      <4>3. CASE ~(h + 1 < MAX_WORD)
        <5>1. first' \in {NULL, Wild} /\ first' \notin F!Items /\ h + 1 = MAX_WORD
          BY <3>4, <4>1, <4>3, Numbers
        <5>2. QED
          BY <5>1 DEF HandedOut, F!Items, F!NumItems
      <4>4. QED
        BY <4>2, <4>3
    <3>6. held' = [u \in {"main"} |-> 0 .. h]
      <4>1. 0 .. h - 1 \cup {h} = 0 .. h
        BY <3>4
      <4>2. QED
        BY <3>2, <3>3, <4>1
    <3>7. got' \in [{"main"} -> F!Items \cup {NULL}] /\ got'["main"] = h
      BY <3>2, <3>3
    <3>8. ItemsOK'
      <4>1. (h + 1) - 1 = h /\ \A i \in F!Items : i >= h + 1 => i >= h
        BY <3>4, Numbers
      <4>2. word \in [F!Items -> Nat \cup {NULL, Wild}]
        BY DEF IInv, ItemsOK
      <4>3. QED
        BY <2>1, <3>3, <3>5, <3>6, <3>7, <4>1, <4>2 DEF ItemsOK, F!Items, F!NumItems
    <3>9. StageOK'
      <4>1. h # NULL
        BY Numbers
      <4>2. Pending' /\ Busy' /\ pc' = "filling"
        BY <1>3, <3>7, <4>1 DEF Pending, Busy
      <4>3. QED
        BY <1>1, <2>2, <2>5, <3>1, <3>5, <3>7, <4>2 DEF StageOK
    <3>10. QED
      BY <2>2, <2>3, <2>4, <3>8, <3>9 DEF IInv
  <2>7. CASE first = NULL
    <3>1. /\ first' = first /\ held' = held /\ got' = [got EXCEPT !["main"] = NULL]
          /\ UsedNodes = MAX_WORD
      BY <1>1, <1>3, <2>7, Numbers DEF F!Get, HandedOut
    <3>2. got' \in [{"main"} -> F!Items \cup {NULL}] /\ got'["main"] = NULL
      BY <3>1 DEF IInv, ItemsOK
    <3>3. ItemsOK' /\ HandedOut' = HandedOut
      BY <2>1, <3>1, <3>2 DEF IInv, ItemsOK, HandedOut, F!Items, F!NumItems
    <3>4. ~Pending' /\ Busy' /\ pc' = "filling"
      BY <1>3, <3>2 DEF Pending, Busy
    <3>5. StageOK'
      BY <1>1, <2>2, <2>5, <3>1, <3>3, <3>4 DEF StageOK
    <3>6. QED
      BY <2>2, <2>3, <2>4, <3>3, <3>5 DEF IInv
  <2>8. QED
    BY <2>6, <2>7
<1>4. QED
  BY <1>2, <1>3 DEF Get

LEMMA FillHolds ==
  ASSUME IInv, ~crashed, Fill
  PROVE  IInv'
<1>1. pc = "filling" /\ Busy
  BY DEF Fill, Busy
<1>2. CASE got["main"] = NULL /\ Crash
  <2>1. UsedNodes = MAX_WORD
    BY <1>1, <1>2 DEF IInv, StageOK, Pending
  <2>2. QED
    BY <1>1, <1>2, <2>1, CrashHolds
<1>3. CASE /\ got["main"] # NULL
           /\ word' = [word EXCEPT ![got["main"]] = 1]
           /\ pc' = "adding"
           /\ UNCHANGED <<first, held, got, mapVars, crashed, y, read, printed>>
  <2>1. UNCHANGED H!nodeVars /\ UNCHANGED <<found, crashed, y, read, printed, first, held, got>>
    BY <1>3 DEF mapVars, H!nodeVars
  <2>2. /\ NodesOK' /\ (B!IInv)' /\ MapOK'
        /\ UsedNodes' = UsedNodes /\ \A k \in Keys : H!Lookup(k)' = H!Lookup(k)
    BY <2>1, QuietNodes, TypesKept DEF IInv
  <2>3. /\ Pending /\ Pending' /\ Busy' /\ HandedOut = UsedNodes + 1
        /\ H!Lookup(y) = NULL /\ y \in Keys
    BY <1>1, <1>3 DEF IInv, StageOK, Pending, Busy
  <2>4. PICK g \in F!Items : g = got["main"] /\ g = UsedNodes /\ g \in Nat
    <3>1. got["main"] \in F!Items \cup {NULL} /\ got["main"] = UsedNodes
      BY <2>3 DEF IInv, ItemsOK, StageOK
    <3>2. QED
      BY <1>3, <3>1, Numbers
  <2>5. /\ word'[g] = 1 /\ word' \in [F!Items -> Nat \cup {NULL, Wild}]
        /\ \A i \in F!Items : i # g => word'[i] = word[i]
    <3>1. word \in [F!Items -> Nat \cup {NULL, Wild}]
      BY DEF IInv, ItemsOK
    <3>2. QED
      BY <1>3, <2>4, <3>1
  <2>6. ItemsOK' /\ HandedOut' = HandedOut
    <3>1. HandedOut' = HandedOut
      BY <2>1 DEF HandedOut, F!Items, F!NumItems
    <3>2. \A i \in F!Items : i >= HandedOut => i # g
      BY <2>3, <2>4, Numbers
    <3>3. ASSUME NEW i \in F!Items, i >= HandedOut
          PROVE  IF i + 1 < MAX_WORD THEN word'[i] = i + 1 ELSE word'[i] \in {NULL, Wild}
      <4>1. IF i + 1 < MAX_WORD THEN word[i] = i + 1 ELSE word[i] \in {NULL, Wild}
        BY <3>3 DEF IInv, ItemsOK
      <4>2. word'[i] = word[i]
        BY <2>5, <3>2, <3>3
      <4>3. QED
        BY <4>1, <4>2
    <3>4. QED
      BY <2>1, <2>5, <3>1, <3>3 DEF IInv, ItemsOK, F!Items, F!NumItems
  <2>7. CountsOK'
    <3>1. ASSUME NEW k \in Keys, NEW u, u = H!Lookup(k), u # NULL PROVE word'[u] = word[u]
      <4>1. u \in F!Items /\ u < g
        BY <2>4, <3>1, Numbers DEF IInv, MapOK
      <4>2. u # g
        BY <2>4, <4>1
      <4>3. QED
        BY <2>5, <4>1, <4>2
    <3>2. ASSUME NEW k \in Keys
          PROVE  /\ H!Lookup(k)' # NULL => word'[H!Lookup(k)'] \in Nat \ {0}
                 /\ read[k] = (IF H!Lookup(k)' = NULL THEN 0 ELSE word'[H!Lookup(k)'])
                                + (IF k = y THEN 1 ELSE 0)
      <4>1. PICK u : u = H!Lookup(k) /\ H!Lookup(k)' = u
        BY <2>2
      <4>2. /\ u # NULL => word[u] \in Nat \ {0}
            /\ read[k] = (IF u = NULL THEN 0 ELSE word[u]) + (IF k = y THEN 1 ELSE 0)
        BY <1>1, <4>1 DEF IInv, CountsOK
      <4>3. u # NULL => word'[u] = word[u]
        BY <3>1, <4>1
      <4>4. CASE u = NULL
        BY <4>1, <4>2, <4>4
      <4>5. CASE u # NULL
        BY <4>1, <4>2, <4>3, <4>5
      <4>6. QED
        BY <4>4, <4>5
    <3>3. QED
      BY <2>1, <2>3, <3>2 DEF IInv, CountsOK
  <2>8. StageOK' /\ PrintsAll'
    BY <1>3, <2>1, <2>2, <2>3, <2>4, <2>5, <2>6 DEF StageOK, PrintsAll
  <2>9. QED
    BY <2>2, <2>6, <2>7, <2>8 DEF IInv
<1>4. QED
  BY <1>2, <1>3 DEF Fill

LEMMA AddStepHolds ==
  ASSUME IInv, ~crashed, Add
  PROVE  IInv'
<1>1. /\ pc = "adding" /\ pc' = "reading" /\ H!Add(y, got["main"])
      /\ UNCHANGED <<first, word, held, got, y, read, printed>>
  BY DEF Add, listVars
<1>2. PICK v \in Keys :
        /\ v = y /\ H!Lookup(v) = NULL /\ H!Add(v, UsedNodes)
        /\ Busy /\ ~Busy' /\ Pending /\ ~Pending' /\ HandedOut = UsedNodes + 1
        /\ got["main"] = UsedNodes /\ word[UsedNodes] = 1
  BY <1>1 DEF IInv, StageOK, Pending, Busy
<1>3. UsedNodes \in Nat /\ UsedNodes < MAX_WORD
  <2>1. UsedNodes \in Nat /\ HandedOut \in Nat /\ HandedOut <= MAX_WORD /\ MAX_WORD \in Nat
    BY Bounds, CountsAssumption DEF IInv
  <2>2. QED
    BY <1>2, <2>1
<1>4. PICK g \in Nat : g = UsedNodes
  BY <1>3
<1>5. /\ NodesOK' /\ (B!IInv)' /\ MapOK' /\ UNCHANGED <<found, crashed>>
      /\ UsedNodes' = g + 1
      /\ \A j \in Keys : H!Lookup(j)' = IF j = v THEN g ELSE H!Lookup(j)
  BY <1>2, <1>3, <1>4, AddHolds DEF IInv
<1>6. ItemsOK' /\ HandedOut' = HandedOut
  BY <1>1 DEF IInv, ItemsOK, HandedOut
<1>7. CountsOK'
  <2>1. ASSUME NEW k \in Keys
        PROVE  /\ H!Lookup(k)' # NULL => word[H!Lookup(k)'] \in Nat \ {0}
               /\ read[k] = (IF H!Lookup(k)' = NULL THEN 0 ELSE word[H!Lookup(k)']) + 0
    <3>1. CASE k = v
      <4>1. read[k] = 0 + 1
        BY <1>2, <3>1 DEF IInv, CountsOK
      <4>2. word[g] = 1 /\ g # NULL
        BY <1>2, <1>4, NullAssumption
      <4>3. QED
        BY <1>5, <3>1, <4>1, <4>2
    <3>2. CASE k # v
      <4>1. H!Lookup(k)' = H!Lookup(k)
        BY <1>5, <3>2
      <4>2. /\ H!Lookup(k) # NULL => word[H!Lookup(k)] \in Nat \ {0}
            /\ read[k] = (IF H!Lookup(k) = NULL THEN 0 ELSE word[H!Lookup(k)]) + 0
        BY <1>2, <3>2 DEF IInv, CountsOK
      <4>3. QED
        BY <4>1, <4>2
    <3>3. QED
      BY <3>1, <3>2
  <2>2. QED
    BY <1>1, <1>2, <2>1 DEF IInv, CountsOK
<1>8. StageOK' /\ PrintsAll'
  BY <1>1, <1>2, <1>4, <1>5, <1>6 DEF IInv, StageOK, PrintsAll
<1>9. QED
  BY <1>5, <1>6, <1>7, <1>8 DEF IInv

-----------------------------------------------------------------------------
(* The words in the map: one for each node in use. *)
Mapped == {k \in Keys : H!Lookup(k) # NULL}

LEMMA MappedCount ==
  ASSUME IInv
  PROVE  IsFiniteSet(Mapped) /\ Cardinality(Mapped) = UsedNodes
<1> DEFINE T == 0 .. UsedNodes - 1
           f == [k \in Mapped |-> H!Lookup(k)]
<1>1. UsedNodes \in Nat /\ UsedNodes <= MAX_WORD /\ MAX_WORD \in Nat
  BY UsedBound, CountsAssumption DEF IInv
<1>2. IsFiniteSet(T) /\ Cardinality(T) = UsedNodes
  BY <1>1, FS_Interval
<1>3. ASSUME NEW k \in Mapped PROVE f[k] \in T /\ key[f[k]] = k
  <2>1. f[k] = H!Lookup(k) /\ f[k] \in H!Nodes /\ f[k] < UsedNodes /\ key[f[k]] = k
    BY DEF Mapped, IInv, MapOK
  <2>2. QED
    BY <1>1, <2>1, Numbers
<1>4. ASSUME NEW n \in T PROVE key[n] \in Mapped /\ f[key[n]] = n
  <2>1. n \in H!Nodes /\ n < UsedNodes
    BY <1>1, Numbers
  <2>2. key[n] \in Keys /\ H!Lookup(key[n]) = n /\ n # NULL
    BY <2>1, Numbers DEF IInv, NodesOK, MapOK
  <2>3. QED
    BY <2>2 DEF Mapped
<1>5. f \in Bijection(Mapped, T)
  <2> HIDE DEF T, f
  <2>1. f \in [Mapped -> T]
    <3>1. f = [k \in Mapped |-> f[k]]
      BY DEF f
    <3>2. QED
      BY <1>3, <3>1
  <2>2. \A k, l \in Mapped : f[k] = f[l] => k = l
    BY <1>3
  <2>3. \A n \in T : \E k \in Mapped : f[k] = n
    BY <1>4
  <2>4. QED
    BY <2>1, <2>2, <2>3, Fun_IsBij
<1> HIDE DEF T, f
<1>6. \E g : g \in Injection(Mapped, T) /\ g \in Surjection(Mapped, T)
  BY <1>5 DEF Bijection
<1>7. QED
  BY <1>2, <1>6, FS_Injection

LEMMA WordsMapped ==
  ASSUME IInv
  PROVE  /\ Words = IF Busy THEN Mapped \cup {y} ELSE Mapped
         /\ ~Busy => \A k \in Words : read[k] = word[H!Lookup(k)]
<1>1. ASSUME NEW k \in Keys
      PROVE  /\ read[k] > 0 <=> k \in Mapped \/ (Busy /\ k = y)
             /\ ~Busy /\ k \in Mapped => read[k] = word[H!Lookup(k)]
  <2>1. PICK w \in Nat : w = IF H!Lookup(k) = NULL THEN 0 ELSE word[H!Lookup(k)]
    BY DEF IInv, CountsOK
  <2>2. w > 0 <=> H!Lookup(k) # NULL
    BY <2>1 DEF IInv, CountsOK
  <2>3. read[k] = w + (IF Busy /\ k = y THEN 1 ELSE 0)
    BY <2>1 DEF IInv, CountsOK
  <2>4. QED
    BY <2>1, <2>2, <2>3 DEF Mapped
<1>2. Mapped \subseteq Keys /\ (Busy => y \in Keys)
  BY DEF Mapped, IInv, StageOK
<1>3. QED
  BY <1>1, <1>2 DEF Words

-----------------------------------------------------------------------------
(* hashmap_print_nodes prints each node in use once. *)
LEMMA BehindAgrees ==
  ASSUME NodesOK, NEW b \in H!Buckets, NEW i \in Nat
  PROVE  /\ H!Behind(hash_node_ptr_array[b], i) \in 0 .. UsedNodes - 1 \cup {NULL}
         /\ B!Behind(hash_node_ptr_array[b], i) = H!Behind(hash_node_ptr_array[b], i)
<1> DEFINE C == 0 .. UsedNodes - 1
           h == hash_node_ptr_array[b]
<1>1. UsedNodes \in 0 .. MAX_WORD /\ C \subseteq H!Nodes
  BY Numbers, CountsAssumption DEF UsedNodes, NodesOK
<1>2. h \in A!Maybe(C) /\ \A n \in C : next[n] \in A!Maybe(C)
  BY <1>1 DEF NodesOK, A!Maybe
<1>3. ASSUME NEW n \in C PROVE [m \in H!Nodes |-> Bar(next[m])][n] = next[n]
  <2>1. n \in H!Nodes /\ next[n] # Wild
    BY <1>1, <1>2, Numbers DEF A!Maybe
  <2>2. QED
    BY <2>1 DEF Bar
<1>4. h \in B!Maybe(C) /\ \A n \in C : [m \in H!Nodes |-> Bar(next[m])][n] \in B!Maybe(C)
  BY <1>2, <1>3 DEF A!Maybe, B!Maybe
<1>5. /\ A!Behind(h, 0) = h
      /\ \A j \in Nat : /\ A!Behind(h, j) \in A!Maybe(C)
                       /\ A!Behind(h, j + 1) = IF A!Behind(h, j) = NULL THEN NULL
                                               ELSE next[A!Behind(h, j)]
  BY <1>2, A!BehindIn, CountsAssumption, HashAssumption, Numbers
<1>6. /\ B!Behind(h, 0) = h
      /\ \A j \in Nat : /\ B!Behind(h, j) \in B!Maybe(C)
                       /\ B!Behind(h, j + 1) = IF B!Behind(h, j) = NULL THEN NULL
                                               ELSE [m \in H!Nodes |-> Bar(next[m])][B!Behind(h, j)]
  BY <1>4, B!BehindIn, CountsAssumption, HashAssumption, Numbers
<1> DEFINE Good == {j \in Nat : A!Behind(h, j) = B!Behind(h, j)}
<1>7. \A j \in Nat : j \in Good
  <2> HIDE DEF h, C
  <2>1. 0 \in Good
    BY <1>5, <1>6
  <2>2. ASSUME NEW j \in Nat, j \in Good PROVE j + 1 \in Good
    <3>1. PICK a : a = A!Behind(h, j) /\ a = B!Behind(h, j) /\ (a = NULL \/ a \in C)
      BY <1>5, <2>2 DEF A!Maybe
    <3>2. /\ A!Behind(h, j + 1) = IF a = NULL THEN NULL ELSE next[a]
          /\ B!Behind(h, j + 1) = IF a = NULL THEN NULL ELSE [m \in H!Nodes |-> Bar(next[m])][a]
      BY <1>5, <1>6, <3>1
    <3>3. QED
      BY <1>3, <3>1, <3>2
  <2> HIDE DEF Good
  <2>3. QED
    BY <2>1, <2>2, A!SetInduction, CountsAssumption, HashAssumption, Numbers
<1>8. A!Behind(h, i) = H!Behind(h, i)
  BY DEF A!Behind, H!Behind
<1>9. QED
  BY <1>5, <1>7, <1>8 DEF A!Maybe

LEMMA LinesOfWords ==
  ASSUME IInv, pc = "reading"
  PROVE  \E f \in Bijection(Words, H!Lines(word)) :
           \A k \in Words : f[k].key = k /\ f[k].count = read[k]
<1>1. PICK owner \in B!Owners, depth \in B!Depths, len \in B!Lens : B!Shape(owner, depth, len)
  BY DEF IInv, B!IInv
<1>2. Words = Mapped /\ \A k \in Words : read[k] = word[H!Lookup(k)]
  BY WordsMapped DEF Busy
<1>3. /\ UsedNodes \in Nat /\ UsedNodes <= MAX_WORD /\ MAX_WORD \in Nat
      /\ H!Nodes = 0 .. MAX_WORD - 1 /\ H!Buckets = 0 .. HashCount - 1 /\ HashCount \in Nat
  BY UsedBound, Numbers, CountsAssumption DEF IInv, H!Buckets
<1> DEFINE at == {p \in H!Buckets \X (0 .. MAX_WORD - 1) :
                    \A d \in 0 .. p[2] : H!Behind(hash_node_ptr_array[p[1]], d) # NULL}
           Line(n, b, d) == [bucket |-> b, depth |-> d, key |-> key[n], count |-> word[data[n]],
                             next |-> IF next[n] = NULL THEN NULL ELSE key[next[n]]]
           LineAt(p) == Line(H!Behind(hash_node_ptr_array[p[1]], p[2]), p[1], p[2])
<1>4. H!Lines(word) = {LineAt(p) : p \in at}
  BY DEF H!Lines, H!Prints, H!Buckets
<1>5. ASSUME NEW b \in H!Buckets, NEW i \in Nat, NEW n, n = H!Behind(hash_node_ptr_array[b], i)
      PROVE  IF i < len[b] THEN n \in H!Nodes /\ n < UsedNodes /\ owner[n] = b /\ depth[n] = i
                           ELSE n = NULL
  <2>1. n = B!Behind(hash_node_ptr_array[b], i) /\ n \in 0 .. UsedNodes - 1 \cup {NULL}
    BY <1>5, BehindAgrees DEF IInv
  <2>2. b \in B!Lists /\ B!Head(b) = hash_node_ptr_array[b]
    BY <1>3 DEF B!Lists, B!Head, B!FreeList
  <2>3. IF i < len[b] THEN /\ B!Behind(B!Head(b), i) \in B!Nodes
                           /\ owner[B!Behind(B!Head(b), i)] = b
                           /\ depth[B!Behind(B!Head(b), i)] = i
        ELSE B!Behind(B!Head(b), i) = NULL
    BY <1>1, <2>2, B!Position, CountsAssumption, HashAssumption, Numbers DEF IInv, B!IInv
  <2>4. IF i < len[b] THEN n \in H!Nodes /\ owner[n] = b /\ depth[n] = i ELSE n = NULL
    BY <2>1, <2>2, <2>3 DEF B!Nodes, H!Nodes
  <2>5. i < len[b] => n < UsedNodes
    BY <1>3, <2>1, <2>4, Numbers
  <2>6. QED
    BY <2>4, <2>5
(* Every word has a place. *)
<1>6. ASSUME NEW k \in Words, NEW n, n = H!Lookup(k)
      PROVE  /\ n \in H!Nodes /\ n < UsedNodes /\ key[n] = k /\ data[n] = n
             /\ owner[n] \in H!Buckets /\ depth[n] \in Nat /\ depth[n] < len[owner[n]]
  <2>1. k \in Keys /\ n # NULL
    BY <1>2, <1>6 DEF Mapped
  <2>2. n \in H!Nodes /\ n < UsedNodes /\ key[n] = k /\ data[n] = n
    BY <1>6, <2>1 DEF IInv, MapOK
  <2>3. B!LookupsOK /\ B!Node(k) = H!Node(k)
    BY <2>1, LookupsAgree, B!Lookups, CountsAssumption, HashAssumption, Numbers
       DEF IInv, B!IInv, SameLookups
  <2>4. PICK m : m = H!Node(k) /\ m # NULL /\ data[m] = n
    BY <1>6, <2>1 DEF H!Lookup
  <2>5. m \in H!Nodes /\ owner[m] = Hash[k] /\ key[m] = k
    BY <1>1, <2>1, <2>3, <2>4 DEF B!LookupsOK, B!Nodes, H!Nodes
  <2>6. m = n
    <3>1. m < UsedNodes
      BY <1>3, <2>1, <2>5, Numbers DEF IInv, NodesOK
    <3>2. QED
      BY <2>4, <2>5, <3>1 DEF IInv, MapOK
  <2>7. owner[n] \in H!Buckets /\ owner[n] \in B!Lists
    BY <1>3, <2>1, <2>5, <2>6, HashAssumption DEF B!Lists
  <2>8. depth[n] < len[owner[n]] /\ depth[n] \in Nat
    BY <1>1, <2>2, <2>7 DEF B!Shape, B!NextsOK, B!Depths, B!Nodes, H!Nodes
  <2>9. QED
    BY <2>2, <2>7, <2>8
<1>7. ASSUME NEW k \in Words, NEW n, n = H!Lookup(k)
      PROVE  <<owner[n], depth[n]>> \in at /\ H!Behind(hash_node_ptr_array[owner[n]], depth[n]) = n
  <2>1. PICK b \in H!Buckets, i \in Nat : b = owner[n] /\ i = depth[n] /\ i < len[b]
    BY <1>6, <1>7
  <2>2. b \in B!Lists
    BY <1>3 DEF B!Lists
  <2>3. len[b] \in Nat /\ len[b] <= MAX_WORD
    BY <1>1, <2>2, B!LenBound, CountsAssumption, HashAssumption, Numbers DEF IInv, B!IInv, B!Lens
  <2>4. \A d \in 0 .. i : H!Behind(hash_node_ptr_array[b], d) # NULL
    <3> SUFFICES ASSUME NEW d \in 0 .. i PROVE H!Behind(hash_node_ptr_array[b], d) # NULL
      OBVIOUS
    <3>1. PICK m : m = H!Behind(hash_node_ptr_array[b], d)
      OBVIOUS
    <3>2. d \in Nat /\ d < len[b]
      BY <2>1, <2>3
    <3>3. m \in H!Nodes
      BY <1>5, <3>1, <3>2
    <3>4. QED
      BY <3>1, <3>3, Numbers
  <2>5. PICK m : m = H!Behind(hash_node_ptr_array[b], i)
    OBVIOUS
  <2>6. m \in H!Nodes /\ owner[m] = b /\ depth[m] = i
    BY <1>5, <2>1, <2>5
  <2>7. m = n
    BY <1>1, <1>6, <1>7, <2>1, <2>2, <2>6 DEF B!Shape, B!OnePlace, B!Nodes, H!Nodes
  <2>8. i \in 0 .. MAX_WORD - 1
    BY <1>3, <2>1, <2>3
  <2>9. QED
    BY <2>1, <2>4, <2>5, <2>7, <2>8
(* Every place has a word. *)
<1>8. ASSUME NEW p \in at
      PROVE  \E k \in Words : p = <<owner[H!Lookup(k)], depth[H!Lookup(k)]>>
  <2>1. PICK b \in H!Buckets, i \in Nat :
          b = p[1] /\ i = p[2] /\ p = <<b, i>> /\ H!Behind(hash_node_ptr_array[b], i) # NULL
    <3>1. p[1] \in H!Buckets /\ p[2] \in 0 .. MAX_WORD - 1 /\ p = <<p[1], p[2]>>
      OBVIOUS
    <3>2. p[2] \in Nat /\ p[2] \in 0 .. p[2]
      BY <1>3, <3>1
    <3>3. H!Behind(hash_node_ptr_array[p[1]], p[2]) # NULL
      BY <3>2
    <3>4. QED
      BY <3>1, <3>2, <3>3
  <2>2. PICK n : n = H!Behind(hash_node_ptr_array[b], i) /\ n # NULL
    BY <2>1
  <2>3. n \in H!Nodes /\ n < UsedNodes /\ owner[n] = b /\ depth[n] = i
    BY <1>5, <2>2
  <2>4. key[n] \in Keys /\ H!Lookup(key[n]) = n
    BY <2>3 DEF IInv, NodesOK, MapOK
  <2>5. key[n] \in Words
    BY <1>2, <2>2, <2>4 DEF Mapped
  <2>6. QED
    BY <2>1, <2>3, <2>4, <2>5
<1> DEFINE place(k) == <<owner[H!Lookup(k)], depth[H!Lookup(k)]>>
           f == [k \in Words |-> LineAt(place(k))]
<1>9. ASSUME NEW k \in Words PROVE f[k] \in H!Lines(word) /\ f[k].key = k /\ f[k].count = read[k]
  <2>1. PICK n : n = H!Lookup(k)
    OBVIOUS
  <2>2. /\ place(k) = <<owner[n], depth[n]>> /\ place(k) \in at
        /\ H!Behind(hash_node_ptr_array[owner[n]], depth[n]) = n
    BY <1>7, <2>1
  <2>3. f[k] = LineAt(place(k)) /\ f[k] \in H!Lines(word)
    <3> HIDE DEF at, LineAt, place
    <3>1. QED
      BY <1>4, <2>2
  <2>4. f[k].key = key[n] /\ f[k].count = word[data[n]]
    BY <2>2, <2>3
  <2>5. key[n] = k /\ data[n] = n /\ read[k] = word[n]
    BY <1>2, <1>6, <2>1
  <2> HIDE DEF f
  <2>6. QED
    BY <2>3, <2>4, <2>5
<1>10. ASSUME NEW l \in H!Lines(word) PROVE \E k \in Words : f[k] = l
  <2> HIDE DEF at, LineAt
  <2>1. PICK p \in at : l = LineAt(p)
    BY <1>4
  <2>2. PICK k \in Words : p = place(k)
    BY <1>8, <2>1
  <2>3. QED
    BY <2>1, <2>2
<1>11. f \in Bijection(Words, H!Lines(word))
  <2>1. f = [k \in Words |-> f[k]]
    OBVIOUS
  <2> HIDE DEF f
  <2>2. f \in [Words -> H!Lines(word)]
    BY <1>9, <2>1
  <2>3. \A k, l \in Words : f[k] = f[l] => k = l
    BY <1>9
  <2>4. QED
    BY <1>10, <2>2, <2>3, Fun_IsBij
<1> HIDE DEF f
<1>12. QED
  BY <1>9, <1>11

LEMMA PrintHolds ==
  ASSUME IInv, ~crashed, PrintNodes
  PROVE  IInv'
<1>1. /\ UNCHANGED <<first, word, held, got, y, read, found, crashed>> /\ UNCHANGED H!nodeVars
      /\ pc = "reading" /\ pc' = "done" /\ printed' = H!Lines(word)
  BY DEF PrintNodes, listVars, mapVars, H!nodeVars
<1>2. /\ NodesOK' /\ (B!IInv)' /\ MapOK'
      /\ UsedNodes' = UsedNodes /\ \A k \in Keys : H!Lookup(k)' = H!Lookup(k)
  BY <1>1, QuietNodes, TypesKept DEF IInv
<1>3. ItemsOK' /\ HandedOut' = HandedOut
  BY <1>1 DEF IInv, ItemsOK, HandedOut
<1>4. ~Busy /\ ~Busy' /\ ~Pending /\ ~Pending'
  BY <1>1 DEF Busy, Pending
<1>5. CountsOK'
  BY <1>1, <1>2, <1>4 DEF IInv, CountsOK
<1>6. StageOK'
  BY <1>1, <1>2, <1>3, <1>4 DEF IInv, StageOK
<1>7. PrintsAll'
  <2>1. Words' = Words
    BY <1>1 DEF Words
  <2>2. PICK f \in Bijection(Words, H!Lines(word)) :
          \A k \in Words : f[k].key = k /\ f[k].count = read[k]
    BY <1>1, LinesOfWords
  <2>3. PICK L : L = H!Lines(word) /\ L = printed'
    BY <1>1
  <2>4. /\ f \in [Words -> L] /\ \A l \in L : \E k \in Words : f[k] = l
        /\ ExistsBijection(Words, L)
    BY <2>2, <2>3 DEF Bijection, Injection, Surjection, ExistsBijection
  <2>5. {<<l.key, l.count>> : l \in L} = {<<k, read[k]>> : k \in Words}
    BY <2>2, <2>4
  <2>6. IsFiniteSet(Words)
    BY <1>4, MappedCount, WordsMapped
  <2>7. Cardinality(L) = Cardinality(Words)
    BY <2>4, <2>6, FS_Bijection
  <2>8. QED
    BY <1>1, <2>1, <2>3, <2>5, <2>7 DEF PrintsAll
<1>8. QED
  BY <1>2, <1>3, <1>5, <1>6, <1>7 DEF IInv

LEMMA StepHolds == IInv /\ [Next]_vars => IInv'
<1> SUFFICES ASSUME IInv, [Next]_vars PROVE IInv'
  OBVIOUS
<1>1. ASSUME Next PROVE IInv'
  BY <1>1, ReadHolds, FindHolds, CountHolds, GetHolds, FillHolds, AddStepHolds, PrintHolds DEF Next
<1>2. CASE UNCHANGED vars
  <2>1. /\ UNCHANGED <<first, word, held, got, y, read, printed, pc, found, crashed>>
        /\ UNCHANGED H!nodeVars
    BY <1>2 DEF vars, listVars, mapVars, H!nodeVars
  <2>2. /\ NodesOK' /\ (B!IInv)' /\ MapOK'
        /\ UsedNodes' = UsedNodes /\ \A k \in Keys : H!Lookup(k)' = H!Lookup(k)
    BY <2>1, QuietNodes, TypesKept DEF IInv
  <2>3. ItemsOK' /\ HandedOut' = HandedOut
    BY <2>1 DEF IInv, ItemsOK, HandedOut
  <2>4. (Busy' <=> Busy) /\ (Pending' <=> Pending)
    BY <2>1 DEF Busy, Pending
  <2>5. CountsOK'
    <3>1. CASE Busy
      BY <2>1, <2>2, <2>4, <3>1, CountsKept DEF IInv
    <3>2. CASE ~Busy
      BY <2>1, <2>2, <2>4, <3>2 DEF IInv, CountsOK
    <3>3. QED
      BY <3>1, <3>2
  <2>6. StageOK'
    <3>1. Busy => y \in Keys /\ H!Lookup(y)' = H!Lookup(y)
      BY <2>1, <2>2 DEF IInv, StageOK
    <3>2. CASE Pending
      BY <2>1, <2>2, <2>3, <2>4, <3>1, <3>2 DEF IInv, StageOK, Busy
    <3>3. CASE ~Pending
      BY <2>1, <2>2, <2>3, <2>4, <3>1, <3>3 DEF IInv, StageOK, Busy
    <3>4. QED
      BY <3>2, <3>3
  <2>7. PrintsAll'
    BY <2>1 DEF IInv, PrintsAll, Words
  <2>8. QED
    BY <2>2, <2>3, <2>5, <2>6, <2>7 DEF IInv
<1>3. QED
  BY <1>1, <1>2

LEMMA AlwaysIInv == Spec => []IInv
BY InitHolds, StepHolds, PTL DEF Spec

-----------------------------------------------------------------------------
(* The pointers of hashmapTests.c stay in its lists, but for the one that  *)
(* follows the last item, or node, of memory that was not cleared.         *)
THEOREM TypeCorrect == Spec => []TypeOK
<1>1. IInv => TypeOK
  <2> SUFFICES ASSUME IInv PROVE TypeOK
    OBVIOUS
  <2>1. /\ first \in F!Items \cup {NULL, Wild} /\ word \in [F!Items -> Nat \cup {NULL, Wild}]
        /\ got["main"] \in F!Items \cup {NULL}
    BY DEF IInv, ItemsOK
  <2>2. held["main"] \subseteq F!Items
    <3>1. held["main"] = 0 .. HandedOut - 1 /\ HandedOut \in 0 .. MAX_WORD /\ MAX_WORD \in Nat
      BY Bounds, CountsAssumption DEF IInv, ItemsOK
    <3>2. QED
      BY <3>1, Numbers
  <2>3. data \in [H!Nodes -> F!Items \cup {NULL}]
    BY DEF IInv, B!IInv, B!TypeOK, B!Maybe, B!Nodes, H!Nodes
  <2>4. QED
    BY <2>1, <2>2, <2>3, TypesKept DEF TypeOK, IInv, NodesOK, StageOK
<1>2. QED
  BY <1>1, AlwaysIInv, PTL

(* For every text, between two of its words each one so far is counted in  *)
(* an item of its own, as often as it was read.                            *)
THEOREM CountsRightCorrect == Spec => []CountsRight
<1>1. IInv => CountsRight
  <2> SUFFICES ASSUME IInv, pc = "reading", ~crashed
               PROVE  /\ \A k \in Keys : IF k \in Words THEN word[H!Lookup(k)] = read[k]
                                                        ELSE H!Lookup(k) = NULL
                      /\ \A k, l \in Words : H!Lookup(k) = H!Lookup(l) => k = l
                      /\ {H!Lookup(k) : k \in Words} = held["main"] /\ first \notin held["main"]
    BY DEF CountsRight
  <2>1. Words = Mapped /\ \A k \in Words : read[k] = word[H!Lookup(k)]
    BY WordsMapped DEF Busy
  <2>2. \A k \in Keys : IF k \in Words THEN word[H!Lookup(k)] = read[k] ELSE H!Lookup(k) = NULL
    BY <2>1 DEF Mapped
  <2>3. \A k, l \in Words : H!Lookup(k) = H!Lookup(l) => k = l
    BY <2>1 DEF Mapped, IInv, MapOK
  <2>4. /\ held["main"] = 0 .. UsedNodes - 1 /\ HandedOut = UsedNodes
        /\ UsedNodes \in Nat /\ UsedNodes <= MAX_WORD /\ MAX_WORD \in Nat
    BY Bounds, CountsAssumption DEF IInv, ItemsOK, StageOK, Pending
  <2>5. ASSUME NEW k \in Words PROVE H!Lookup(k) \in 0 .. UsedNodes - 1
    <3>1. H!Lookup(k) \in H!Nodes /\ H!Lookup(k) < UsedNodes
      BY <2>1 DEF Mapped, IInv, MapOK
    <3>2. QED
      BY <2>4, <3>1, Numbers
  <2>6. ASSUME NEW n \in 0 .. UsedNodes - 1 PROVE \E k \in Words : H!Lookup(k) = n
    <3>1. n \in H!Nodes /\ n < UsedNodes
      BY <2>4, Numbers
    <3>2. key[n] \in Keys /\ H!Lookup(key[n]) = n /\ n # NULL
      BY <3>1, Numbers DEF IInv, NodesOK, MapOK
    <3>3. QED
      BY <2>1, <3>2 DEF Mapped
  <2>7. first \notin held["main"]
    BY <2>4, Numbers DEF IInv, ItemsOK, HandedOut
  <2>8. {H!Lookup(k) : k \in Words} = held["main"]
    BY <2>4, <2>5, <2>6
  <2>9. QED
    BY <2>2, <2>3, <2>7, <2>8
<1>2. QED
  BY <1>1, AlwaysIInv, PTL

(* Only a text with more words than there are items makes the program      *)
(* follow NULL or a pointer to nowhere.                                    *)
THEOREM EnoughRoomCorrect == Spec => []EnoughRoom
<1>1. IInv => EnoughRoom
  <2> SUFFICES ASSUME IInv, crashed PROVE Cardinality(Words) > MAX_WORD
    BY DEF EnoughRoom
  <2>1. UsedNodes = MAX_WORD /\ Busy /\ y \notin Mapped
    BY DEF IInv, StageOK, Busy, Mapped
  <2>2. Words = Mapped \cup {y}
    BY <2>1, WordsMapped
  <2>3. Cardinality(Words) = MAX_WORD + 1
    BY <2>1, <2>2, MappedCount, FS_AddElement
  <2>4. QED
    BY <2>3, CountsAssumption
<1>2. QED
  BY <1>1, AlwaysIInv, PTL

(* For every text, hashmap_print_nodes prints each word once, with the     *)
(* number of its occurrences.                                              *)
THEOREM PrintsAllCorrect == Spec => []PrintsAll
<1>1. IInv => PrintsAll
  BY DEF IInv
<1>2. QED
  BY <1>1, AlwaysIInv, PTL
=============================================================================
