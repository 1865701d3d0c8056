------------------------------- MODULE Hashmap ------------------------------
(***************************************************************************)
(* src/hashmap.c: buckets that head chains of nodes, and a list of the     *)
(* nodes that are free, threaded through the same next pointers.  Each     *)
(* call is one critical section under rw_lock and is one step; its         *)
(* caller's variable is NULL before the call.                              *)
(*                                                                         *)
(* A key is a model value: memcmp over key_size bytes is equality.  The    *)
(* buckets, which hashmap_init does not clear, read as zero where nobody   *)
(* has written.  So do the nodes, for Spec; InitOver also covers others.   *)
(***************************************************************************)
EXTENDS Naturals, FiniteSets

CONSTANTS
  Keys,
  Values,      \* the data pointers
  HashCount,   \* map->hash_count
  Hash,        \* key |-> map->hash(key) % hash_count
  NodeCount,   \* hash_node_count
  NULL

ASSUME CountsAssumption == HashCount \in Nat \ {0} /\ NodeCount \in Nat \ {0}
ASSUME HashAssumption == Hash \in [Keys -> 0 .. HashCount - 1]
ASSUME NullAssumption == NULL \notin Keys \cup Values \cup Nat

Buckets == 0 .. HashCount - 1
Nodes == 0 .. NodeCount - 1

VARIABLES
  hash_node_ptr_array,  \* bucket |-> its first node, or NULL
  next,                 \* node |-> the next one of its chain or of the free list
  key, data,            \* node |-> its key_buff and its data
  first_free_node,
  answer,               \* what the last find or remove left in its caller's variable
  crashed               \* the program has dereferenced NULL

nodeVars == <<hash_node_ptr_array, next, key, data, first_free_node>>
vars == <<nodeVars, answer, crashed>>

-----------------------------------------------------------------------------
(* Plausible slips of this code, named so that every property can be shown *)
(* to notice one: a loop of hashmap_init that goes one too far; a lookup   *)
(* that compares nothing; a remove that leaves its node in the chain; a    *)
(* print loop that stops before the last node of a chain.                  *)

SlipOneTooFar(n, last) == n + 1

SlipAnyKey(k, n) == TRUE

SlipStay(n) == n

SlipWhileNext(n) == n # NULL /\ next[n] # NULL

-----------------------------------------------------------------------------
(* hashmap_init links each node to the next; the last one is left alone. *)
InitialNext(n, last) == IF n < NodeCount - 1 THEN n + 1 ELSE last

InitOver(last) ==
  /\ hash_node_ptr_array = [b \in Buckets |-> NULL]
  /\ next = [n \in Nodes |-> InitialNext(n, last)]
  /\ key = [n \in Nodes |-> NULL]
  /\ data = [n \in Nodes |-> NULL]
  /\ first_free_node = 0
  /\ answer = NULL
  /\ crashed = FALSE

Init == InitOver(NULL)

(* __hashmap_get_hash_node walks down the chain of k until it is at the    *)
(* end or at a node with that key: *)
Stops(k, n) == n = NULL \/ key[n] = k

(* the nodes it comes by, staying where it stops. *)
Walk(k) ==
  LET f[i \in 0 .. NodeCount] ==
        IF i = 0 THEN hash_node_ptr_array[Hash[k]]
        ELSE LET n == f[i - 1] IN IF Stops(k, n) THEN n ELSE next[n]
  IN f

(* Where it stops is its *hash_node_ptr, ... *)
Node(k) == Walk(k)[NodeCount]

(* and hash_node_ptr points to the bucket, or into the node before. *)
InBucket(k) == Stops(k, hash_node_ptr_array[Hash[k]])

Before(k) ==
  CHOOSE n \in {Walk(k)[i] : i \in 0 .. NodeCount} \ {Node(k)} : next[n] = Node(k)

(* The buckets and the nodes' next after *hash_node_ptr = n. *)
Heads(k, n) ==
  IF InBucket(k) THEN [hash_node_ptr_array EXCEPT ![Hash[k]] = n] ELSE hash_node_ptr_array

Nexts(k, n) == IF InBucket(k) THEN next ELSE [next EXCEPT ![Before(k)] = n]

-----------------------------------------------------------------------------
(* __hashmap_add of a key that is there changes nothing; of a new key, it  *)
(* takes the first free node, without a check that there is one.           *)
Add(k, v) ==
  /\ ~crashed
  /\ UNCHANGED answer
  /\ \/ /\ Node(k) # NULL
        /\ UNCHANGED <<nodeVars, crashed>>
     \/ /\ Node(k) = NULL /\ first_free_node \notin Nodes
        /\ crashed' = TRUE
        /\ UNCHANGED nodeVars
     \/ /\ Node(k) = NULL /\ first_free_node \in Nodes
        /\ hash_node_ptr_array' = Heads(k, first_free_node)
        /\ next' = [Nexts(k, first_free_node) EXCEPT ![first_free_node] = NULL]
        /\ key' = [key EXCEPT ![first_free_node] = k]
        /\ data' = [data EXCEPT ![first_free_node] = v]
        /\ first_free_node' = next[first_free_node]
        /\ UNCHANGED crashed

(* What remove writes to *hash_node_ptr, having removed node n, and what   *)
(* it puts behind that node in the free list.                              *)
Rest(n) == NULL

FreeRest == first_free_node

(* __hashmap_remove frees the node and ends the chain before it. *)
Remove(k) ==
  /\ ~crashed
  /\ \/ /\ Node(k) = NULL
        /\ answer' = NULL
        /\ UNCHANGED nodeVars
     \/ /\ Node(k) # NULL
        /\ answer' = data[Node(k)]
        /\ hash_node_ptr_array' = Heads(k, Rest(Node(k)))
        /\ next' = [Nexts(k, Rest(Node(k))) EXCEPT ![Node(k)] = FreeRest]
        /\ first_free_node' = Node(k)
        /\ UNCHANGED <<key, data>>
  /\ UNCHANGED crashed

(* What a key maps to: what find reads. *)
Lookup(k) == IF Node(k) = NULL THEN NULL ELSE data[Node(k)]

Find(k) ==
  /\ ~crashed
  /\ answer' = Lookup(k)
  /\ UNCHANGED <<nodeVars, crashed>>

(* The node i places behind node n, or NULL. *)
Behind(n, i) ==
  LET f[j \in 0 .. i] == IF j = 0 THEN n
                         ELSE LET m == f[j - 1] IN IF m = NULL THEN NULL ELSE next[m]
  IN f[i]

(* hashmap_print_nodes prints a node that it has come to. *)
Prints(n) == n # NULL

(* The lines it prints, in the order of their buckets and depths, at of    *)
(* which it comes to a node; mem is where the data pointers point to.      *)
Lines(mem) ==
  LET at == {p \in Buckets \X (0 .. NodeCount - 1) :
               \A d \in 0 .. p[2] : Prints(Behind(hash_node_ptr_array[p[1]], d))}
      Line(n, b, d) == [bucket |-> b, depth |-> d, key |-> key[n], count |-> mem[data[n]],
                        next |-> IF next[n] = NULL THEN NULL ELSE key[next[n]]]
  IN {Line(Behind(hash_node_ptr_array[p[1]], p[2]), p[1], p[2]) : p \in at}

Next == \E k \in Keys : Find(k) \/ Remove(k) \/ \E v \in Values : Add(k, v)

Spec == Init /\ [][Next]_vars

-----------------------------------------------------------------------------
Maybe(S) == S \cup {NULL}

TypeOK ==
  /\ hash_node_ptr_array \in [Buckets -> Maybe(Nodes)]
  /\ next \in [Nodes -> Maybe(Nodes)]
  /\ key \in [Nodes -> Maybe(Keys)]
  /\ data \in [Nodes -> Maybe(Values)]
  /\ first_free_node \in Maybe(Nodes)
  /\ answer \in Maybe(Values)
  /\ crashed \in BOOLEAN

(* The lists: the chains, and the free list. *)
ListHeads == {hash_node_ptr_array[b] : b \in Buckets} \cup {first_free_node}

List(n) == {Behind(n, i) : i \in 0 .. NodeCount} \ {NULL}

(* Every list ends, no node is on two of them, and a bucket's chain holds  *)
(* only keys that hash to it, each once: a node is never used while it is  *)
(* free, and every key that is in a chain is found by its own lookup.      *)
ListsApart ==
  /\ \A n \in ListHeads : Behind(n, NodeCount) = NULL
  /\ \A b \in Buckets :
       LET chain == List(hash_node_ptr_array[b]) IN
       /\ chain \cap List(first_free_node) = {}
       /\ \A c \in Buckets \ {b} : chain \cap List(hash_node_ptr_array[c]) = {}
       /\ \A n \in chain : Hash[key[n]] = b /\ Node(key[n]) = n

(* The chains implement the partial map. *)
D == INSTANCE Dict WITH map <- [k \in Keys |-> Lookup(k)]
DictSpec == D!Spec
=============================================================================
