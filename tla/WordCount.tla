------------------------------ MODULE WordCount -----------------------------
(***************************************************************************)
(* src/hashmapTests.c: the words of a text are counted in items of a free  *)
(* list (module Freelist), which a hash map (module Hashmap) finds by the  *)
(* word.  One thread; each call it makes of the two is a step.             *)
(*                                                                         *)
(* The count is the first word of its item, the one that links the free    *)
(* items.  All the buffers come from malloc: the link of the last item and *)
(* that of the last node, which nobody writes, are NULL or point nowhere.  *)
(* That they point to memory of the program, left over from before, is     *)
(* not modelled.                                                           *)
(* The calls of set_current_state are in ProgramState.                     *)
(***************************************************************************)
EXTENDS Naturals, FiniteSetsExt

CONSTANTS
  Tokens,     \* what fscanf reads, one at a time
  Keys,       \* the words that are left of them
  Word,       \* token |-> its letters, in lower case, or NULL if it has none
  HashCount, Hash,  \* as in Hashmap
  MAX_WORD,   \* the items, and the nodes
  MaxText,    \* bound: how many words the text has
  NULL,
  Wild        \* a pointer to nowhere

ASSUME WordAssumption == Word \in [Tokens -> Keys \cup {NULL}]
ASSUME CountsAssumption == HashCount \in Nat \ {0} /\ MAX_WORD \in Nat \ {0}
ASSUME HashAssumption == Hash \in [Keys -> 0 .. HashCount - 1]
ASSUME NullAssumption == NULL \notin Keys \cup Nat
ASSUME WildAssumption == Wild # NULL /\ Wild \notin Nat

VARIABLES
  first, word, held, got,  \* wordcount_freelist; got is wordcount after a get
  hash_node_ptr_array, next, key, data, first_free_node,  \* hashmap
  found,    \* wordcount after a find
  crashed,  \* NULL, or a pointer to nowhere, was dereferenced
  pc,
  y,        \* the word that is looked up
  read,     \* word |-> how often it occurs in what was read (history)
  printed   \* the lines on stdout

listVars == <<first, word, held, got>>
mapVars == <<hash_node_ptr_array, next, key, data, first_free_node, found>>
vars == <<listVars, mapVars, crashed, pc, y, read, printed>>

F == INSTANCE Freelist WITH
  Users <- {"main"}, BufLen <- MAX_WORD, ItemSize <- 1, Data <- "count", answer <- got

H == INSTANCE Hashmap WITH
  Values <- F!Items, NodeCount <- MAX_WORD, answer <- found

-----------------------------------------------------------------------------
Init ==
  /\ \E last \in {NULL, Wild} : F!InitOver(last)
  /\ \E last \in {NULL, Wild} : H!InitOver(last)
  /\ pc = "reading"
  /\ y = NULL
  /\ read = [k \in Keys |-> 0]
  /\ printed = {}

(* How many words were read. *)
TextRead == MapThenSumSet(LAMBDA k : read[k], Keys)

(* fscanf, and the loop that leaves the letters; wordcount = NULL. *)
Read(t) ==
  /\ pc = "reading"
  /\ y' = Word[t]
  /\ \/ Word[t] = NULL /\ UNCHANGED <<pc, read>>
     \/ /\ Word[t] # NULL
        /\ TextRead < MaxText
        /\ read' = [read EXCEPT ![Word[t]] = @ + 1]
        /\ pc' = "finding"
  /\ UNCHANGED <<listVars, mapVars, crashed, printed>>

Find ==
  /\ pc = "finding"
  /\ H!Find(y)
  /\ pc' = IF found' = NULL THEN "getting" ELSE "counting"
  /\ UNCHANGED <<listVars, y, read, printed>>

(* wordcount->count += 1 *)
Count ==
  /\ pc = "counting"
  /\ word' = [word EXCEPT ![found] = @ + 1]
  /\ pc' = "reading"
  /\ UNCHANGED <<first, held, got, mapVars, crashed, y, read, printed>>

(* A step that dereferences no item. *)
Crash ==
  /\ crashed' = TRUE
  /\ UNCHANGED <<listVars, mapVars, pc, y, read, printed>>

(* FREELIST_GET *)
Get ==
  /\ pc = "getting"
  /\ \/ first = Wild /\ Crash
     \/ /\ first # Wild
        /\ F!Get("main")
        /\ pc' = "filling"
        /\ UNCHANGED <<mapVars, crashed, y, read, printed>>

(* memset, and the first count. *)
Fill ==
  /\ pc = "filling"
  /\ \/ got["main"] = NULL /\ Crash
     \/ /\ got["main"] # NULL
        /\ word' = [word EXCEPT ![got["main"]] = 1]
        /\ pc' = "adding"
        /\ UNCHANGED <<first, held, got, mapVars, crashed, y, read, printed>>

Add ==
  /\ pc = "adding"
  /\ H!Add(y, got["main"])
  /\ pc' = "reading"
  /\ UNCHANGED <<listVars, y, read, printed>>

(* The text ends: hashmap_print_nodes. *)
PrintNodes ==
  /\ pc = "reading"
  /\ printed' = H!Lines(word)
  /\ pc' = "done"
  /\ UNCHANGED <<listVars, mapVars, crashed, y, read>>

Next ==
  /\ ~crashed
  /\ (\E t \in Tokens : Read(t)) \/ Find \/ Count \/ Get \/ Fill \/ Add \/ PrintNodes

Spec == Init /\ [][Next]_vars

-----------------------------------------------------------------------------
Words == {k \in Keys : read[k] > 0}

TypeOK ==
  /\ first \in F!Items \cup {NULL, Wild}
  /\ word \in [F!Items -> Nat \cup {NULL, Wild}]
  /\ held["main"] \subseteq F!Items
  /\ first_free_node \in H!Nodes \cup {NULL, Wild}
  /\ data \in [H!Nodes -> F!Items \cup {NULL}]
  /\ found \in F!Items \cup {NULL} /\ got["main"] \in F!Items \cup {NULL}
  /\ y \in Keys \cup {NULL}

(* Between two words, every word of the text so far has an item of its own *)
(* in the map, not a free one, that holds the number of its occurrences,   *)
(* and no other word has one.                                              *)
CountsRight ==
  pc = "reading" /\ ~crashed =>
    /\ \A k \in Keys : IF k \in Words THEN word[H!Lookup(k)] = read[k]
                                       ELSE H!Lookup(k) = NULL
    /\ \A k, l \in Words : H!Lookup(k) = H!Lookup(l) => k = l
    /\ {H!Lookup(k) : k \in Words} = held["main"] /\ first \notin held["main"]

(* The program crashes only over a text with more than MAX_WORD different  *)
(* words, whether the unwritten links are NULL or point nowhere.           *)
EnoughRoom == crashed => Cardinality(Words) > MAX_WORD

(* It prints each word of the text in one line, with its occurrences.      *)
PrintsAll ==
  pc = "done" =>
    /\ {<<l.key, l.count>> : l \in printed} = {<<k, read[k]>> : k \in Words}
    /\ Cardinality(printed) = Cardinality(Words)
=============================================================================
