-------------------------------- MODULE Dict --------------------------------
(***************************************************************************)
(* What a user of include/hashmap.h can rely on: a partial map from keys   *)
(* to data, whose calls take effect one at a time.  A remove may cost      *)
(* other keys, but only ones that hash like the key removed.               *)
(***************************************************************************)
CONSTANTS
  Keys,
  Values,
  Hash,    \* key |-> its bucket
  NULL        \* no data

VARIABLES
  map,     \* key |-> its data, or NULL
  answer   \* what the last find or remove left in its caller's variable

vars == <<map, answer>>

Init ==
  /\ map = [k \in Keys |-> NULL]
  /\ answer = NULL

(* The first add of a key counts, and a later one changes nothing. *)
Add(k, v) ==
  /\ map' = IF map[k] = NULL THEN [map EXCEPT ![k] = v] ELSE map
  /\ UNCHANGED answer

Find(k) ==
  /\ answer' = map[k]
  /\ UNCHANGED map

Remove(k) ==
  /\ answer' = map[k]
  /\ IF map[k] = NULL
     THEN UNCHANGED map
     ELSE \E lost \in SUBSET {j \in Keys : Hash[j] = Hash[k]} :
            map' = [j \in Keys |-> IF j = k \/ j \in lost THEN NULL ELSE map[j]]

Next ==
  \E k \in Keys : Find(k) \/ Remove(k) \/ \E v \in Values : Add(k, v)

Spec == Init /\ [][Next]_vars
=============================================================================
