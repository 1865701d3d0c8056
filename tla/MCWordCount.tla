----------------------------- MODULE MCWordCount ----------------------------
(* WordCount, for TLC: a text of few words, spelt in more than one way. *)
EXTENDS WordCount, TLC

CONSTANTS the, cat, hat, dog

Letters == "The" :> the @@ "the" :> the @@ "cat" :> cat @@ "hat," :> hat
             @@ "dog" :> dog @@ "1599" :> NULL

(* Two words in one bucket, and two in another. *)
Collide == the :> 0 @@ cat :> 0 @@ hat :> 1 @@ dog :> 1
=============================================================================
