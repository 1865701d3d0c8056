--------------------------- MODULE SwapchainProofs --------------------------
(***************************************************************************)
(* No read is torn, for any number of writers, readers and links and       *)
(* whatever becomes of the chain: it only takes the read-write lock of     *)
(* each link.  The inductive invariant says who holds those locks.         *)
(*                                                                         *)
(* With one writer, as in swapchainTests.c, the chain also stays whole and *)
(* in order, no reader goes back in time and nobody dereferences NULL, for *)
(* any number of readers and links.                                        *)
(***************************************************************************)
EXTENDS Swapchain, TLAPS, SequenceTheorems

-----------------------------------------------------------------------------
(* What the types rest on: a thread that works on a link has one, and a    *)
(* writer that takes one keeps the others from oldest meanwhile.           *)
HasLink ==
  /\ \A w \in Writers :
       /\ pc[w] \in {"write", "writing", "written", "publish", "link", "closing"}
            => link[w] \in Links
       /\ pc[w] = "taking" => oldest \in Links /\ oldest_rwlock = w
  /\ \A r \in Readers : pc[r] \in {"reading", "next", "nexting"} => link[r] \in Links

Typed == TypeOK /\ HasLink

(* The sequences of halves that a reader gets. *)
LEMMA Halves ==
  /\ <<>> \in Seq(Nat)
  /\ \A x \in Nat : <<x>> \in Seq(Nat)
  /\ \A s \in Seq(Nat), x \in Nat : Append(s, x) \in Seq(Nat)
  OBVIOUS

(* Of what a reader may hold only the first half is one long. *)
LEMMA OneHalf ==
  ASSUME NEW x, NEW y, NEW s \in {<<>>, <<x>>, <<x, y>>}, Len(s) = 1
  PROVE  s = <<x>>
<1>1. Len(<<>>) # 1
  OBVIOUS
<1>2. Len(<<x, y>>) # 1
  OBVIOUS
<1>3. QED
  BY <1>1, <1>2

(* The second half goes behind the first. *)
LEMMA TwoHalves == ASSUME NEW x \in Nat, NEW y \in Nat PROVE Append(<<x>>, y) = <<x, y>>
<1> DEFINE s == Append(<<x>>, y)
           t == <<x, y>>
<1>1. Len(s) = 2 /\ s[1] = x /\ s[2] = y
  OBVIOUS
<1>2. Len(t) = 2 /\ t[1] = x /\ t[2] = y
  OBVIOUS
<1>3. s \in Seq(Nat) /\ t \in Seq(Nat)
  OBVIOUS
<1> HIDE DEF s, t
<1>4. s = t
  BY <1>1, <1>2, <1>3, SeqEqual
<1>5. QED
  BY <1>4 DEF s, t

(* NULL is neither a thread nor a link. *)
LEMMA NullFacts == NULL \notin Threads /\ NULL \notin Links
  BY NullAssumption DEF Threads, Links

(* swapchain_init hands out links that exist. *)
LEMMA TypedInit == Init => Typed
<1> SUFFICES ASSUME Init PROVE Typed
  OBVIOUS
<1>1. NumLinks \in Links /\ 1 \in Links
  BY LinksAssumption DEF Links
<1>2. newer \in [Links -> Maybe(Links)]
  BY LinksAssumption DEF Init, Maybe, Links
<1>3. TypeOK
  BY <1>1, <1>2, Halves DEF Init, TypeOK, Maybe, Threads
<1>4. HasLink
  BY DEF Init, HasLink, Threads
<1>5. QED
  BY <1>3, <1>4 DEF Typed

(* Every step keeps the types. *)
LEMMA TypedStep == Typed /\ [Next]_vars => Typed'
<1> SUFFICES ASSUME Typed, [Next]_vars PROVE Typed'
  OBVIOUS
<1> USE NullAssumption, RolesAssumption
    DEF Typed, TypeOK, HasLink, Maybe, Threads, At, Goto, chain, locks, data, readerVars
<1>1. ASSUME NEW w \in Writers, WriteBack(w) PROVE Typed'
  BY <1>1 DEF WriteBack
<1>2. ASSUME NEW w \in Writers, Take(w) PROVE Typed'
  <2>1. CASE crashed' = TRUE /\ UNCHANGED <<pc, data_w>>
    BY <1>2, <2>1, NullFacts DEF Take
  <2>2. CASE oldest # NULL /\ data_w' = [data_w EXCEPT ![oldest] = w] /\ Goto(w, "taking")
               /\ UNCHANGED crashed
    BY <1>2, <2>2, NullFacts DEF Take
  <2>3. CASE Goto(w, "quit") /\ UNCHANGED <<data_w, crashed>>
    BY <1>2, <2>3, NullFacts DEF Take
  <2>4. QED
    BY <1>2, <2>1, <2>2, <2>3 DEF Take
<1>3. ASSUME NEW w \in Writers, Taking(w) PROVE Typed'
  BY <1>3 DEF Taking, Unlinked
<1>4. ASSUME NEW w \in Writers, WriteFirst(w) PROVE Typed'
  BY <1>4 DEF WriteFirst
<1>5. ASSUME NEW w \in Writers, WriteSecond(w) PROVE Typed'
  BY <1>5 DEF WriteSecond
<1>6. ASSUME NEW w \in Writers, WriteClose(w) PROVE Typed'
  BY <1>6 DEF WriteClose
<1>7. ASSUME NEW w \in Writers, Publish(w) PROVE Typed'
  BY <1>7 DEF Publish
<1>8. ASSUME NEW w \in Writers, Link(w) PROVE Typed'
  BY <1>8 DEF Link
<1>9. ASSUME NEW w \in Writers, WriteClosed(w) PROVE Typed'
  <2>1. CASE Goto(w, "idle") /\ link' = [link EXCEPT ![w] = NULL]
    BY <1>9, <2>1 DEF WriteClosed
  <2>2. CASE Goto(w, "take") /\ UNCHANGED link
    BY <1>9, <2>2 DEF WriteClosed
  <2>3. QED
    BY <1>9, <2>1, <2>2 DEF WriteClosed
<1>10. ASSUME NEW r \in Readers, ReadFront(r) PROVE Typed'
  BY <1>10 DEF ReadFront
<1>11. ASSUME NEW r \in Readers, FrontLock(r) PROVE Typed'
  BY <1>11 DEF FrontLock
<1>12. ASSUME NEW r \in Readers, FrontOpen(r) PROVE Typed'
  BY <1>12, Halves, NullFacts DEF FrontOpen, Open, Front
<1>13. ASSUME NEW r \in Readers, Read(r) PROVE Typed'
  <2>1. CASE got' = [got EXCEPT ![r] = <<first[link[r]]>>]
    BY <1>13, <2>1, Halves DEF Read
  <2>2. CASE got' = [got EXCEPT ![r] = Append(@, second[link[r]])]
    <3>1. second[link[r]] \in Nat /\ got[r] \in Seq(Nat)
      BY <1>13 DEF Read
    <3>2. Append(got[r], second[link[r]]) \in Seq(Nat)
      BY <3>1
    <3>3. QED
      BY <1>13, <2>2, <3>2 DEF Read
  <2>3. QED
    BY <1>13, <2>1, <2>2 DEF Read
<1>14. ASSUME NEW r \in Readers, ReadClose(r) PROVE Typed'
  <2>1. got' \in [Readers -> Seq(Nat)]
    BY <1>14, Halves DEF ReadClose
  <2>2. data_r' \in [Links -> SUBSET Readers]
    BY <1>14 DEF ReadClose
  <2>3. floor' \in [Readers -> Nat]
    <3>1. first[link[r]] \in Nat
      BY <1>14 DEF ReadClose
    <3>2. QED
      BY <1>14, <3>1 DEF ReadClose
  <2>4. CASE Goto(r, "idle") /\ link' = [link EXCEPT ![r] = NULL]
    BY <1>14, <2>1, <2>2, <2>3, <2>4 DEF ReadClose
  <2>5. CASE Goto(r, "next") /\ UNCHANGED link
    BY <1>14, <2>1, <2>2, <2>3, <2>5 DEF ReadClose
  <2>6. QED
    BY <1>14, <2>4, <2>5 DEF ReadClose
<1>15. ASSUME NEW r \in Readers, NextLock(r) PROVE Typed'
  BY <1>15 DEF NextLock
<1>16. ASSUME NEW r \in Readers, NextOpen(r) PROVE Typed'
  <2> DEFINE l == newer[link[r]]
  <2>1. CASE l = NULL
    BY <1>16, <2>1 DEF NextOpen
  <2>2. CASE l # NULL
    <3>1. l \in Links
      BY <1>16, <2>2 DEF NextOpen
    <3>2. Open(r, l) /\ newer_rwlock' = [newer_rwlock EXCEPT ![link[r]] = NULL]
      BY <1>16, <2>2 DEF NextOpen
    <3>3. got' \in [Readers -> Seq(Nat)]
      BY <3>2, Halves DEF Open
    <3>4. data_r' \in [Links -> SUBSET Readers]
      BY <3>1, <3>2 DEF Open
    <3>5. QED
      BY <1>16, <2>2, <3>1, <3>2, <3>3, <3>4, NullFacts DEF NextOpen, Open
  <2>3. QED
    BY <2>1, <2>2
<1>17. CASE UNCHANGED vars
  BY <1>17 DEF vars
<1>18. QED
  BY <1>1, <1>2, <1>3, <1>4, <1>5, <1>6, <1>7, <1>8, <1>9, <1>10, <1>11, <1>12,
     <1>13, <1>14, <1>15, <1>16, <1>17
  DEF Next, WriterStep, ReaderStep

(* Every variable of swapchain.c keeps its type; newest is never NULL. *)
THEOREM TypeCorrect == Spec => []TypeOK
<1>1. Typed => TypeOK
  BY DEF Typed
<1>2. QED
  BY <1>1, TypedInit, TypedStep, PTL DEF Spec

-----------------------------------------------------------------------------
(* Writer w holds the write lock of link l. *)
Writes(w, l) ==
  \/ pc[w] = "taking" /\ oldest = l
  \/ pc[w] \in {"write", "writing", "written"} /\ link[w] = l

(* The lock words of every data_rwlock say who is between its lock and its *)
(* unlock in write_back, write_close, read_front, read_next, read_close.   *)
WriteLocks == \A l \in Links, w \in Writers : data_w[l] = w <=> Writes(w, l)

ReadLocks == \A l \in Links, r \in Readers :
               r \in data_r[l] <=> pc[r] = "reading" /\ link[r] = l

(* No link is read and written at a time. *)
Exclusion == \A l \in Links : data_w[l] = NULL \/ data_r[l] = {}

(* Only a link that is being written has two different halves. *)
Whole == \A l \in Links :
           first[l] = second[l] \/ \E w \in Writers : pc[w] = "writing" /\ link[w] = l

(* What a reader has read is still what its link holds. *)
ReadOK == \A r \in Readers :
  got[r] # <<>> => /\ pc[r] = "reading"
                   /\ \/ got[r] = <<first[link[r]]>>
                      \/ got[r] = <<first[link[r]], second[link[r]]>>

IInv == Typed /\ WriteLocks /\ ReadLocks /\ Exclusion /\ Whole /\ ReadOK

(* A step between two places where no data is locked. *)
Locked == {"taking", "write", "writing", "written", "reading"}

LEMMA OutsideStep ==
  ASSUME IInv, Typed', NEW t \in Threads, NEW p, pc' = [pc EXCEPT ![t] = p],
         p \notin Locked, pc[t] \notin Locked,
         \A x \in Threads \ {t} : link'[x] = link[x],
         \A w \in Writers : pc[w] = "taking" => oldest' = oldest,
         UNCHANGED <<data_w, data_r, first, second, got>>
  PROVE  IInv'
<1>1. \A x \in Threads :
         \/ pc[x] = pc'[x] /\ link'[x] = link[x]
         \/ pc[x] \notin Locked /\ pc'[x] \notin Locked
  BY DEF IInv, Typed, TypeOK
<1>2. Writers \subseteq Threads /\ Readers \subseteq Threads
  BY DEF Threads
<1>3. WriteLocks'
  <2>1. ASSUME NEW w \in Writers, NEW l \in Links PROVE Writes(w, l)' <=> Writes(w, l)
    BY <1>1, <1>2 DEF Writes, Locked
  <2>2. QED
    BY <2>1 DEF IInv, WriteLocks
<1>4. ReadLocks' /\ ReadOK'
  <2>1. \A r \in Readers : /\ pc'[r] = "reading" <=> pc[r] = "reading"
                           /\ pc[r] = "reading" => link'[r] = link[r]
    BY <1>1, <1>2 DEF Locked
  <2>2. QED
    BY <2>1 DEF IInv, ReadLocks, ReadOK
<1>5. Whole'
  <2>1. \A w \in Writers : /\ pc'[w] = "writing" <=> pc[w] = "writing"
                           /\ pc[w] = "writing" => link'[w] = link[w]
    BY <1>1, <1>2 DEF Locked
  <2>2. QED
    BY <2>1 DEF IInv, Whole
<1>6. Exclusion'
  BY DEF IInv, Exclusion
<1>7. QED
  BY <1>3, <1>4, <1>5, <1>6 DEF IInv

(* A reader gets the read lock of a link that nobody writes. *)
LEMMA OpenStep ==
  ASSUME IInv, Typed', NEW r \in Readers, NEW l \in Links, Open(r, l),
         pc[r] \in {"fronting", "nexting"}, UNCHANGED <<data_w, first, second, oldest>>
  PROVE  IInv'
<1>1. /\ data_w[l] = NULL /\ pc'[r] = "reading" /\ link'[r] = l /\ got'[r] = <<>>
      /\ \A x \in Threads \ {r} : pc'[x] = pc[x] /\ link'[x] = link[x]
      /\ \A q \in Readers \ {r} : got'[q] = got[q]
      /\ \A k \in Links : data_r'[k] = IF k = l THEN data_r[k] \cup {r} ELSE data_r[k]
  BY DEF Open, Goto, IInv, Typed, TypeOK, Threads
<1>2. \A w \in Writers : pc'[w] = pc[w] /\ link'[w] = link[w]
  BY <1>1, RolesAssumption DEF Threads
<1>3. \A q \in Readers \ {r} : pc'[q] = pc[q] /\ link'[q] = link[q] /\ got'[q] = got[q]
  BY <1>1 DEF Threads
<1>4. WriteLocks'
  BY <1>2 DEF IInv, WriteLocks, Writes
<1>5. ReadLocks'
  <2> SUFFICES ASSUME NEW k \in Links, NEW q \in Readers
               PROVE  (q \in data_r[k] <=> pc[q] = "reading" /\ link[q] = k)'
    BY DEF ReadLocks
  <2>1. q \in data_r[k] <=> pc[q] = "reading" /\ link[q] = k
    BY DEF IInv, ReadLocks
  <2>2. CASE q = r
    <3>1. ~(pc[q] = "reading")
      BY <2>2
    <3>2. q \in data_r'[k] <=> k = l
      BY <1>1, <2>1, <2>2, <3>1
    <3>3. QED
      BY <1>1, <2>2, <3>2
  <2>3. CASE q # r
    <3>1. pc'[q] = pc[q] /\ link'[q] = link[q]
      BY <1>3, <2>3
    <3>2. q \in data_r'[k] <=> q \in data_r[k]
      <4>1. data_r'[k] = IF k = l THEN data_r[k] \cup {r} ELSE data_r[k]
        BY <1>1
      <4>2. QED
        BY ONLY <2>3, <4>1
    <3>3. QED
      BY <2>1, <3>1, <3>2
  <2>4. QED
    BY <2>2, <2>3
<1>6. Exclusion'
  BY <1>1 DEF IInv, Exclusion
<1>7. Whole'
  BY <1>2 DEF IInv, Whole
<1>8. ReadOK'
  BY <1>1, <1>3 DEF IInv, ReadOK
<1>9. QED
  BY <1>4, <1>5, <1>6, <1>7, <1>8 DEF IInv

(* A reader gives its read lock back. *)
LEMMA CloseStep ==
  ASSUME IInv, Typed', NEW r \in Readers, ReadClose(r)
  PROVE  IInv'
<1>0. /\ pc[r] = "reading" /\ link[r] \in Links
      /\ UNCHANGED <<data_w, first, second, oldest>>
  BY DEF ReadClose, At, IInv, Typed, HasLink, chain, data
<1>a. /\ got'[r] = <<>>
      /\ \A q \in Readers \ {r} : got'[q] = got[q]
  BY DEF ReadClose, IInv, Typed, TypeOK
<1>b. \A k \in Links : data_r'[k] = IF k = link[r] THEN data_r[k] \ {r} ELSE data_r[k]
  BY <1>0 DEF ReadClose, IInv, Typed, TypeOK
<1>c. PICK p \in {"idle", "next"} : pc' = [pc EXCEPT ![r] = p]
  BY DEF ReadClose, Goto
<1>d. /\ pc'[r] # "reading"
      /\ \A x \in Threads \ {r} : pc'[x] = pc[x]
  BY <1>c DEF IInv, Typed, TypeOK, Threads
<1>e. \A x \in Threads \ {r} : link'[x] = link[x]
  BY DEF ReadClose, IInv, Typed, TypeOK, Threads
<1>1. /\ pc[r] = "reading" /\ pc'[r] # "reading" /\ got'[r] = <<>> /\ link[r] \in Links
      /\ \A x \in Threads \ {r} : pc'[x] = pc[x] /\ link'[x] = link[x]
      /\ \A q \in Readers \ {r} : got'[q] = got[q]
      /\ \A k \in Links : data_r'[k] = IF k = link[r] THEN data_r[k] \ {r} ELSE data_r[k]
      /\ UNCHANGED <<data_w, first, second, oldest>>
  BY <1>0, <1>a, <1>b, <1>d, <1>e
<1>2. \A w \in Writers : pc'[w] = pc[w] /\ link'[w] = link[w]
  BY <1>1, RolesAssumption DEF Threads
<1>3. \A q \in Readers \ {r} : pc'[q] = pc[q] /\ link'[q] = link[q] /\ got'[q] = got[q]
  BY <1>1 DEF Threads
<1>4. WriteLocks'
  BY <1>1, <1>2 DEF IInv, WriteLocks, Writes
<1>5. ReadLocks'
  <2> SUFFICES ASSUME NEW k \in Links, NEW q \in Readers
               PROVE  (q \in data_r[k] <=> pc[q] = "reading" /\ link[q] = k)'
    BY DEF ReadLocks
  <2>1. q \in data_r[k] <=> pc[q] = "reading" /\ link[q] = k
    BY DEF IInv, ReadLocks
  <2>2. CASE q = r
    <3>1. ~(pc'[q] = "reading")
      BY <1>1, <2>2
    <3>2. q \notin data_r'[k]
      BY <1>1, <2>1, <2>2
    <3>3. QED
      BY <3>1, <3>2
  <2>3. CASE q # r
    <3>1. pc'[q] = pc[q] /\ link'[q] = link[q]
      BY <1>3, <2>3
    <3>2. q \in data_r'[k] <=> q \in data_r[k]
      <4>1. data_r'[k] = IF k = link[r] THEN data_r[k] \ {r} ELSE data_r[k]
        BY <1>1
      <4>2. QED
        BY ONLY <2>3, <4>1
    <3>3. QED
      BY <2>1, <3>1, <3>2
  <2>4. QED
    BY <2>2, <2>3
<1>6. Exclusion'
  BY <1>1 DEF IInv, Exclusion
<1>7. Whole'
  BY <1>1, <1>2 DEF IInv, Whole
<1>8. ReadOK'
  BY <1>1, <1>3 DEF IInv, ReadOK
<1>9. QED
  BY <1>4, <1>5, <1>6, <1>7, <1>8 DEF IInv

(* The locks say who writes and who reads, and so what readers read stands. *)
THEOREM Invariance == Spec => []IInv
<1>n. NULL \notin Threads /\ NULL \notin Links /\ Writers \cap Readers = {}
  BY NullAssumption, RolesAssumption DEF Threads, Links
<1>1. Init => IInv
  <2>1. Init => WriteLocks /\ ReadLocks /\ Exclusion /\ Whole /\ ReadOK
    BY <1>n DEF Init, WriteLocks, Writes, ReadLocks, Exclusion, Whole, ReadOK, Threads
  <2>2. QED
    BY <2>1, TypedInit DEF IInv
<1>2. IInv /\ [Next]_vars => IInv'
  <2> SUFFICES ASSUME IInv, [Next]_vars PROVE IInv'
    OBVIOUS
  <2>t. Typed /\ Typed'
    BY TypedStep DEF IInv
  <2> USE <1>n, <2>t
      DEF IInv, Typed, TypeOK, HasLink, Maybe, Threads, At, Goto, chain, locks, data, readerVars
  <2>1. ASSUME NEW w \in Writers, WriteBack(w) PROVE IInv'
    BY <2>1, OutsideStep DEF WriteBack, Locked
  <2>2. ASSUME NEW w \in Writers, Take(w) PROVE IInv'
    <3>1. CASE crashed' = TRUE /\ UNCHANGED <<pc, data_w>>
      BY <2>2, <3>1 DEF Take, WriteLocks, ReadLocks, Exclusion,
                              Whole, ReadOK, Writes
    <3>2. CASE Free(oldest) /\ data_w' = [data_w EXCEPT ![oldest] = w] /\ Goto(w, "taking")
                 /\ oldest # NULL
      <4>1. WriteLocks'
        BY <2>2, <3>2 DEF Take, Free, WriteLocks, Writes
      <4>2. ReadLocks'
        BY <2>2, <3>2 DEF Take, Free, ReadLocks
      <4>3. Exclusion'
        BY <2>2, <3>2 DEF Take, Free, Exclusion, WriteLocks, ReadLocks, Writes
      <4>4. Whole'
        BY <2>2, <3>2 DEF Take, Free, Whole, WriteLocks, Writes
      <4>5. ReadOK'
        BY <2>2, <3>2 DEF Take, Free, ReadOK, WriteLocks, ReadLocks, Exclusion, Writes
      <4>6. QED
        BY <4>1, <4>2, <4>3, <4>4, <4>5
    <3>3. CASE Goto(w, "quit") /\ UNCHANGED data_w
      BY <2>2, <3>3 DEF Take, WriteLocks, ReadLocks, Exclusion,
                              Whole, ReadOK, Writes
    <3>4. QED
      BY <2>2, <3>1, <3>2, <3>3 DEF Take
  <2>3. ASSUME NEW w \in Writers, Taking(w) PROVE IInv'
    <3>1. WriteLocks'
      BY <2>3 DEF Taking, Unlinked, WriteLocks, Writes
    <3>2. ReadLocks'
      BY <2>3 DEF Taking, Unlinked, ReadLocks
    <3>3. Exclusion'
      BY <2>3 DEF Taking, Unlinked, Exclusion, WriteLocks, ReadLocks, Writes
    <3>4. Whole'
      BY <2>3 DEF Taking, Unlinked, Whole, WriteLocks, Writes
    <3>5. ReadOK'
      BY <2>3 DEF Taking, Unlinked, ReadOK, WriteLocks, ReadLocks, Exclusion, Writes
    <3>6. QED
      BY <3>1, <3>2, <3>3, <3>4, <3>5
  <2>4. ASSUME NEW w \in Writers, WriteFirst(w) PROVE IInv'
    <3>1. WriteLocks'
      BY <2>4 DEF WriteFirst, WriteLocks, Writes
    <3>2. ReadLocks'
      BY <2>4 DEF WriteFirst, ReadLocks
    <3>3. Exclusion'
      BY <2>4 DEF WriteFirst, Exclusion, WriteLocks, ReadLocks, Writes
    <3>4. Whole'
      BY <2>4 DEF WriteFirst, Whole, WriteLocks, Writes
    <3>5. ReadOK'
      <4>1. \A r \in Readers : pc[r] = "reading" => link[r] # link[w]
        <5>1. link[w] \in Links /\ data_w[link[w]] = w
          BY <2>4 DEF WriteFirst, WriteLocks, Writes
        <5>2. data_r[link[w]] = {}
          BY <5>1 DEF Exclusion
        <5>3. QED
          BY <5>1, <5>2 DEF ReadLocks
      <4>2. QED
        BY <2>4, <4>1 DEF WriteFirst, ReadOK
    <3>6. QED
      BY <3>1, <3>2, <3>3, <3>4, <3>5
  <2>5. ASSUME NEW w \in Writers, WriteSecond(w) PROVE IInv'
    <3>1. WriteLocks'
      BY <2>5 DEF WriteSecond, WriteLocks, Writes
    <3>2. ReadLocks'
      BY <2>5 DEF WriteSecond, ReadLocks
    <3>3. Exclusion'
      BY <2>5 DEF WriteSecond, Exclusion, WriteLocks, ReadLocks, Writes
    <3>4. Whole'
      BY <2>5 DEF WriteSecond, Whole, WriteLocks, Writes
    <3>5. ReadOK'
      BY <2>5 DEF WriteSecond, ReadOK, WriteLocks, ReadLocks, Exclusion, Writes
    <3>6. QED
      BY <3>1, <3>2, <3>3, <3>4, <3>5
  <2>6. ASSUME NEW w \in Writers, WriteClose(w) PROVE IInv'
    BY <2>6 DEF WriteClose, WriteLocks, ReadLocks, Exclusion, Whole, ReadOK, Writes
  <2>7. ASSUME NEW w \in Writers, Publish(w) PROVE IInv'
    <3>1. WriteLocks'
      BY <2>7 DEF Publish, WriteLocks, Writes
    <3>2. ReadLocks'
      BY <2>7 DEF Publish, ReadLocks
    <3>3. Exclusion'
      BY <2>7 DEF Publish, Exclusion, WriteLocks, ReadLocks, Writes
    <3>4. Whole'
      BY <2>7 DEF Publish, Whole, WriteLocks, Writes
    <3>5. ReadOK'
      BY <2>7 DEF Publish, ReadOK, WriteLocks, ReadLocks, Exclusion, Writes
    <3>6. QED
      BY <3>1, <3>2, <3>3, <3>4, <3>5
  <2>8. ASSUME NEW w \in Writers, Link(w) PROVE IInv'
    BY <2>8, OutsideStep DEF Link, Locked
  <2>9. ASSUME NEW w \in Writers, WriteClosed(w) PROVE IInv'
    <3>1. \A x \in Writers : pc[x] = "taking" => oldest' = oldest
      BY <2>9 DEF WriteClosed
    <3>2. PICK p \in {"idle", "take"} : pc' = [pc EXCEPT ![w] = p]
      BY <2>9 DEF WriteClosed
    <3>3. QED
      BY <2>9, <3>1, <3>2, OutsideStep DEF WriteClosed, Locked
  <2>10. ASSUME NEW r \in Readers, ReadFront(r) PROVE IInv'
    BY <2>10, OutsideStep DEF ReadFront, Locked
  <2>11. ASSUME NEW r \in Readers, FrontLock(r) PROVE IInv'
    BY <2>11, OutsideStep DEF FrontLock, Locked
  <2>12. ASSUME NEW r \in Readers, FrontOpen(r) PROVE IInv'
    BY <2>12, OpenStep DEF FrontOpen, Front
  <2>13. ASSUME NEW r \in Readers, Read(r) PROVE IInv'
    <3>1. WriteLocks'
      BY <2>13 DEF Read, WriteLocks, Writes
    <3>2. ReadLocks'
      BY <2>13 DEF Read, ReadLocks
    <3>3. Exclusion'
      BY <2>13 DEF Read, Exclusion, WriteLocks, ReadLocks, Writes
    <3>4. Whole'
      BY <2>13 DEF Read, Whole, WriteLocks, Writes
    <3>5. ReadOK'
      <4>1. CASE got[r] = <<>> /\ got' = [got EXCEPT ![r] = <<first[link[r]]>>]
        BY <2>13, <4>1 DEF Read, ReadOK
      <4>2. CASE Len(got[r]) = 1 /\ got' = [got EXCEPT ![r] = Append(@, second[link[r]])]
        <5>1. got[r] = <<first[link[r]]>>
          <6>1. got[r] \in {<<>>, <<first[link[r]]>>, <<first[link[r]], second[link[r]]>>}
            BY DEF ReadOK
          <6>2. Len(got[r]) = 1
            BY <4>2
          <6>3. QED
            BY ONLY <6>1, <6>2, OneHalf
        <5>2. Append(got[r], second[link[r]]) = <<first[link[r]], second[link[r]]>>
          BY <2>13, <5>1, TwoHalves DEF Read
        <5>3. QED
          BY <2>13, <4>2, <5>2 DEF Read, ReadOK
      <4>3. QED
        BY <2>13, <4>1, <4>2 DEF Read
    <3>6. QED
      BY <3>1, <3>2, <3>3, <3>4, <3>5
  <2>14. ASSUME NEW r \in Readers, ReadClose(r) PROVE IInv'
    BY <2>14, CloseStep
  <2>15. ASSUME NEW r \in Readers, NextLock(r) PROVE IInv'
    BY <2>15, OutsideStep DEF NextLock, Locked
  <2>16. ASSUME NEW r \in Readers, NextOpen(r) PROVE IInv'
    <3> DEFINE next == newer[link[r]]
    <3>1. CASE next = NULL
      BY <2>16, <3>1 DEF NextOpen, WriteLocks, ReadLocks, Exclusion, Whole, ReadOK, Writes
    <3>2. CASE next # NULL
      <4>1. next \in Links /\ Open(r, next) /\ UNCHANGED <<data_w, first, second, oldest>>
        BY <2>16, <3>2 DEF NextOpen
      <4>2. QED
        BY <2>16, <4>1, OpenStep DEF NextOpen
    <3>3. QED
      BY <3>1, <3>2
  <2>17. CASE UNCHANGED vars
    BY <2>17 DEF vars, WriteLocks, ReadLocks, Exclusion, Whole, ReadOK, Writes
  <2>18. QED
    BY <2>1, <2>2, <2>3, <2>4, <2>5, <2>6, <2>7, <2>8, <2>9, <2>10, <2>11,
       <2>12, <2>13, <2>14, <2>15, <2>16, <2>17 DEF Next, WriterStep, ReaderStep
<1>3. QED
  BY <1>1, <1>2, PTL DEF Spec

(* A client that has read both halves of its link through read_front or    *)
(* read_next has read one version.                                         *)
THEOREM NoTornReadCorrect == Spec => []NoTornRead
<1>1. IInv => NoTornRead
  <2> SUFFICES ASSUME IInv, NEW r \in Readers, Len(got[r]) = 2
               PROVE  got[r][1] = got[r][2]
    BY DEF NoTornRead
  <2>1. got[r] = <<first[link[r]], second[link[r]]>> /\ pc[r] = "reading"
    BY DEF IInv, ReadOK
  <2>2. link[r] \in Links /\ data_w[link[r]] = NULL
    BY <2>1 DEF IInv, Typed, HasLink, ReadLocks, Exclusion
  <2>3. first[link[r]] = second[link[r]]
    BY <2>2, NullFacts DEF IInv, Whole, WriteLocks, Writes, Threads
  <2>4. QED
    BY <2>1, <2>3
<1>2. QED
  BY <1>1, Invariance, PTL

-----------------------------------------------------------------------------
(* One thread writes at most, as in swapchainTests.c: two writers could    *)
(* take the chain's links both, and append them in either order.           *)
OneWriter == \A v, w \in Writers : v = w

(* A writer has a link in hand, and it has begun to fill it. *)
Holding == {"write", "writing", "written", "publish", "link"}
Filled == Holding \ {"write"}

(* How many links are in the chain. *)
Size == NumLinks - (IF InHand = {} THEN 0 ELSE 1)

(* The n links that are not in H are chained in the order s. *)
IsChain(s, n, H) ==
  /\ \A i, j \in 1 .. n : s[i] = s[j] => i = j
  /\ \A l \in Links \ H : \E i \in 1 .. n : s[i] = l
  /\ s[1] = oldest /\ s[n] = newest /\ newer[newest] = NULL
  /\ \A i \in 1 .. n - 1 : /\ newer[s[i]] = s[i + 1]
                           /\ first[s[i]] < first[s[i + 1]] \/ first[s[i]] = 0

(* A single link is its own chain: it leaves nothing when it is taken, and *)
(* is appended to itself.                                                  *)
Chained ==
  NumLinks >= 2 => \E s \in [1 .. Size -> Links \ InHand] : IsChain(s, Size, InHand)

(* The link in hand leads nowhere, and its version is the newest of all    *)
(* once it has one.                                                        *)
InHandOK ==
  /\ \A l \in Links : first[l] <= writes
  /\ \A w \in Writers :
       /\ pc[w] \in Holding /\ NumLinks >= 2 => newer[link[w]] = NULL
       /\ pc[w] \in Filled => /\ first[link[w]] = writes
                              /\ \A l \in Links \ {link[w]} : first[l] < writes

(* Versions only grow, where a reader goes and where it has been. *)
FloorOK ==
  /\ published <= first[newest]
  /\ \A r \in Readers :
       /\ pc[r] \in {"front", "fronting"} => floor[r] <= published
       /\ pc[r] \in {"reading", "next", "nexting"} => floor[r] <= first[link[r]]

Ordered == Typed /\ Chained /\ InHandOK /\ FloorOK

(* The only writer has all the links that are in hand. *)
LEMMA OneInHand ==
  ASSUME OneWriter, NEW w \in Writers
  PROVE  InHand = IF pc[w] \in Holding THEN {link[w]} ELSE {}
  BY DEF InHand, Holding, OneWriter

(* What does not touch the chain, nor bring a writer nearer to or farther  *)
(* from a link.                                                            *)
Quiet ==
  /\ UNCHANGED <<oldest, newest, newer, first, writes, published>>
  /\ \A w \in Writers : /\ pc'[w] \in Holding <=> pc[w] \in Holding
                        /\ pc'[w] \in Filled <=> pc[w] \in Filled
                        /\ link'[w] = link[w]

LEMMA QuietSteps ==
  ASSUME Typed, [Next]_vars,
         \A w \in Writers : ~(Taking(w) \/ WriteFirst(w) \/ Link(w) \/ WriteClosed(w))
  PROVE  Quiet
<1> USE RolesAssumption
    DEF Typed, TypeOK, Threads, At, Goto, chain, locks, data, readerVars, Quiet, Holding, Filled
<1>1. ASSUME NEW w \in Writers, WriteBack(w) PROVE Quiet
  BY <1>1 DEF WriteBack
<1>2. ASSUME NEW w \in Writers, Take(w) PROVE Quiet
  BY <1>2 DEF Take
<1>3. ASSUME NEW w \in Writers, WriteSecond(w) PROVE Quiet
  BY <1>3 DEF WriteSecond
<1>4. ASSUME NEW w \in Writers, WriteClose(w) PROVE Quiet
  BY <1>4 DEF WriteClose
<1>5. ASSUME NEW w \in Writers, Publish(w) PROVE Quiet
  BY <1>5 DEF Publish
<1>6. ASSUME NEW r \in Readers, ReadFront(r) \/ FrontLock(r) \/ NextLock(r) PROVE Quiet
  BY <1>6 DEF ReadFront, FrontLock, NextLock
<1>7. ASSUME NEW r \in Readers, FrontOpen(r) PROVE Quiet
  BY <1>7 DEF FrontOpen, Open
<1>8. ASSUME NEW r \in Readers, Read(r) PROVE Quiet
  BY <1>8 DEF Read
<1>9. ASSUME NEW r \in Readers, ReadClose(r) PROVE Quiet
  BY <1>9 DEF ReadClose
<1>10. ASSUME NEW r \in Readers, NextOpen(r) PROVE Quiet
  BY <1>10 DEF NextOpen, Open
<1>11. CASE UNCHANGED vars
  BY <1>11 DEF vars
<1>12. QED
  BY <1>1, <1>2, <1>3, <1>4, <1>5, <1>6, <1>7, <1>8, <1>9, <1>10, <1>11
  DEF Next, WriterStep, ReaderStep

(* swapchain_init chains the links in the order of their addresses. *)
LEMMA ChainedInit == Init => Chained
<1> SUFFICES ASSUME Init, NumLinks >= 2
             PROVE  \E s \in [1 .. Size -> Links \ InHand] : IsChain(s, Size, InHand)
  BY DEF Chained
<1>1. InHand = {} /\ Size = NumLinks
  BY LinksAssumption DEF Init, InHand, Size, Threads
<1> DEFINE s == [i \in 1 .. NumLinks |-> i]
<1>2. s \in [1 .. NumLinks -> Links \ {}]
  BY DEF Links
<1>3. IsChain(s, NumLinks, {})
  BY LinksAssumption DEF Init, IsChain, Links
<1>4. QED
  BY <1>1, <1>2, <1>3

(* Taking the oldest link leaves the chain behind it. *)
LEMMA TakingChained ==
  ASSUME OneWriter, Typed, Chained, NEW w \in Writers, Taking(w)
  PROVE  Chained'
<1> SUFFICES ASSUME NumLinks >= 2
             PROVE  (\E s \in [1 .. Size -> Links \ InHand] : IsChain(s, Size, InHand))'
  BY DEF Chained
<1> USE LinksAssumption
<1>1. InHand = {} /\ Size = NumLinks
  BY OneInHand DEF Taking, At, Holding, Size
<1>2. PICK l \in Links : l = oldest /\ newest \in Links /\ newer \in [Links -> Maybe(Links)]
  BY DEF Typed, TypeOK, HasLink, Taking, At
<1>3. pc'[w] \in Holding /\ link'[w] = l
  BY <1>2 DEF Taking, Goto, Typed, TypeOK, Threads, Holding
<1>4. InHand' = {l}
  BY <1>3 DEF InHand, Holding, OneWriter
<1>5. Size' = NumLinks - 1
  BY <1>4 DEF Size
<1>6. PICK s \in [1 .. NumLinks -> Links] : IsChain(s, NumLinks, {})
  BY <1>1 DEF Chained
<1> DEFINE t == [i \in 1 .. NumLinks - 1 |-> s[i + 1]]
<1>7. s[1] = l /\ \A i \in 1 .. NumLinks - 1 : i + 1 \in 1 .. NumLinks /\ s[i + 1] # l
  BY <1>2, <1>6 DEF IsChain
<1>8. t \in [1 .. NumLinks - 1 -> Links \ {l}]
  BY <1>7
<1>9. /\ oldest' = s[2] /\ newest' = newest /\ first' = first
      /\ newer' = [newer EXCEPT ![l] = NULL]
  BY <1>2, <1>6 DEF Taking, Unlinked, IsChain, data
<1>10. IsChain(t, NumLinks - 1, {l})'
  <2>1. \A i, j \in 1 .. NumLinks - 1 : t[i] = t[j] => i = j
    BY <1>6, <1>7 DEF IsChain
  <2>2. \A k \in Links \ {l} : \E i \in 1 .. NumLinks - 1 : t[i] = k
    <3> SUFFICES ASSUME NEW k \in Links, k # l PROVE \E i \in 1 .. NumLinks - 1 : t[i] = k
      OBVIOUS
    <3>1. PICK j \in 1 .. NumLinks : s[j] = k
      BY <1>6 DEF IsChain
    <3>2. j - 1 \in 1 .. NumLinks - 1 /\ t[j - 1] = k
      BY <3>1, <1>7
    <3>3. QED
      BY <3>2
  <2>3. t[1] = oldest' /\ t[NumLinks - 1] = newest' /\ newer'[newest'] = NULL
    BY <1>2, <1>6, <1>7, <1>9 DEF IsChain
  <2>4. \A i \in 1 .. (NumLinks - 1) - 1 :
           /\ newer'[t[i]] = t[i + 1]
           /\ first'[t[i]] < first'[t[i + 1]] \/ first'[t[i]] = 0
    <3> SUFFICES ASSUME NEW i \in 1 .. (NumLinks - 1) - 1
                 PROVE  /\ newer'[t[i]] = t[i + 1]
                        /\ first'[t[i]] < first'[t[i + 1]] \/ first'[t[i]] = 0
      OBVIOUS
    <3>1. t[i] = s[i + 1] /\ t[i + 1] = s[(i + 1) + 1] /\ i + 1 \in 1 .. NumLinks - 1
      OBVIOUS
    <3>2. s[i + 1] \in Links /\ s[i + 1] # l
      BY <1>7, <3>1
    <3>3. QED
      BY <1>2, <1>6, <1>9, <3>1, <3>2 DEF IsChain
  <2>5. QED
    BY <2>1, <2>2, <2>3, <2>4 DEF IsChain
<1>11. QED
  BY <1>4, <1>5, <1>8, <1>10

(* write_close puts the link in hand behind the newest one. *)
LEMMA LinkChained ==
  ASSUME OneWriter, Typed, Chained, InHandOK, NEW w \in Writers, Link(w)
  PROVE  Chained'
<1> SUFFICES ASSUME NumLinks >= 2
             PROVE  (\E s \in [1 .. Size -> Links \ InHand] : IsChain(s, Size, InHand))'
  BY DEF Chained
<1> USE LinksAssumption
<1>1. PICK l \in Links : /\ l = link[w] /\ newest \in Links
                         /\ newer \in [Links -> Maybe(Links)] /\ first \in [Links -> Nat]
  BY DEF Typed, TypeOK, HasLink, Link, At
<1>2. InHand = {l} /\ Size = NumLinks - 1
  BY OneInHand, <1>1 DEF Link, At, Holding, Size
<1>3. pc'[w] \notin Holding
  BY DEF Link, Goto, Typed, TypeOK, Threads, Holding
<1>4. InHand' = {} /\ Size' = NumLinks
  <2>1. InHand' = {}
    BY <1>3 DEF InHand, Holding, OneWriter
  <2>2. QED
    BY <2>1 DEF Size
<1>5. PICK s \in [1 .. NumLinks - 1 -> Links \ {l}] : IsChain(s, NumLinks - 1, {l})
  BY <1>2 DEF Chained
<1> DEFINE t == [i \in 1 .. NumLinks |-> IF i < NumLinks THEN s[i] ELSE l]
<1>6. \A i \in 1 .. NumLinks - 1 : t[i] = s[i] /\ s[i] \in Links /\ s[i] # l
  OBVIOUS
<1>7. t[NumLinks] = l /\ t \in [1 .. NumLinks -> Links]
  BY <1>6
<1>8. /\ oldest' = oldest /\ newest' = l /\ first' = first
      /\ newer' = [newer EXCEPT ![newest] = l]
  BY <1>1 DEF Link, data
<1>9. newest # l /\ newer[l] = NULL /\ first[newest] < first[l]
  <2>1. newest # l
    BY <1>5, <1>6 DEF IsChain
  <2>2. QED
    BY <1>1, <2>1 DEF InHandOK, Link, At, Holding, Filled
<1>10. IsChain(t, NumLinks, {})'
  <2>1. \A i, j \in 1 .. NumLinks : t[i] = t[j] => i = j
    BY <1>5, <1>6, <1>7 DEF IsChain
  <2>2. \A k \in Links : \E i \in 1 .. NumLinks : t[i] = k
    <3> SUFFICES ASSUME NEW k \in Links PROVE \E i \in 1 .. NumLinks : t[i] = k
      OBVIOUS
    <3>1. CASE k = l
      BY <3>1, <1>7
    <3>2. CASE k # l
      <4>1. PICK j \in 1 .. NumLinks - 1 : s[j] = k
        BY <3>2, <1>5 DEF IsChain
      <4>2. QED
        BY <4>1, <1>6
    <3>3. QED
      BY <3>1, <3>2
  <2>3. t[1] = oldest' /\ t[NumLinks] = newest' /\ newer'[newest'] = NULL
    BY <1>1, <1>5, <1>6, <1>7, <1>8, <1>9 DEF IsChain
  <2>4. \A i \in 1 .. NumLinks - 1 :
           /\ newer'[t[i]] = t[i + 1]
           /\ first'[t[i]] < first'[t[i + 1]] \/ first'[t[i]] = 0
    <3> SUFFICES ASSUME NEW i \in 1 .. NumLinks - 1
                 PROVE  /\ newer'[t[i]] = t[i + 1]
                        /\ first'[t[i]] < first'[t[i + 1]] \/ first'[t[i]] = 0
      OBVIOUS
    <3>1. CASE i = NumLinks - 1
      <4>1. t[i] = newest /\ t[i + 1] = l
        BY <3>1, <1>5, <1>6, <1>7 DEF IsChain
      <4>2. QED
        BY <4>1, <1>1, <1>8, <1>9
    <3>2. CASE i < NumLinks - 1
      <4>1. i + 1 \in 1 .. NumLinks - 1 /\ t[i] = s[i] /\ t[i + 1] = s[i + 1]
        BY <3>2, <1>6
      <4>2. s[i] # newest /\ s[i] \in Links
        BY <3>2, <4>1, <1>5, <1>6 DEF IsChain
      <4>3. newer'[s[i]] = newer[s[i]]
        BY <4>2, <1>1, <1>8
      <4>4. /\ newer[s[i]] = s[i + 1]
            /\ first[s[i]] < first[s[i + 1]] \/ first[s[i]] = 0
        <5>1. i \in 1 .. (NumLinks - 1) - 1
          BY <3>2
        <5>2. \A k \in 1 .. (NumLinks - 1) - 1 :
                 /\ newer[s[k]] = s[k + 1]
                 /\ first[s[k]] < first[s[k + 1]] \/ first[s[k]] = 0
          BY <1>5 DEF IsChain
        <5>3. QED
          BY <5>1, <5>2
      <4> HIDE DEF t
      <4>5. newer'[t[i]] = t[i + 1]
        BY <4>1, <4>3, <4>4
      <4>6. first'[t[i]] < first'[t[i + 1]] \/ first'[t[i]] = 0
        BY <4>1, <4>4, <1>8
      <4>7. QED
        BY <4>5, <4>6
    <3>3. QED
      BY <3>1, <3>2
  <2>5. QED
    BY <2>1, <2>2, <2>3, <2>4 DEF IsChain
<1>11. QED
  BY <1>4, <1>7, <1>10

(* The chain is in order after every step. *)
LEMMA ChainedStep ==
  ASSUME OneWriter, Typed, Chained, InHandOK, [Next]_vars
  PROVE  Chained'
<1>1. CASE \A w \in Writers : ~(Taking(w) \/ WriteFirst(w) \/ Link(w) \/ WriteClosed(w))
  <2>1. Quiet
    BY <1>1, QuietSteps
  <2>2. InHand' = InHand /\ Size' = Size
    <3>1. InHand' = InHand
      BY <2>1 DEF Quiet, InHand, Holding
    <3>2. QED
      BY <3>1 DEF Size
  <2>3. QED
    BY <2>1, <2>2 DEF Quiet, Chained, IsChain
<1>2. ASSUME NEW w \in Writers, WriteFirst(w) PROVE Chained'
  <2> SUFFICES ASSUME NumLinks >= 2
               PROVE  (\E s \in [1 .. Size -> Links \ InHand] : IsChain(s, Size, InHand))'
    BY DEF Chained
  <2>1. PICK l \in Links : l = link[w] /\ first \in [Links -> Nat]
    BY <1>2 DEF Typed, TypeOK, HasLink, WriteFirst, At
  <2>2. InHand = {l} /\ Size = NumLinks - 1
    BY <1>2, <2>1, OneInHand DEF WriteFirst, At, Holding, Size
  <2>3. pc'[w] \in Holding /\ link'[w] = l
    BY <1>2, <2>1 DEF WriteFirst, Goto, Typed, TypeOK, Threads, Holding
  <2>4. InHand' = {l} /\ Size' = NumLinks - 1
    <3>1. InHand' = {l}
      BY <2>3 DEF InHand, Holding, OneWriter
    <3>2. QED
      BY <3>1 DEF Size
  <2>5. PICK s \in [1 .. NumLinks - 1 -> Links \ {l}] : IsChain(s, NumLinks - 1, {l})
    BY <2>2 DEF Chained
  <2>6. UNCHANGED <<oldest, newest, newer>> /\ \A k \in Links \ {l} : first'[k] = first[k]
    BY <1>2, <2>1 DEF WriteFirst, chain
  <2>7. \A i \in 1 .. (NumLinks - 1) - 1 :
           s[i] \in Links \ {l} /\ s[i + 1] \in Links \ {l}
    BY LinksAssumption
  <2>8. IsChain(s, NumLinks - 1, {l})'
    <3>1. \A i \in 1 .. (NumLinks - 1) - 1 :
             first'[s[i]] < first'[s[i + 1]] \/ first'[s[i]] = 0
      BY <2>5, <2>6, <2>7 DEF IsChain
    <3>2. QED
      BY <2>5, <2>6, <3>1 DEF IsChain
  <2>9. QED
    BY <2>4, <2>8
<1>3. ASSUME NEW w \in Writers, WriteClosed(w) PROVE Chained'
  <2> SUFFICES ASSUME NumLinks >= 2 PROVE Chained'
    BY DEF Chained
  <2>1. /\ pc[w] \notin Holding
        /\ pc'[w] \notin Holding
    BY <1>3 DEF WriteClosed, At, Goto, Typed, TypeOK, Threads, Holding
  <2>2. InHand = {} /\ InHand' = {}
    BY <2>1 DEF InHand, Holding, OneWriter
  <2>3. Size = NumLinks /\ Size' = NumLinks
    BY <2>2, LinksAssumption DEF Size
  <2>4. PICK s \in [1 .. NumLinks -> Links] : IsChain(s, NumLinks, {})
    BY <2>2, <2>3 DEF Chained
  <2>5. oldest # NULL
    BY <2>4, NullFacts, LinksAssumption DEF IsChain
  <2>6. UNCHANGED <<oldest, newest, newer, first>>
    BY <1>3, <2>5 DEF WriteClosed, data
  <2>7. IsChain(s, NumLinks, {})'
    BY <2>4, <2>6 DEF IsChain
  <2>8. (\E q \in [1 .. Size -> Links \ InHand] : IsChain(q, Size, InHand))'
    <3>1. s \in [1 .. NumLinks -> Links \ {}]
      OBVIOUS
    <3>2. QED
      BY <2>2, <2>3, <2>7, <3>1
  <2>9. QED
    BY <2>8 DEF Chained
<1>4. QED
  BY <1>1, <1>2, <1>3, TakingChained, LinkChained

(* The link in hand stays apart, and gets the newest version. *)
LEMMA InHandStep ==
  ASSUME OneWriter, Typed, InHandOK, [Next]_vars
  PROVE  InHandOK'
<1> USE DEF Typed, TypeOK, HasLink, Threads, Links, Maybe, At, Goto, chain, data, locks
<1>1. CASE \A w \in Writers : ~(Taking(w) \/ WriteFirst(w) \/ Link(w) \/ WriteClosed(w))
  BY <1>1, QuietSteps DEF Quiet, InHandOK
<1>2. ASSUME NEW w \in Writers, Taking(w) PROVE InHandOK'
  <2>1. \A v \in Writers : v = w /\ pc'[v] = "write" /\ link'[v] = oldest
    BY <1>2 DEF Taking, OneWriter
  <2>2. newer'[oldest] = NULL /\ UNCHANGED <<first, writes>>
    BY <1>2 DEF Taking, Unlinked
  <2>3. QED
    BY <2>1, <2>2 DEF InHandOK, Filled
<1>3. ASSUME NEW w \in Writers, WriteFirst(w) PROVE InHandOK'
  <2>1. \A v \in Writers : v = w /\ pc'[v] = "writing" /\ link'[v] = link[w]
    BY <1>3 DEF WriteFirst, OneWriter
  <2>2. writes' = writes + 1 /\ first'[link[w]] = writes' /\ UNCHANGED newer
    BY <1>3 DEF WriteFirst
  <2>3. \A l \in Links \ {link[w]} : first'[l] = first[l] /\ first[l] < writes'
    BY <1>3 DEF WriteFirst, InHandOK
  <2>4. NumLinks >= 2 => newer[link[w]] = NULL
    BY <1>3 DEF WriteFirst, InHandOK, Holding
  <2>5. \A l \in Links : first'[l] <= writes'
    BY <2>2, <2>3
  <2>6. QED
    BY <2>1, <2>2, <2>3, <2>4, <2>5 DEF InHandOK
<1>4. ASSUME NEW w \in Writers, Link(w) PROVE InHandOK'
  BY <1>4 DEF Link, InHandOK, Holding, Filled, OneWriter
<1>5. ASSUME NEW w \in Writers, WriteClosed(w) PROVE InHandOK'
  BY <1>5 DEF WriteClosed, InHandOK, Holding, Filled, OneWriter
<1>6. QED
  BY <1>1, <1>2, <1>3, <1>4, <1>5

(* newer leads to a newer version, if anywhere. *)
LEMMA NewerIsNewer ==
  ASSUME OneWriter, Typed, Chained, InHandOK,
         NEW l \in Links, newer[l] # NULL
  PROVE  newer[l] \in Links /\ first[l] <= first[newer[l]]
<1> USE LinksAssumption DEF Typed, TypeOK, HasLink, Maybe, Threads
<1>1. newer[l] \in Links /\ \A k \in Links : first[k] \in Nat
  OBVIOUS
<1>2. CASE NumLinks = 1
  <2>1. newer[l] = l
    BY <1>1, <1>2 DEF Links
  <2>2. QED
    BY <1>1, <2>1
<1>3. CASE NumLinks >= 2
  <2>1. l \notin InHand
    BY <1>3 DEF InHand, InHandOK, Holding
  <2> DEFINE n == Size
  <2>n. n \in Nat
    BY <1>3 DEF Size
  <2>2. PICK s \in [1 .. n -> Links \ InHand] : IsChain(s, n, InHand)
    BY <1>3 DEF Chained
  <2> HIDE DEF n
  <2>3. PICK i \in 1 .. n : s[i] = l
    BY <2>1, <2>2 DEF IsChain
  <2>4. i # n
    BY <2>2, <2>3 DEF IsChain
  <2>5. i \in 1 .. n - 1
    BY <2>4, <2>n
  <2>6. newer[l] = s[i + 1] /\ (first[l] < first[s[i + 1]] \/ first[l] = 0)
    BY <2>2, <2>3, <2>5 DEF IsChain
  <2>7. QED
    BY <1>1, <2>6
<1>4. QED
  BY <1>2, <1>3, LinksAssumption

(* Whatever link a reader goes to is new enough, and only gets newer. *)
LEMMA FloorStep ==
  ASSUME OneWriter, Typed, Chained, InHandOK, FloorOK, [Next]_vars
  PROVE  FloorOK'
<1> USE RolesAssumption
    DEF Typed, TypeOK, HasLink, Threads, Maybe, At, Goto, chain, data, locks, readerVars
<1>1. ASSUME NEW w \in Writers, Taking(w) \/ WriteClosed(w) PROVE FloorOK'
  <2>1. /\ UNCHANGED <<newest, first, published, floor>>
        /\ \A r \in Readers : pc'[r] = pc[r] /\ link'[r] = link[r]
    BY <1>1 DEF Taking, WriteClosed
  <2>2. QED
    BY <2>1 DEF FloorOK
<1>2. ASSUME NEW w \in Writers, WriteFirst(w) PROVE FloorOK'
  <2>1. \A l \in Links : first'[l] >= first[l] /\ first[l] \in Nat /\ first'[l] \in Nat
    BY <1>2 DEF WriteFirst, InHandOK
  <2>2. /\ UNCHANGED <<newest, published, floor>>
        /\ \A r \in Readers : pc'[r] = pc[r] /\ link'[r] = link[r]
    BY <1>2 DEF WriteFirst
  <2>3. published' <= first'[newest']
    BY <2>1, <2>2 DEF FloorOK
  <2>4. QED
    BY <2>1, <2>2, <2>3 DEF FloorOK
<1>3. ASSUME NEW w \in Writers, Link(w) PROVE FloorOK'
  <2>1. published' = first[link[w]] /\ newest' = link[w] /\ UNCHANGED <<first, floor>>
    BY <1>3 DEF Link
  <2>2. first[link[w]] = writes /\ first[newest] <= writes
    BY <1>3 DEF Link, InHandOK, Filled, Holding
  <2>3. published <= published'
    <3>1. published <= first[newest] /\ published \in Nat /\ first[newest] \in Nat
      BY DEF FloorOK
    <3>2. writes \in Nat /\ published' = writes
      BY <2>1, <2>2
    <3>3. QED
      BY <2>2, <3>1, <3>2
  <2>4. \A r \in Readers : pc'[r] = pc[r] /\ link'[r] = link[r]
    BY <1>3 DEF Link
  <2>5. published' \in Nat /\ first[link[w]] \in Nat
    BY <1>3, <2>1 DEF Link
  <2>6. \A r \in Readers : pc[r] \in {"front", "fronting"} => floor[r] <= published'
    <3> SUFFICES ASSUME NEW r \in Readers, pc[r] \in {"front", "fronting"}
                 PROVE  floor[r] <= published'
      OBVIOUS
    <3>1. floor[r] <= published /\ floor[r] \in Nat /\ published \in Nat
      BY DEF FloorOK
    <3>2. QED
      BY <2>3, <2>5, <3>1
  <2>7. published' <= first'[newest']
    BY <2>1, <2>5
  <2>8. QED
    BY <2>1, <2>4, <2>6, <2>7 DEF FloorOK
<1>4. CASE \A w \in Writers : ~(Taking(w) \/ WriteFirst(w) \/ Link(w) \/ WriteClosed(w))
  <2>1. Quiet
    BY <1>4, QuietSteps
  <2>2. published' <= first'[newest']
    BY <2>1 DEF Quiet, FloorOK
  <2> DEFINE Held(r) == /\ pc[r] \in {"front", "fronting"} => floor[r] <= published
                        /\ pc[r] \in {"reading", "next", "nexting"} => floor[r] <= first[link[r]]
             Kept == \A r \in Readers :
               pc'[r] = pc[r] /\ link'[r] = link[r] /\ floor'[r] = floor[r]
  <2>3. \A r \in Readers : Held(r)
    BY DEF FloorOK
  <2>4. CASE Kept
    BY <2>1, <2>2, <2>3, <2>4 DEF Quiet, FloorOK
  <2>5. ASSUME NEW r \in Readers,
               \A q \in Readers \ {r} :
                  pc'[q] = pc[q] /\ link'[q] = link[q] /\ floor'[q] = floor[q],
               Held(r)'
        PROVE  FloorOK'
    BY <2>1, <2>2, <2>3, <2>5 DEF Quiet, FloorOK
  <2>6. ASSUME NEW w \in Writers,
               WriteBack(w) \/ Take(w) \/ WriteSecond(w) \/ WriteClose(w) \/ Publish(w)
        PROVE  FloorOK'
    <3>1. Kept
      BY <2>6 DEF WriteBack, Take, WriteSecond, WriteClose, Publish
    <3>2. QED
      BY <2>4, <3>1
  <2>7. ASSUME NEW r \in Readers, ReadFront(r) PROVE FloorOK'
    <3>1. Held(r)'
      BY <2>7 DEF ReadFront
    <3>2. QED
      BY <2>5, <2>7, <3>1 DEF ReadFront
  <2>8. ASSUME NEW r \in Readers, FrontLock(r) PROVE FloorOK'
    <3>1. Held(r)'
      BY <2>3, <2>8 DEF FrontLock
    <3>2. QED
      BY <2>5, <2>8, <3>1 DEF FrontLock
  <2>9. ASSUME NEW r \in Readers, FrontOpen(r) PROVE FloorOK'
    <3>1. floor[r] <= first[newest]
      BY <2>3, <2>9 DEF FrontOpen, FloorOK
    <3>2. pc'[r] = "reading" /\ link'[r] = newest /\ UNCHANGED <<floor, first>>
      BY <2>9 DEF FrontOpen, Open, Front
    <3>3. Held(r)'
      BY <3>1, <3>2
    <3>4. QED
      BY <2>5, <2>9, <3>3 DEF FrontOpen, Open
  <2>10. ASSUME NEW r \in Readers, Read(r) PROVE FloorOK'
    <3>1. Kept
      BY <2>10 DEF Read
    <3>2. QED
      BY <2>4, <3>1
  <2>11. ASSUME NEW r \in Readers, ReadClose(r) PROVE FloorOK'
    <3>1. first[link[r]] \in Nat
      BY <2>11 DEF ReadClose
    <3>2. Held(r)'
      BY <2>11, <3>1 DEF ReadClose
    <3>3. QED
      BY <2>5, <2>11, <3>2 DEF ReadClose
  <2>12. ASSUME NEW r \in Readers, NextLock(r) PROVE FloorOK'
    <3>1. Held(r)'
      BY <2>3, <2>12 DEF NextLock
    <3>2. QED
      BY <2>5, <2>12, <3>1 DEF NextLock
  <2>13. ASSUME NEW r \in Readers, NextOpen(r) PROVE FloorOK'
    <3>1. CASE newer[link[r]] = NULL
      <4>1. Kept
        BY <2>13, <3>1 DEF NextOpen
      <4>2. QED
        BY <2>4, <4>1
    <3>2. CASE newer[link[r]] # NULL
      <4> DEFINE l == newer[link[r]]
      <4>1. link[r] \in Links /\ floor[r] <= first[link[r]]
        BY <2>3, <2>13 DEF NextOpen
      <4>2. l \in Links /\ first[link[r]] <= first[l]
        BY <3>2, <4>1, NewerIsNewer
      <4>3. floor[r] <= first[l]
        BY <4>1, <4>2
      <4>4. pc'[r] = "reading" /\ link'[r] = l /\ UNCHANGED <<floor, first>>
        BY <2>13, <3>2 DEF NextOpen, Open
      <4>5. Held(r)'
        BY <4>3, <4>4
      <4>6. QED
        BY <2>5, <2>13, <3>2, <4>5 DEF NextOpen, Open
    <3>3. QED
      BY <3>1, <3>2
  <2>14. CASE UNCHANGED vars
    BY <2>4, <2>14 DEF vars
  <2>15. QED
    BY <1>4, <2>6, <2>7, <2>8, <2>9, <2>10, <2>11, <2>12, <2>13, <2>14
    DEF Next, WriterStep, ReaderStep
<1>5. QED
  BY <1>1, <1>2, <1>3, <1>4

-----------------------------------------------------------------------------
(* The chain, the link in hand and the floors hold together. *)
THEOREM OrderInvariance == ASSUME OneWriter PROVE Spec => []Ordered
<1>1. Init => Ordered
  <2> SUFFICES ASSUME Init PROVE Ordered
    OBVIOUS
  <2>1. InHandOK /\ FloorOK
    BY LinksAssumption DEF Init, InHandOK, FloorOK, Holding, Filled, Threads, Links
  <2>2. QED
    BY <2>1, TypedInit, ChainedInit DEF Ordered
<1>2. Ordered /\ [Next]_vars => Ordered'
  BY TypedStep, ChainedStep, InHandStep, FloorStep DEF Ordered
<1>3. QED
  BY <1>1, <1>2, PTL DEF Spec

(* The links that are not in hand form one chain from the oldest to the    *)
(* newest, whatever the readers do: write_back loses none, and its writer  *)
(* takes the oldest version.                                               *)
THEOREM ChainCorrect == ASSUME OneWriter, NumLinks >= 2 PROVE Spec => []ChainOK
<1>1. Ordered => ChainOK
  <2> SUFFICES ASSUME Ordered PROVE ChainOK
    OBVIOUS
  <2>1. PICK s \in [1 .. Size -> Links \ InHand] : IsChain(s, Size, InHand)
    BY DEF Ordered, Chained
  <2>2. QED
    BY <2>1 DEF ChainOK, IsChain, Size
<1>2. QED
  BY <1>1, OrderInvariance, PTL

(* No reader goes back in time, neither through read_front nor through     *)
(* read_next, though the link that read_next starts from may have been     *)
(* recycled meanwhile.                                                     *)
THEOREM FreshCorrect == ASSUME OneWriter PROVE Spec => []Fresh
<1>1. Ordered => Fresh
  BY DEF Ordered, FloorOK, Fresh, Typed, TypeOK, HasLink, Threads
<1>2. QED
  BY <1>1, OrderInvariance, PTL

-----------------------------------------------------------------------------
(* The chain is empty only while its one link is being written. *)
NeverEmpty == oldest = NULL => \E w \in Writers : pc[w] \in Holding \cup {"closing"}

(* Readers that read the front never follow newer. *)
FrontReaders == FrontOnly => \A r \in Readers : pc[r] \notin {"next", "nexting"}

Alive == Typed /\ NeverEmpty /\ FrontReaders /\ NoCrash

(* Neither write_back nor read_front dereferences NULL, also with a chain  *)
(* of one link, which is empty from its write_back to the end of its       *)
(* write_close.                                                            *)
THEOREM NoCrashCorrect == ASSUME OneWriter, FrontOnly PROVE Spec => []NoCrash
<1> USE NullFacts, RolesAssumption
    DEF Typed, TypeOK, HasLink, Threads, Maybe, At, Goto, chain, data, locks, readerVars,
        FrontReaders
<1>1. Init => Alive
  <2>1. Init => NeverEmpty /\ FrontReaders /\ NoCrash
    BY LinksAssumption DEF Init, NeverEmpty, NoCrash, Links
  <2>2. QED
    BY <2>1, TypedInit DEF Alive
<1>2. Alive /\ [Next]_vars => Alive'
  <2> SUFFICES ASSUME Alive, [Next]_vars PROVE Alive'
    OBVIOUS
  <2>t. Typed /\ Typed' /\ NeverEmpty /\ FrontReaders /\ NoCrash
    BY TypedStep DEF Alive
  <2>1. ASSUME NEW w \in Writers, Take(w) PROVE Alive'
    <3>1. oldest # NULL
      BY <2>t, <2>1 DEF Take, NeverEmpty, OneWriter, Holding
    <3>2. QED
      BY <2>t, <2>1, <3>1 DEF Take, NeverEmpty, NoCrash, Alive
  <2>2. ASSUME NEW w \in Writers, Taking(w) PROVE Alive'
    <3>1. pc'[w] = "write"
      BY <2>t, <2>2 DEF Taking
    <3>2. NeverEmpty'
      BY <3>1 DEF NeverEmpty, Holding
    <3>3. QED
      BY <2>t, <2>2, <3>2 DEF Taking, NoCrash, Alive
  <2>3. ASSUME NEW w \in Writers, WriteClosed(w) PROVE Alive'
    <3>1. oldest' # NULL
      BY <2>t, <2>3 DEF WriteClosed
    <3>2. QED
      BY <2>t, <2>3, <3>1 DEF WriteClosed, NeverEmpty, NoCrash, Alive
  <2>4. ASSUME NEW w \in Writers,
               WriteBack(w) \/ WriteFirst(w) \/ WriteSecond(w) \/ WriteClose(w)
                 \/ Publish(w) \/ Link(w)
        PROVE  Alive'
    <3>0. PICK p : pc' = [pc EXCEPT ![w] = p]
      BY <2>4 DEF WriteBack, WriteFirst, WriteSecond, WriteClose, Publish, Link
    <3>5. \A r \in Readers : pc'[r] = pc[r]
      BY <2>t, <3>0
    <3>6. oldest' = oldest /\ crashed' = crashed
      BY <2>4 DEF WriteBack, WriteFirst, WriteSecond, WriteClose, Publish, Link
    <3>1. oldest' = oldest /\ crashed' = crashed /\ \A r \in Readers : pc'[r] = pc[r]
      BY <3>5, <3>6
    <3>2. pc[w] \in Holding => pc'[w] \in Holding \cup {"closing"}
      BY <2>t, <2>4 DEF WriteBack, WriteFirst, WriteSecond, WriteClose, Publish, Link, Holding
    <3>3. pc[w] # "closing"
      BY <2>4 DEF WriteBack, WriteFirst, WriteSecond, WriteClose, Publish, Link
    <3>4. QED
      BY <2>t, <3>1, <3>2, <3>3 DEF NeverEmpty, NoCrash, Alive, OneWriter
  <2>5. ASSUME NEW r \in Readers, ReadFront(r) \/ ReaderStep(r) PROVE Alive'
    <3>1. ~NextLock(r) /\ ~NextOpen(r)
      BY <2>t DEF NextLock, NextOpen
    <3>2. ReadFront(r) \/ FrontLock(r) \/ FrontOpen(r) \/ Read(r) \/ ReadClose(r)
      BY <2>5, <3>1 DEF ReaderStep
    <3>0. PICK p : pc' = [pc EXCEPT ![r] = p] \/ pc' = pc
      BY <3>2 DEF ReadFront, FrontLock, FrontOpen, Open, Read, ReadClose
    <3>6. \A w \in Writers : pc'[w] = pc[w]
      BY <2>t, <3>0
    <3>7. oldest' = oldest /\ crashed' = crashed
      BY <3>2 DEF ReadFront, FrontLock, FrontOpen, Open, Read, ReadClose
    <3>3. /\ oldest' = oldest /\ crashed' = crashed
          /\ \A w \in Writers : pc'[w] = pc[w]
      BY <3>6, <3>7
    <3>4. FrontReaders'
      BY <2>t, <3>2 DEF ReadFront, FrontLock, FrontOpen, Open, Read, ReadClose
    <3>5. QED
      BY <2>t, <3>3, <3>4 DEF NeverEmpty, NoCrash, Alive
  <2>6. CASE UNCHANGED vars
    BY <2>t, <2>6 DEF vars, NeverEmpty, NoCrash, Alive
  <2>7. QED
    BY <2>1, <2>2, <2>3, <2>4, <2>5, <2>6 DEF Next, WriterStep
<1>3. Alive => NoCrash
  BY DEF Alive
<1>4. QED
  BY <1>1, <1>2, <1>3, PTL DEF Spec
=============================================================================
