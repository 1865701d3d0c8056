--------------------------- MODULE ArraylistProofs --------------------------
(***************************************************************************)
(* Proofs about Arraylist: the assertions of the pool stop what the list   *)
(* does not check, and its calls implement those of List, for calls that   *)
(* are too small for the arithmetic on words to overflow.                  *)
(***************************************************************************)
EXTENDS Arraylist, SequenceTheorems, TLAPS

W == 2 ^ Width

(* No index and no count of a call is near the end of the words.           *)
Small(bound) ==
  /\ \A c \in Calls : c.index + c.count <= bound
  /\ 3 * bound * ItemSize + BufLen < 2 ^ Width

SmallCalls == \E bound \in Nat : Small(bound)

Inside == {"moving", "copying", "leaving"}

(* Where a thread is says what it holds. *)
Control(t) ==
  /\ call[t] = NULL <=> pc[t] = "idle"
  /\ pc[t] = "skipping" => call[t].count = 0
  /\ pc[t] \in Inside \cup {"locking"} => call[t].count # 0
  /\ pc[t] \in Inside <=> rwlock = t
  /\ pc[t] \notin Inside => at[t] = 0
  /\ pc[t] \in {"skipping", "locking"} => dst[t] = <<>>
  /\ pc[t] = "copying" => at[t] < call[t].count
  /\ pc[t] \in Inside => ~Refused(call[t])
  /\ pc[t] = "moving" => call[t].op = "remove" \/ (call[t].op = "insert" /\ at[t] = 0)

Typed == TypeOK /\ \A t \in Threads : Control(t)

(* pop_back may count more items than there are, but not without end. *)
Counts(bound) == item_count <= MaxCount + 2 * bound

(* The first n items are as they were when the lock was taken. *)
Same(n) == \A i \in 1 .. n : before[i] = IF i <= NumItems THEN buf[i - 1] ELSE Junk

(* What t has copied in so far, and what it has copied out. *)
CopiedIn(t) ==
  call[t].mem # NULL =>
    \A j \in 0 .. at[t] - 1 :
      buf[Start(call[t]) + j] = Element(call[t].mem, Start(call[t]))

CopiedOut(t, from) ==
  Len(dst[t]) = at[t] /\ \A j \in 1 .. at[t] : dst[t][j] = before[from + j]

(* How far t has come with its call. *)
Pushing(t) ==
  /\ Same(item_count) /\ CopiedIn(t)
  /\ dst[t] = <<>>

Inserting(t) ==
  LET c == call[t] IN
  /\ dst[t] = <<>>
  /\ pc[t] = "moving" => Same(item_count) /\ at[t] = 0
  /\ pc[t] # "moving" =>
       /\ c.index <= item_count
       /\ Same(c.index) /\ CopiedIn(t)
       /\ \A j \in c.index .. item_count - 1 : buf[j + c.count] = before[j + 1]

Popping(t) ==
  /\ Same(item_count) /\ CopiedOut(t, 0)
  /\ at[t] # 0 => item_count = call[t].count

Removing(t) ==
  LET c == call[t] IN
  /\ CopiedOut(t, c.index)
  /\ pc[t] # "leaving" => Same(item_count)
  /\ pc[t] = "leaving" =>
       /\ item_count <= NumItems
       /\ Same(c.index)
       /\ \A j \in c.index + c.count .. item_count - 1 : buf[j - c.count] = before[j + 1]

(* t is through with its copies. *)
Done(t) == pc[t] = "leaving" \/ (pc[t] = "moving" /\ call[t].op = "remove")

Progress(t) ==
  /\ Len(before) = item_count
  /\ IF call[t].mem = NULL THEN at[t] = 0 ELSE Done(t) => at[t] = call[t].count
  /\ CASE call[t].op = "push_back" -> Pushing(t)
       [] call[t].op = "insert" -> Inserting(t)
       [] call[t].op = "pop_back" -> Popping(t)
       [] call[t].op = "remove" -> Removing(t)

-----------------------------------------------------------------------------
(* The arithmetic of words: what does not overflow is what it seems. *)
LEMMA Words ==
  /\ W \in Nat \ {0} /\ NumItems \in Nat \ {0} /\ NumItems < W /\ MaxCount = NumItems
  /\ \A x, y \in Int : Plus(x, y) \in 0 .. W - 1 /\ Minus(x, y) \in 0 .. W - 1
  /\ \A x, y \in Nat : x + y < W => Plus(x, y) = x + y
  /\ \A x, y \in Nat : y <= x /\ x < W => Minus(x, y) = x - y
  /\ \A x, y \in Nat : x < y /\ y - x < W => Minus(x, y) = W - (y - x)
<1>1. W \in Nat \ {0}
  BY PoolAssumption, WordAssumption DEF W
<1>2. NumItems \in Nat \ {0} /\ NumItems <= BufLen /\ NumItems < W /\ MaxCount = NumItems
  BY <1>1, PoolAssumption DEF NumItems, MaxCount, W
<1>3. \A x, y \in Int : Plus(x, y) = (x + y) % W /\ Minus(x, y) = (x - y) % W
  BY DEF Plus, Minus, W
<1> HIDE DEF W
<1>4. \A x \in Int : x % W \in 0 .. W - 1
  BY <1>1
<1>5. \A x \in Int : 0 <= x /\ x < W => x % W = x
  BY <1>1
<1>6. \A x \in Int : x < 0 /\ -x < W => x % W = W + x
  BY <1>1
<1>7. \A x, y \in Int : Plus(x, y) \in 0 .. W - 1 /\ Minus(x, y) \in 0 .. W - 1
  BY <1>3, <1>4
<1>8. \A x, y \in Nat : x + y < W => Plus(x, y) = x + y
  BY <1>3, <1>5
<1>9. \A x, y \in Nat : y <= x /\ x < W => Minus(x, y) = x - y
  <2> SUFFICES ASSUME NEW x \in Nat, NEW y \in Nat, y <= x, x < W PROVE Minus(x, y) = x - y
    OBVIOUS
  <2>1. x - y \in Int /\ 0 <= x - y /\ x - y < W
    BY <1>1
  <2>2. QED
    BY <1>3, <1>5, <2>1
<1>10. \A x, y \in Nat : x < y /\ y - x < W => Minus(x, y) = W - (y - x)
  <2> SUFFICES ASSUME NEW x \in Nat, NEW y \in Nat, x < y, y - x < W PROVE Minus(x, y) = W - (y - x)
    OBVIOUS
  <2>1. x - y \in Int /\ x - y < 0 /\ -(x - y) < W /\ W + (x - y) = W - (y - x)
    BY <1>1
  <2>2. QED
    BY <1>3, <1>6, <2>1
<1>11. QED
  BY <1>1, <1>2, <1>7, <1>8, <1>9, <1>10

LEMMA WordResult ==
  ASSUME NEW x \in Nat, NEW y \in Nat
  PROVE  /\ Plus(x, y) \in 0 .. W - 1 /\ Minus(x, y) \in 0 .. W - 1
         /\ Plus(x, y) \in Nat /\ Minus(x, y) \in Nat
<1>1. Plus(x, y) \in 0 .. W - 1 /\ Minus(x, y) \in 0 .. W - 1
  <2>1. x \in Int /\ y \in Int
    OBVIOUS
  <2>2. QED
    BY <2>1, Words
<1>2. QED
  BY <1>1

LEMMA Remainder ==
  ASSUME NEW w \in Nat \ {0}, NEW q \in Nat, NEW r \in Nat, r < w
  PROVE  (q * w + r) % w = r
OBVIOUS

LEMMA Distributes ==
  ASSUME NEW x \in Nat, NEW y \in Nat, NEW z \in Nat
  PROVE  (x + 3 * y) * z = x * z + 3 * y * z
OBVIOUS

(* The assertions of the pool say of a small number whether it is in the   *)
(* buffer, and no to one that is a little below zero.                      *)
LEMMA Assertions ==
  ASSUME NEW bound \in Nat, Small(bound)
  PROVE  /\ \A x \in Nat : x <= NumItems + 3 * bound =>
              x < W /\ (Times(x, ItemSize) <= BufLen <=> x <= NumItems)
         /\ \A d \in 1 .. bound : ~HasPtr(W - d)
<1>1. /\ W \in Nat \ {0} /\ ItemSize \in Nat \ {0} /\ BufLen \in Nat /\ BufLen < W
      /\ NumItems = BufLen \div ItemSize /\ NumItems \in Nat
      /\ 3 * bound * ItemSize + BufLen < W
  BY Words, PoolAssumption DEF W, NumItems, Small
<1>2. \A x \in Int : Times(x, ItemSize) = (x * ItemSize) % W
  BY DEF Times, W
<1> HIDE DEF W
<1>3. ASSUME NEW x \in Nat, x <= NumItems + 3 * bound
      PROVE  x < W /\ (Times(x, ItemSize) <= BufLen <=> x <= NumItems)
  <2>1. NumItems * ItemSize <= BufLen
    BY <1>1
  <2>2. x * ItemSize <= (NumItems + 3 * bound) * ItemSize
    BY <1>1, <1>3
  <2>3. (NumItems + 3 * bound) * ItemSize = NumItems * ItemSize + 3 * bound * ItemSize
    <3>1. NumItems \in Nat /\ bound \in Nat /\ ItemSize \in Nat
      BY <1>1
    <3>2. QED
      BY <3>1, Distributes, Zenon
  <2>4. x * ItemSize \in Nat /\ x * ItemSize < W
    BY <1>1, <2>1, <2>2, <2>3
  <2>5. x <= x * ItemSize
    BY <1>1
  <2>6. Times(x, ItemSize) = x * ItemSize
    <3>1. PICK r \in Nat : r = x * ItemSize /\ r < W
      BY <2>4
    <3>2. r % W = r
      BY <1>1, <3>1
    <3>3. QED
      BY <1>2, <3>1, <3>2
  <2>7. x * ItemSize <= BufLen <=> x <= NumItems
    BY <1>1
  <2>8. QED
    BY <1>1, <2>4, <2>5, <2>6, <2>7
<1>4. ASSUME NEW d \in 1 .. bound PROVE ~HasPtr(W - d)
  <2>1. d * ItemSize <= bound * ItemSize /\ d * ItemSize > 0 /\ d * ItemSize \in Nat
    BY <1>1
  <2>2. 3 * bound * ItemSize = bound * ItemSize + 2 * (bound * ItemSize) /\ bound * ItemSize \in Nat
    BY <1>1
  <2>3. PICK r \in Nat : r = W - d * ItemSize /\ r < W /\ r > BufLen
    BY <1>1, <2>1, <2>2
  <2>4. PICK q \in Nat : q = ItemSize - 1
    BY <1>1
  <2>5. (W - d) * ItemSize = q * W + r
    BY <1>1, <2>3, <2>4
  <2>6. (q * W + r) % W = r
    BY <1>1, <2>3, Remainder
  <2>7. W - d \in Int
    BY <1>1
  <2>8. Times(W - d, ItemSize) = r
    BY <1>2, <2>5, <2>6, <2>7
  <2>9. QED
    BY <1>1, <2>3, <2>8 DEF HasPtr
<1>5. QED
  BY <1>3, <1>4

-----------------------------------------------------------------------------
LEMMA CallFields ==
  ASSUME NEW c \in Calls
  PROVE  /\ c.op \in {"push_back", "pop_back", "insert", "remove"}
         /\ c.index \in Nat /\ c.count \in Nat /\ c.mem \in Seq(Values) \cup {NULL}
BY CallsAssumption

LEMMA InitTyped == Init => Typed
<1> SUFFICES ASSUME Init PROVE Typed
  OBVIOUS
<1>1. TypeOK
  BY Words DEF Init, TypeOK, Data, W, Places
<1>2. \A t \in Threads : Control(t)
  BY NullAssumption DEF Init, Control, Inside
<1>3. QED
  BY <1>1, <1>2 DEF Typed

(* A step of t leaves the other threads where they are. *)
LEMMA OthersStay ==
  ASSUME Typed, NEW t \in Threads, NEW s \in Threads \ {t},
         pc'[s] = pc[s], call'[s] = call[s], at'[s] = at[s], dst'[s] = dst[s],
         rwlock' = rwlock \/ {rwlock, rwlock'} = {t, NULL},
         item_count' = item_count \/ rwlock = t
  PROVE  Control(s)'
<1>1. Control(s)
  BY DEF Typed
<1>2. rwlock' = s <=> rwlock = s
  BY NullAssumption
<1>3. rwlock = s => Refused(call[s])' = Refused(call[s])
  BY DEF Refused, Overfills
<1>4. QED
  BY <1>1, <1>2, <1>3 DEF Control

LEMMA TypedCall == ASSUME Typed, NEW t \in Threads, NEW c \in Calls, Call(t, c) PROVE Typed'
<1> USE DEF Typed
<1>1. TypeOK'
  <2>1. /\ call' = [call EXCEPT ![t] = c] /\ dst' = [dst EXCEPT ![t] = <<>>]
        /\ pc' = [pc EXCEPT ![t] = IF c.count = 0 THEN "skipping" ELSE "locking"]
        /\ UNCHANGED <<buf, item_count, rwlock, at, ret, outcome, before>> /\ pc[t] = "idle"
    BY DEF Call, Goto, listVars
  <2>2. \A s \in Threads : at'[s] > 0 => at'[s] <= call'[s].count
    <3>1. at[t] = 0
      BY <2>1 DEF Control, Inside
    <3>2. QED
      BY <2>1, <3>1 DEF TypeOK
  <2>3. QED
    BY <2>1, <2>2 DEF TypeOK
<1>2. ASSUME NEW s \in Threads \ {t} PROVE Control(s)'
  BY <1>2, OthersStay DEF Call, Goto, TypeOK, listVars
<1>3. Control(t)'
  <2>1. Control(t)
    OBVIOUS
  <2>2. /\ pc'[t] = IF c.count = 0 THEN "skipping" ELSE "locking"
        /\ call'[t] = c /\ dst'[t] = <<>> /\ at'[t] = at[t] /\ rwlock' = rwlock /\ pc[t] = "idle"
    BY DEF Call, Goto, TypeOK, listVars
  <2>3. QED
    BY <2>1, <2>2, NullAssumption DEF Control, Inside
<1>4. QED
  BY <1>1, <1>2, <1>3

LEMMA TypedReturn ==
  ASSUME Typed, NEW t \in Threads, Skip(t) \/ Refuse(t)
  PROVE  Typed'
<1> USE DEF Typed
<1>0. /\ pc' = [pc EXCEPT ![t] = "idle"] /\ call' = [call EXCEPT ![t] = NULL]
      /\ ret' \in [Threads -> {"success", "EINVAL"}]
      /\ UNCHANGED <<buf, item_count, rwlock, at, dst, outcome, before>>
      /\ pc[t] \in {"skipping", "locking"}
  BY DEF Skip, Refuse, Return, Goto, TypeOK, listVars
<1>1. TypeOK'
  <2>1. at[t] = 0
    BY <1>0 DEF Control, Inside
  <2>2. \A s \in Threads : at'[s] > 0 => at'[s] <= call'[s].count
    BY <1>0, <2>1 DEF TypeOK
  <2>3. QED
    BY <1>0, <2>2 DEF TypeOK
<1>2. ASSUME NEW s \in Threads \ {t} PROVE Control(s)'
  BY <1>0, <1>2, OthersStay DEF TypeOK
<1>3. Control(t)'
  <2>1. Control(t)
    OBVIOUS
  <2>2. pc'[t] = "idle" /\ call'[t] = NULL
    BY <1>0 DEF TypeOK
  <2>3. QED
    BY <1>0, <2>1, <2>2 DEF Control, Inside
<1>4. QED
  BY <1>1, <1>2, <1>3

LEMMA TypedBegin == ASSUME Typed, NEW t \in Threads, Begin(t) PROVE Typed'
<1> USE DEF Typed
<1>c. call[t] \in Calls /\ pc[t] = "locking"
  BY DEF Control, TypeOK, Begin
<1>1. TypeOK'
  <2>1. Items \in Seq(Data)
    <3>1. \A i \in 1 .. item_count : i <= NumItems => i - 1 \in Places
      BY Words DEF Places, TypeOK
    <3>2. item_count \in Nat
      BY Words DEF TypeOK, W
    <3>3. Items \in [1 .. item_count -> Data]
      BY <3>1 DEF Items, TypeOK, Data
    <3>4. QED
      BY <3>2, <3>3
  <2>2. QED
    BY <2>1 DEF Begin, TypeOK, listVars, Goto
<1>2. ASSUME NEW s \in Threads \ {t} PROVE Control(s)'
  <2>1. {rwlock, rwlock'} = {t, NULL}
    BY DEF Begin, MayLock
  <2>2. QED
    BY <1>2, <2>1, OthersStay DEF Begin, Goto, TypeOK
<1>3. Control(t)'
  <2>1. Control(t)
    OBVIOUS
  <2>2. /\ pc'[t] = IF call[t].op = "insert" THEN "moving" ELSE "copying"
        /\ call' = call /\ dst' = dst /\ at' = at /\ rwlock' = t /\ ~Refused(call[t])
        /\ item_count' = item_count
    BY DEF Begin, Goto, TypeOK
  <2>3. ~Refused(call[t])'
    BY <2>2 DEF Refused, Overfills
  <2>4. at[t] = 0 /\ call[t].count # 0 /\ call[t] # NULL /\ call[t].count \in Nat
    BY <1>c, <2>1, CallFields, NullAssumption DEF Control, Inside
  <2>5. QED
    BY <2>2, <2>3, <2>4 DEF Control, Inside
<1>4. QED
  BY <1>1, <1>2, <1>3

(* A step inside the lock: only pc, at, dst and buf change. *)
LEMMA TypedInside ==
  ASSUME Typed, NEW t \in Threads, pc[t] \in Inside, NEW p \in Inside,
         UNCHANGED <<item_count, rwlock, call, ret, before>>,
         pc' = [pc EXCEPT ![t] = p],
         buf' \in [Places -> Data], outcome' \in {"running", "aborted", "wild"},
         NEW a \in Nat, at' = [at EXCEPT ![t] = a], NEW d \in Seq(Data), dst' = [dst EXCEPT ![t] = d],
         a <= call[t].count, p = "copying" => a < call[t].count,
         p = "moving" => call[t].op = "remove" \/ (call[t].op = "insert" /\ a = 0)
  PROVE  Typed'
<1> USE DEF Typed
<1>c. call[t] \in Calls /\ Control(t)
  BY DEF Control, TypeOK, Inside
<1>1. TypeOK'
  <2>1. \A s \in Threads : at'[s] > 0 => at'[s] <= call'[s].count
    BY DEF TypeOK
  <2>2. pc' \in [Threads -> {"idle", "skipping", "locking", "moving", "copying", "leaving"}]
    BY DEF TypeOK, Inside
  <2>3. QED
    BY <2>1, <2>2 DEF TypeOK
<1>2. ASSUME NEW s \in Threads \ {t} PROVE Control(s)'
  BY <1>2, OthersStay DEF TypeOK
<1>3. Control(t)'
  <2>1. pc'[t] = p /\ at'[t] = a /\ dst'[t] = d
    BY DEF TypeOK
  <2>2. Refused(call[t])' = Refused(call[t])
    BY DEF Refused, Overfills
  <2>3. QED
    BY <1>c, <2>1, <2>2 DEF Control, Inside
<1>4. QED
  BY <1>1, <1>2, <1>3

LEMMA TypedCopy ==
  ASSUME Typed, NEW t \in Threads, Copy(t) \/ CopyNothing(t)
  PROVE  Typed'
<1> DEFINE c == call[t]
           i == Plus(at[t], Start(c))
<1>c. c \in Calls /\ Control(t) /\ TypeOK /\ pc[t] = "copying" /\ at[t] < c.count
  BY DEF Control, TypeOK, Inside, Typed, Copy, CopyNothing
<1>o. \A x, y : Outcome(x, y) \in {"running", "aborted", "wild"}
  BY DEF Outcome
<1>a. /\ AfterCopy(c) \in Inside \ {"copying"}
      /\ AfterCopy(c) = "moving" => c.op = "remove"
  BY DEF AfterCopy, Inside
<1>n. at[t] \in Nat /\ c.count \in Nat
  BY <1>c, CallFields DEF TypeOK
<1>1. CASE CopyNothing(t)
  <2>1. /\ pc' = [pc EXCEPT ![t] = AfterCopy(c)] /\ outcome' \in {"running", "aborted", "wild"}
        /\ UNCHANGED <<item_count, rwlock, call, ret, before, buf, at, dst>>
    BY <1>1, <1>o DEF CopyNothing, Goto, listVars, CopyingNothing
  <2>2. /\ at' = [at EXCEPT ![t] = at[t]] /\ dst' = [dst EXCEPT ![t] = dst[t]]
        /\ dst[t] \in Seq(Data) /\ buf' \in [Places -> Data] /\ at[t] <= c.count
    BY <1>c, <1>n, <2>1 DEF TypeOK
  <2>3. PICK p \in Inside : p = AfterCopy(c)
    BY <1>a
  <2>4. QED
    BY <1>a, <1>c, <1>n, <2>1, <2>2, <2>3, TypedInside DEF Inside
<1>2. CASE Copy(t) /\ outcome' # "running"
  <2>1. /\ outcome' \in {"running", "aborted", "wild"}
        /\ UNCHANGED <<item_count, rwlock, call, ret, before, buf, at, dst, pc>>
    BY <1>2, <1>o DEF Copy, Copying
  <2>2. /\ at' = [at EXCEPT ![t] = at[t]] /\ dst' = [dst EXCEPT ![t] = dst[t]]
        /\ pc' = [pc EXCEPT ![t] = "copying"]
        /\ dst[t] \in Seq(Data) /\ buf' \in [Places -> Data] /\ at[t] <= c.count
    BY <1>c, <1>n, <2>1 DEF TypeOK
  <2>3. QED
    BY <1>c, <1>n, <2>1, <2>2, TypedInside DEF Inside
<1>3. CASE Copy(t) /\ outcome' = "running"
  <2>1. /\ IF c.op \in {"push_back", "insert"}
            THEN CpyIn(i, Element(c.mem, Start(c))) /\ UNCHANGED dst
            ELSE dst' = [dst EXCEPT ![t] = Append(@, buf[i])] /\ UNCHANGED buf
        /\ at' = [at EXCEPT ![t] = @ + 1]
        /\ pc' = [pc EXCEPT ![t] = IF Copied(at'[t], c.count) THEN AfterCopy(c) ELSE "copying"]
        /\ UNCHANGED <<item_count, rwlock, call, ret, before>>
        /\ c.mem # NULL /\ i \in Places
    BY <1>3 DEF Copy, Goto, Copying, Outcome
  <2>2. buf[i] \in Data
    BY <1>c, <2>1 DEF TypeOK
  <2>3. buf' \in [Places -> Data]
    <3>1. c.mem \in Seq(Values) /\ Start(c) \in Nat
      <4>1. c.mem \in Seq(Values) /\ c.index \in Nat /\ item_count \in Nat
        BY <1>c, <2>1, CallFields DEF TypeOK
      <4>2. Minus(item_count, c.count) \in Nat
        BY <4>1, <1>n, WordResult
      <4>3. QED
        BY <4>1, <4>2 DEF Start
    <3>2. Element(c.mem, Start(c)) \in Data
      <4>1. Start(c) < Len(c.mem) => Start(c) + 1 \in 1 .. Len(c.mem)
        BY <3>1
      <4>2. QED
        BY <3>1, <4>1 DEF Element, Data
    <3>3. QED
      BY <1>c, <2>1, <3>2 DEF CpyIn, TypeOK
  <2>4. PICK d \in Seq(Data) : dst' = [dst EXCEPT ![t] = d]
    <3>1. dst[t] \in Seq(Data) /\ Append(dst[t], buf[i]) \in Seq(Data)
      BY <1>c, <2>2 DEF TypeOK
    <3>2. CASE c.op \in {"push_back", "insert"}
      BY <1>c, <2>1, <3>1, <3>2 DEF TypeOK
    <3>3. CASE c.op \notin {"push_back", "insert"}
      BY <2>1, <3>1, <3>3
    <3>4. QED
      BY <3>2, <3>3
  <2>5. /\ at' = [at EXCEPT ![t] = at[t] + 1] /\ at'[t] = at[t] + 1 /\ at[t] + 1 \in Nat
        /\ at[t] + 1 <= c.count
    BY <1>c, <1>n, <2>1 DEF TypeOK
  <2>6. PICK p \in Inside : /\ pc' = [pc EXCEPT ![t] = p]
                            /\ p = "copying" => at[t] + 1 < c.count
                            /\ p = "moving" => c.op = "remove"
    <3>1. CASE at[t] + 1 = c.count
      BY <1>a, <2>1, <2>5, <3>1 DEF Copied
    <3>2. CASE at[t] + 1 # c.count
      <4>1. pc' = [pc EXCEPT ![t] = "copying"] /\ at[t] + 1 < c.count
        <5>1. ~Copied(at'[t], c.count)
          BY <2>5, <3>2 DEF Copied
        <5>2. QED
          BY <2>1, <2>5, <5>1, <1>n, <3>2
      <4>2. QED
        BY <4>1 DEF Inside
    <3>3. QED
      BY <3>1, <3>2
  <2>7. outcome' \in {"running", "aborted", "wild"}
    BY <1>3
  <2>8. pc[t] \in Inside
    BY <1>c DEF Inside
  <2>9. UNCHANGED <<item_count, rwlock, call, ret, before>>
    BY <2>1
  <2> HIDE DEF i
  <2>10. QED
    BY <2>3, <2>4, <2>5, <2>6, <2>7, <2>8, <2>9, TypedInside
<1>4. QED
  BY <1>1, <1>2, <1>3

LEMMA TypedMove == ASSUME Typed, NEW t \in Threads, Move(t) PROVE Typed'
<1> DEFINE c == call[t]
           s == Shift(c)
<1>c. /\ c \in Calls /\ Control(t) /\ TypeOK /\ pc[t] = "moving"
      /\ c.op = "remove" \/ (c.op = "insert" /\ at[t] = 0)
      /\ c.index \in Nat
      /\ c.count \in Nat /\ c.count # 0 /\ at[t] \in Nat /\ at[t] <= c.count
  BY CallFields DEF Control, TypeOK, Inside, Typed, Move
<1>1. /\ outcome' = Moving(s[1], s[2], s[3])
      /\ IF outcome' # "running" THEN UNCHANGED <<buf, pc>>
          ELSE /\ Memmove(s[1], s[2], s[3])
               /\ pc' = [pc EXCEPT ![t] = IF c.op = "insert" THEN "copying" ELSE "leaving"]
      /\ UNCHANGED <<item_count, rwlock, call, at, dst, ret, before>>
  BY DEF Move, Goto
<1>2. outcome' \in {"running", "aborted", "wild"}
  BY <1>1 DEF Moving, Outcome
<1>3. /\ at' = [at EXCEPT ![t] = at[t]] /\ dst' = [dst EXCEPT ![t] = dst[t]]
      /\ dst[t] \in Seq(Data) /\ pc[t] \in Inside
  BY <1>c, <1>1 DEF TypeOK, Inside
<1>4. UNCHANGED <<item_count, rwlock, call, ret, before>>
  BY <1>1
<1>5. CASE outcome' # "running"
  <2>1. /\ buf' \in [Places -> Data]
        /\ pc' = [pc EXCEPT ![t] = "moving"]
    BY <1>1, <1>5, <1>c DEF TypeOK
  <2>2. QED
    BY <1>c, <1>2, <1>3, <1>4, <2>1, TypedInside DEF Inside
<1>6. CASE outcome' = "running"
  <2>1. item_count \in Nat /\ s[1] \in Nat /\ s[2] \in Nat /\ s[3] \in Nat
    <3>0. item_count \in Nat
      BY <1>c DEF TypeOK
    <3>1. item_count \in Nat /\ Plus(c.index, c.count) \in Nat
      BY <1>c, <3>0, WordResult
    <3>2. Minus(item_count, c.index) \in Nat /\ Minus(item_count, Plus(c.index, c.count)) \in Nat
      BY <1>c, <3>1, WordResult
    <3>3. QED
      BY <1>c, <3>1, <3>2 DEF Shift
  <2>2. s[3] = 0 \/ s[1] + s[3] <= NumItems
    BY <1>1, <1>6 DEF Moving, Outcome
  <2>3. PICK from, to, count \in Nat : from = s[1] /\ to = s[2] /\ count = s[3]
    BY <2>1
  <2> HIDE DEF s
  <2>r. (count = 0 \/ from + count <= NumItems) /\ NumItems \in Nat
    BY <2>2, <2>3, Words
  <2>m. ASSUME NEW i \in Places, i - to \in 0 .. count - 1 PROVE i - to + from \in Places
    BY <2>m, <2>r DEF Places
  <2>4. buf' \in [Places -> Data]
    <3>1. buf' = [i \in Places |-> IF i - to \in 0 .. count - 1 THEN buf[i - to + from] ELSE buf[i]]
      BY <1>1, <1>6, <2>3 DEF Memmove
    <3>2. buf \in [Places -> Data]
      BY <1>c DEF TypeOK
    <3>3. QED
      BY <2>m, <3>1, <3>2
  <2>5. CASE c.op = "insert"
    <3>1. pc' = [pc EXCEPT ![t] = "copying"] /\ at[t] < c.count
      BY <1>1, <1>6, <1>c, <2>5
    <3>2. QED
      BY <1>c, <1>2, <1>3, <1>4, <2>4, <3>1, TypedInside DEF Inside
  <2>6. CASE c.op # "insert"
    <3>1. pc' = [pc EXCEPT ![t] = "leaving"]
      BY <1>1, <1>6, <1>c, <2>6
    <3>2. QED
      BY <1>c, <1>2, <1>3, <1>4, <2>4, <3>1, TypedInside DEF Inside
  <2>7. QED
    BY <2>5, <2>6
<1>7. QED
  BY <1>5, <1>6

LEMMA TypedLeave == ASSUME Typed, NEW t \in Threads, Leave(t) PROVE Typed'
<1> USE DEF Typed
<1>c. /\ call[t] \in Calls /\ Control(t) /\ TypeOK /\ pc[t] = "leaving" /\ rwlock = t
      /\ call[t].count \in Nat /\ item_count \in Nat
  BY CallFields DEF Control, TypeOK, Inside, Leave
<1>0. /\ pc' = [pc EXCEPT ![t] = "idle"] /\ call' = [call EXCEPT ![t] = NULL]
      /\ at' = [at EXCEPT ![t] = 0] /\ ret' = [ret EXCEPT ![t] = "success"]
      /\ rwlock' = NULL /\ item_count' = Counted(call[t]) /\ before' = <<>>
      /\ UNCHANGED <<buf, dst, outcome>>
  BY DEF Leave, Return, Goto
<1>1. TypeOK'
  <2>1. item_count' \in 0 .. W - 1
    BY <1>0, <1>c, WordResult DEF Counted
  <2>2. \A s \in Threads : at'[s] > 0 => at'[s] <= call'[s].count
    BY <1>0 DEF TypeOK
  <2>3. QED
    BY <1>0, <2>1, <2>2 DEF TypeOK, W
<1>2. ASSUME NEW s \in Threads \ {t} PROVE Control(s)'
  BY <1>0, <1>2, <1>c, OthersStay DEF TypeOK
<1>3. Control(t)'
  <2>1. pc'[t] = "idle" /\ call'[t] = NULL /\ at'[t] = 0
    BY <1>0 DEF TypeOK
  <2>2. QED
    BY <1>0, <2>1, NullAssumption DEF Control, Inside
<1>4. QED
  BY <1>1, <1>2, <1>3

LEMMA TypedStep == Typed /\ [Next]_vars => Typed'
<1> SUFFICES ASSUME Typed, [Next]_vars PROVE Typed'
  OBVIOUS
<1>1. CASE UNCHANGED vars
  BY <1>1 DEF vars, listVars, Typed, TypeOK, Control, Refused, Overfills
<1>2. QED
  BY <1>1, TypedCall, TypedReturn, TypedBegin, TypedCopy, TypedMove, TypedLeave DEF Next

(* Whatever is asked for, arraylist.c and pool.c copy only items of the    *)
(* buffer unless the program has ended, and no loop of theirs runs past    *)
(* its count.                                                              *)
THEOREM TypeCorrect == Spec => []TypeOK
<1>1. Spec => []Typed
  BY InitTyped, TypedStep, PTL DEF Spec
<1>2. Typed => TypeOK
  BY DEF Typed
<1>3. QED
  BY <1>1, <1>2, PTL

-----------------------------------------------------------------------------
(* From here on, calls are small. *)
InProgress == \A t \in Threads : rwlock = t /\ outcome = "running" => Progress(t)

Inv(bound) == Typed /\ Counts(bound) /\ InProgress /\ WildOnlyPastEnd

(* With them, the tests of arraylist.c mean what they say. *)
LEMMA Sizes ==
  ASSUME NEW bound \in Nat, Small(bound), Typed, Counts(bound), NEW c \in Calls
  PROVE  /\ item_count \in Nat /\ c.index \in Nat /\ c.count \in Nat
         /\ c.index + c.count <= bound /\ item_count <= NumItems + 2 * bound
         /\ Plus(item_count, c.count) = item_count + c.count
         /\ Plus(c.index, c.count) = c.index + c.count
         /\ c.op \in {"push_back", "insert"} => (Refused(c) <=> item_count + c.count > NumItems)
         /\ c.op = "pop_back" => (Refused(c) <=> item_count > c.count)
         /\ c.op = "remove" => (Refused(c) <=> c.index + c.count > item_count)
<1>1. item_count \in Nat /\ c.index \in Nat /\ c.count \in Nat
  BY CallFields DEF Typed, TypeOK
<1>2. c.index + c.count <= bound /\ item_count <= NumItems + 2 * bound
  BY Words DEF Small, Counts
<1>3. NumItems \in Nat /\ MaxCount = NumItems
  BY Words
<1>4. PICK x \in Nat, y \in Nat : x = item_count + c.count /\ y = c.index + c.count
  BY <1>1
<1>5. x < W /\ y < W
  <2>1. x <= NumItems + 3 * bound /\ y <= NumItems + 3 * bound
    BY <1>1, <1>2, <1>3, <1>4
  <2>2. QED
    BY <2>1, Assertions
<1>6. Plus(item_count, c.count) = item_count + c.count /\ Plus(c.index, c.count) = c.index + c.count
  BY <1>1, <1>4, <1>5, Words
<1>7. QED
  BY <1>1, <1>2, <1>3, <1>6 DEF Refused, Overfills

(* The thread inside the lock, and what it may rely on. *)
LEMMA Holder ==
  ASSUME NEW bound \in Nat, Small(bound), Inv(bound), NEW t \in Threads, pc[t] \in Inside
  PROVE  /\ rwlock = t /\ call[t] \in Calls /\ ~Refused(call[t]) /\ call[t].count # 0
         /\ at[t] \in Nat /\ at[t] <= call[t].count
         /\ outcome = "running" => Progress(t)
<1>1. Control(t) /\ TypeOK
  BY DEF Inv, Typed
<1>2. call[t] \in Calls /\ rwlock = t /\ ~Refused(call[t]) /\ call[t].count # 0
  BY <1>1 DEF Control, TypeOK, Inside
<1>3. call[t].count \in Nat
  BY <1>2, CallFields
<1>4. at[t] \in Nat /\ at[t] <= call[t].count
  BY <1>1, <1>3 DEF TypeOK
<1>5. QED
  BY <1>2, <1>4 DEF Inv, InProgress

(* Where a copy goes on, if it does. *)
LEMMA CopyTurn ==
  ASSUME NEW bound \in Nat, Small(bound), Inv(bound), NEW t \in Threads,
         outcome = "running", Copy(t)
  PROVE  /\ outcome' # "wild"
         /\ outcome' = "running" =>
              /\ Start(call[t]) \in Nat
              /\ Plus(at[t], Start(call[t])) = Start(call[t]) + at[t]
              /\ Start(call[t]) + at[t] \in Places
              /\ call[t].op = "pop_back" => item_count = call[t].count /\ Start(call[t]) = 0
<1> DEFINE c == call[t]
           i == Plus(at[t], Start(c))
<1>1. /\ c \in Calls /\ ~Refused(c) /\ at[t] \in Nat /\ at[t] < c.count /\ Progress(t)
      /\ c.mem # NULL /\ pc[t] = "copying"
      /\ outcome' = Outcome(Fits(Start(c), c.count) /\ HasPtr(i), i \in Places)
  <2>1. pc[t] = "copying" /\ pc[t] \in Inside /\ Control(t)
    BY DEF Copy, Inside, Inv, Typed
  <2>2. QED
    BY <2>1, Holder DEF Copy, Copying, Control
<1>2. /\ item_count \in Nat /\ c.index \in Nat /\ c.count \in Nat
      /\ c.index + c.count <= bound /\ item_count <= NumItems + 2 * bound
      /\ Plus(c.index, c.count) = c.index + c.count
      /\ c.op \in {"push_back", "insert"} => item_count + c.count <= NumItems
      /\ c.op = "pop_back" => item_count <= c.count
      /\ c.op = "remove" => c.index + c.count <= item_count
  <2>1. /\ item_count \in Nat /\ c.index \in Nat /\ c.count \in Nat /\ NumItems \in Nat
        /\ c.op \in {"push_back", "insert"} => ~(item_count + c.count > NumItems)
        /\ c.op = "pop_back" => ~(item_count > c.count)
        /\ c.op = "remove" => ~(c.index + c.count > item_count)
    BY <1>1, Sizes, Words DEF Inv
  <2>2. /\ c.index + c.count <= bound /\ item_count <= NumItems + 2 * bound
        /\ Plus(c.index, c.count) = c.index + c.count
    BY <1>1, Sizes DEF Inv
  <2>3. QED
    BY <2>1, <2>2
<1>3. W \in Nat \ {0} /\ NumItems \in Nat /\ NumItems < W
  BY Words
<1>w. /\ \A x, y \in Nat : x + y < W => Plus(x, y) = x + y
      /\ \A x, y \in Nat : y <= x /\ x < W => Minus(x, y) = x - y
      /\ \A x, y \in Nat : x < y /\ y - x < W => Minus(x, y) = W - (y - x)
  BY Words
<1>4. /\ \A x \in Nat : x <= NumItems + 3 * bound =>
              x < W /\ (Times(x, ItemSize) <= BufLen <=> x <= NumItems)
      /\ \A d \in 1 .. bound : ~HasPtr(W - d)
  BY Assertions
<1>s. item_count < W /\ c.count < W
  <2>1. item_count <= NumItems + 3 * bound /\ c.count <= NumItems + 3 * bound
    BY <1>2, <1>3
  <2>2. QED
    BY <1>2, <1>4, <2>1
<1>5. ASSUME NEW k \in Nat, Start(c) = k, k + c.count <= NumItems
      PROVE  i = k + at[t] /\ i \in Places
  <2>1. at[t] + k < W /\ at[t] + k = k + at[t] /\ k + at[t] < NumItems
    BY <1>1, <1>2, <1>3, <1>5
  <2>2. i = k + at[t]
    BY <1>1, <1>w, <1>5, <2>1
  <2>3. QED
    BY <1>1, <2>1, <2>2, <1>3 DEF Places
<1> HIDE DEF i
<1>6. CASE c.op = "push_back"
  <2>1. Start(c) = item_count
    BY <1>6 DEF Start
  <2>2. QED
    BY <1>1, <1>2, <1>5, <1>6, <2>1 DEF Outcome, i
<1>7. CASE c.op = "insert"
  <2>1. Start(c) = c.index /\ c.index <= item_count
    BY <1>1, <1>7 DEF Start, Progress, Inserting
  <2>2. c.index + c.count <= NumItems
    BY <1>2, <1>3, <1>7, <2>1
  <2>3. QED
    BY <1>1, <1>2, <1>5, <1>7, <2>1, <2>2 DEF Outcome, i
<1>8. CASE c.op = "remove"
  <2>1. Start(c) = c.index
    BY <1>8 DEF Start
  <2>2. Fits(c.index, c.count) => c.index + c.count <= NumItems
    <3>1. c.index + c.count \in Nat /\ c.index + c.count <= NumItems + 3 * bound
      BY <1>2, <1>3
    <3>2. QED
      BY <1>2, <1>4, <3>1 DEF Fits
  <2>3. QED
    BY <1>1, <1>2, <1>5, <1>8, <2>1, <2>2 DEF Outcome, i
<1>9. CASE c.op = "pop_back" /\ item_count = c.count
  <2>1. Start(c) = 0
    BY <1>2, <1>s, <1>w, <1>9 DEF Start
  <2>2. Fits(0, c.count) => c.count <= NumItems
    <3>1. c.count <= NumItems + 3 * bound
      BY <1>2, <1>3
    <3>2. Plus(0, c.count) = c.count
      BY <1>2, <1>s, <1>w
    <3>3. QED
      BY <1>2, <1>4, <3>1, <3>2 DEF Fits
  <2>3. QED
    BY <1>1, <1>2, <1>5, <1>9, <2>1, <2>2 DEF Outcome, i
<1>10. CASE c.op = "pop_back" /\ item_count # c.count
  <2>1. at[t] = 0
    BY <1>1, <1>10 DEF Progress, Popping
  <2>2. PICK d \in 1 .. bound : d = c.count - item_count
    BY <1>2, <1>10
  <2>3. d < W
    BY <1>2, <1>3, <1>s, <2>2
  <2>4. Start(c) = W - d
    BY <1>2, <1>w, <1>10, <2>2, <2>3 DEF Start
  <2>5. i = W - d
    <3>1. W - d \in Nat /\ 0 + (W - d) < W /\ 0 + (W - d) = W - d
      BY <1>3, <2>3
    <3>2. QED
      BY <1>w, <2>1, <2>4, <3>1 DEF i
  <2>6. ~HasPtr(i)
    BY <1>4, <2>5
  <2>7. QED
    BY <1>1, <2>6 DEF Outcome
<1>11. QED
  BY <1>1, <1>6, <1>7, <1>8, <1>9, <1>10, CallFields

(* What a move moves, and when the assertions do not stop it. *)
LEMMA MoveTurn ==
  ASSUME NEW bound \in Nat, Small(bound), Inv(bound), NEW t \in Threads,
         outcome = "running", Move(t)
  PROVE  LET c == call[t] IN
         /\ outcome' = "wild" => c.op = "insert" /\ c.index > item_count
         /\ outcome' = "running" =>
              \/ /\ c.op = "insert" /\ c.index <= item_count
                 /\ Memmove(c.index, c.index + c.count, item_count - c.index)
              \/ /\ c.op = "remove" /\ item_count <= NumItems
                 /\ Memmove(c.index + c.count, c.index, item_count - (c.index + c.count))
<1> DEFINE c == call[t]
<1>1. /\ c \in Calls /\ ~Refused(c) /\ c.count # 0
      /\ c.op \in {"insert", "remove"} /\ pc[t] = "moving"
  <2>1. pc[t] = "moving" /\ pc[t] \in Inside /\ Control(t)
    BY DEF Move, Inside, Inv, Typed
  <2>2. QED
    BY <2>1, Holder DEF Control
<1>2. /\ item_count \in Nat /\ c.index \in Nat /\ c.count \in Nat
      /\ c.index + c.count <= bound /\ item_count <= NumItems + 2 * bound
      /\ Plus(c.index, c.count) = c.index + c.count
      /\ c.op = "insert" => item_count + c.count <= NumItems
      /\ c.op = "remove" => c.index + c.count <= item_count
  <2>1. /\ item_count \in Nat /\ c.index \in Nat /\ c.count \in Nat /\ NumItems \in Nat
        /\ c.op \in {"push_back", "insert"} => ~(item_count + c.count > NumItems)
        /\ c.op = "remove" => ~(c.index + c.count > item_count)
    BY <1>1, Sizes, Words DEF Inv
  <2>2. /\ c.index + c.count <= bound /\ item_count <= NumItems + 2 * bound
        /\ Plus(c.index, c.count) = c.index + c.count
    BY <1>1, Sizes DEF Inv
  <2>3. QED
    BY <2>1, <2>2
<1>3. W \in Nat \ {0} /\ NumItems \in Nat /\ NumItems < W
  BY Words
<1>w. /\ \A x, y \in Nat : x + y < W => Plus(x, y) = x + y
      /\ \A x, y \in Nat : y <= x /\ x < W => Minus(x, y) = x - y
      /\ \A x, y \in Nat : x < y /\ y - x < W => Minus(x, y) = W - (y - x)
  BY Words
<1>4. \A x \in Nat : x <= NumItems + 3 * bound =>
              x < W /\ (Times(x, ItemSize) <= BufLen <=> x <= NumItems)
  BY Assertions
<1>s. item_count < W /\ c.index < W
  <2>1. item_count <= NumItems + 3 * bound /\ c.index <= NumItems + 3 * bound
    BY <1>2, <1>3
  <2>2. QED
    BY <1>2, <1>4, <2>1
<1>5. PICK far \in Nat : far = c.index + c.count
  BY <1>2
<1>6. CASE c.op = "insert" /\ c.index <= item_count
  <2>1. PICK n \in Nat : n = item_count - c.index
    BY <1>2, <1>6
  <2>2. Minus(item_count, c.index) = n
    BY <1>2, <1>s, <1>w, <1>6, <2>1
  <2>3. Shift(c) = <<c.index, far, n>>
    BY <1>2, <1>5, <1>6, <2>2 DEF Shift
  <2>4. outcome' = Moving(c.index, far, n)
    BY <2>3 DEF Move
  <2>5. c.index + n <= NumItems /\ far + n <= NumItems
    BY <1>2, <1>3, <1>5, <1>6, <2>1
  <2>6. outcome' # "wild"
    BY <2>4, <2>5 DEF Moving, Outcome
  <2>7. outcome' = "running" => Memmove(c.index, far, n)
    BY <2>3 DEF Move
  <2>8. QED
    BY <1>5, <1>6, <2>1, <2>6, <2>7
<1>7. CASE c.op = "insert" /\ c.index > item_count
  <2>1. PICK d \in Nat : d = c.index - item_count /\ d > 0 /\ d < W
    <3>1. c.index - item_count \in Nat /\ c.index - item_count > 0 /\ c.index - item_count < W
      BY <1>2, <1>3, <1>s, <1>7
    <3>2. QED
      BY <3>1
  <2>2. PICK n \in Nat : n = W - d
    BY <1>3, <2>1
  <2>3. Minus(item_count, c.index) = n
    BY <1>2, <1>w, <1>7, <2>1, <2>2
  <2>4. Shift(c) = <<c.index, far, n>>
    BY <1>2, <1>5, <1>7, <2>3 DEF Shift
  <2>5. outcome' = Moving(c.index, far, n)
    BY <2>4 DEF Move
  <2>6. n # 0 /\ c.index + n > NumItems
    BY <1>2, <1>3, <2>1, <2>2
  <2>7. outcome' # "running"
    BY <1>2, <1>3, <2>5, <2>6 DEF Moving, Outcome
  <2>8. QED
    BY <1>7, <2>7
<1>8. CASE c.op = "remove"
  <2>1. PICK n \in Nat : n = item_count - far
    BY <1>2, <1>5, <1>8
  <2>2. Minus(item_count, far) = n
    BY <1>2, <1>s, <1>w, <1>5, <1>8, <2>1
  <2>3. Shift(c) = <<far, c.index, n>>
    BY <1>2, <1>5, <1>8, <2>2 DEF Shift
  <2>4. outcome' = Moving(far, c.index, n)
    BY <2>3 DEF Move
  <2>5. far + n = item_count /\ item_count <= NumItems + 3 * bound
    BY <1>2, <1>3, <1>5, <2>1
  <2>6. Plus(far, n) = item_count
    BY <1>s, <1>w, <2>5
  <2>7. Fits(far, n) => item_count <= NumItems
    BY <1>2, <1>4, <2>5, <2>6 DEF Fits
  <2>8. item_count <= NumItems => far + n <= NumItems /\ c.index + n <= NumItems
    BY <1>2, <1>3, <1>5, <2>5
  <2>9. outcome' # "wild" /\ (outcome' = "running" => item_count <= NumItems)
    BY <2>4, <2>7, <2>8 DEF Moving, Outcome
  <2>10. outcome' = "running" => Memmove(far, c.index, n)
    BY <2>3 DEF Move
  <2>11. QED
    BY <1>5, <1>8, <2>1, <2>9, <2>10
<1>9. QED
  BY <1>1, <1>2, <1>6, <1>7, <1>8

-----------------------------------------------------------------------------
(* Each step of the thread inside the lock is progress. *)
LEMMA ProgressStays ==
  ASSUME NEW t \in Threads, Progress(t),
         pc'[t] = pc[t], call'[t] = call[t], at'[t] = at[t], dst'[t] = dst[t],
         UNCHANGED <<buf, item_count, before>>
  PROVE  Progress(t)'
<1>1. UNCHANGED <<Start(call[t]), Same(item_count), Same(call[t].index)>>
  BY DEF Start, Same
<1>2. /\ CopiedIn(t)' = CopiedIn(t) /\ CopiedOut(t, 0)' = CopiedOut(t, 0)
      /\ CopiedOut(t, call[t].index)' = CopiedOut(t, call[t].index) /\ Done(t)' = Done(t)
  BY <1>1 DEF CopiedIn, CopiedOut, Done
<1>3. /\ Pushing(t)' = Pushing(t) /\ Inserting(t)' = Inserting(t)
      /\ Popping(t)' = Popping(t) /\ Removing(t)' = Removing(t)
  BY <1>1, <1>2 DEF Pushing, Inserting, Popping, Removing
<1>4. QED
  BY <1>2, <1>3 DEF Progress

LEMMA BeginProgress ==
  ASSUME Typed, NEW t \in Threads, Begin(t)
  PROVE  Progress(t)'
<1>1. /\ Control(t) /\ pc[t] = "locking" /\ item_count \in Nat
  BY DEF Begin, Typed, TypeOK
<1>2. /\ before' = Items /\ item_count' = item_count /\ buf' = buf /\ call' = call
      /\ at'[t] = 0 /\ dst'[t] = <<>>
      /\ pc'[t] = IF call[t].op = "insert" THEN "moving" ELSE "copying"
  BY <1>1 DEF Begin, Goto, Typed, TypeOK, Control, Inside
<1>3. call[t] \in Calls
  BY <1>1 DEF Typed, TypeOK, Control
<1>4. Same(item_count)' /\ Len(before') = item_count
  BY <1>1, <1>2 DEF Same, Items
<1>5. CopiedOut(t, 0)' /\ CopiedOut(t, call[t].index)' /\ CopiedIn(t)' /\ ~Done(t)'
  <2>1. 1 .. 0 = {} /\ 0 .. 0 - 1 = {} /\ Len(<<>>) = 0
    OBVIOUS
  <2>2. ~Done(t)'
    BY <1>2 DEF Done
  <2>3. QED
    BY <1>2, <2>1, <2>2 DEF CopiedOut, CopiedIn
<1>6. UNCHANGED call[t] /\ dst[t]' = <<>> /\ at[t]' = 0
  BY <1>2
<1>7. /\ Pushing(t)' /\ Popping(t)'
      /\ call[t].op # "insert" => Removing(t)'
  BY <1>2, <1>4, <1>5, <1>6 DEF Pushing, Popping, Removing
<1>8. call[t].op = "insert" => Inserting(t)'
  BY <1>2, <1>4, <1>6 DEF Inserting
<1>9. CASE call[t].op = "insert"
  BY <1>2, <1>4, <1>5, <1>6, <1>8, <1>9 DEF Progress
<1>10. CASE call[t].op # "insert"
  BY <1>2, <1>3, <1>4, <1>5, <1>6, <1>7, <1>10, CallFields DEF Progress
<1>11. QED
  BY <1>9, <1>10

LEMMA MoveProgress ==
  ASSUME NEW bound \in Nat, Small(bound), Inv(bound), NEW t \in Threads,
         outcome = "running", Move(t), outcome' = "running"
  PROVE  Progress(t)'
<1> DEFINE c == call[t]
<1>1. /\ c \in Calls /\ c.index \in Nat /\ c.count \in Nat /\ c.count # 0
      /\ item_count \in Nat /\ Progress(t) /\ pc[t] = "moving" /\ NumItems \in Nat
      /\ c.op = "insert" => item_count + c.count <= NumItems
      /\ c.op = "remove" => c.index + c.count <= item_count
  <2>1. pc[t] = "moving" /\ pc[t] \in Inside
    BY DEF Move, Inside
  <2>2. c \in Calls /\ Progress(t) /\ c.count # 0 /\ ~Refused(c)
    BY <2>1, Holder
  <2>3. /\ item_count \in Nat /\ c.index \in Nat /\ c.count \in Nat /\ NumItems \in Nat
        /\ c.op \in {"push_back", "insert"} => ~(item_count + c.count > NumItems)
        /\ c.op = "remove" => ~(c.index + c.count > item_count)
    BY <2>2, Sizes, Words DEF Inv
  <2>4. QED
    BY <2>1, <2>2, <2>3
<1>2. /\ UNCHANGED <<item_count, call, at, dst, before>>
      /\ pc'[t] = IF c.op = "insert" THEN "copying" ELSE "leaving"
  BY DEF Move, Goto, Inv, Typed, TypeOK
<1>3. CASE /\ c.op = "insert" /\ c.index <= item_count
           /\ Memmove(c.index, c.index + c.count, item_count - c.index)
  <2>1. Same(item_count) /\ at[t] = 0 /\ dst[t] = <<>> /\ Len(before) = item_count
    BY <1>1, <1>3 DEF Progress, Inserting
  <2>2. \A i \in Places :
           buf'[i] = IF i - (c.index + c.count) \in 0 .. (item_count - c.index) - 1
                     THEN buf[i - (c.index + c.count) + c.index] ELSE buf[i]
    BY <1>3 DEF Memmove
  <2>3. Same(c.index)'
    <3>1. ASSUME NEW i \in 1 .. c.index
          PROVE  before[i] = buf'[i - 1] /\ i <= NumItems
      <4>1. i \in 1 .. item_count /\ i <= NumItems /\ i - 1 \in Places
        BY <1>1, <1>3 DEF Places
      <4>2. ~(i - 1 - (c.index + c.count) \in 0 .. (item_count - c.index) - 1)
        BY <1>1
      <4>3. QED
        BY <2>1, <2>2, <4>1, <4>2 DEF Same
    <3>2. QED
      BY <1>2, <3>1 DEF Same
  <2>4. ASSUME NEW j \in c.index .. item_count - 1 PROVE buf'[j + c.count] = before[j + 1]
    <3>1. /\ j + c.count \in Places /\ j + 1 \in 1 .. item_count /\ j + 1 <= NumItems
          /\ (j + c.count) - (c.index + c.count) \in 0 .. (item_count - c.index) - 1
          /\ (j + c.count) - (c.index + c.count) + c.index = j /\ (j + 1) - 1 = j
      BY <1>1, <1>3 DEF Places
    <3>2. buf'[j + c.count] = buf[j]
      BY <2>2, <3>1
    <3>3. before[j + 1] = buf[j]
      BY <2>1, <3>1 DEF Same
    <3>4. QED
      BY <3>2, <3>3
  <2>5. CopiedIn(t)' /\ ~Done(t)'
    <3>1. 0 .. at'[t] - 1 = {}
      BY <1>2, <2>1
    <3>2. QED
      BY <1>2, <1>3, <3>1 DEF CopiedIn, Done
  <2>6. Inserting(t)'
    BY <1>2, <1>3, <2>1, <2>3, <2>4, <2>5 DEF Inserting
  <2>7. QED
    BY <1>2, <1>3, <2>1, <2>5, <2>6 DEF Progress
<1>4. CASE /\ c.op = "remove" /\ item_count <= NumItems
           /\ Memmove(c.index + c.count, c.index, item_count - (c.index + c.count))
  <2>1. /\ Same(item_count) /\ CopiedOut(t, c.index) /\ Len(before) = item_count
        /\ IF c.mem = NULL THEN at[t] = 0 ELSE at[t] = c.count
    BY <1>1, <1>4 DEF Progress, Removing, Done
  <2>2. \A i \in Places :
           buf'[i] = IF i - c.index \in 0 .. (item_count - (c.index + c.count)) - 1
                     THEN buf[i - c.index + (c.index + c.count)] ELSE buf[i]
    BY <1>4 DEF Memmove
  <2>3. Same(c.index)'
    <3>1. ASSUME NEW i \in 1 .. c.index
          PROVE  before[i] = buf'[i - 1] /\ i <= NumItems
      <4>1. i \in 1 .. item_count /\ i <= NumItems /\ i - 1 \in Places
        BY <1>1, <1>4 DEF Places
      <4>2. ~(i - 1 - c.index \in 0 .. (item_count - (c.index + c.count)) - 1)
        BY <1>1
      <4>3. QED
        BY <2>1, <2>2, <4>1, <4>2 DEF Same
    <3>2. QED
      BY <1>2, <3>1 DEF Same
  <2>4. ASSUME NEW j \in c.index + c.count .. item_count - 1 PROVE buf'[j - c.count] = before[j + 1]
    <3>1. /\ j - c.count \in Places /\ j + 1 \in 1 .. item_count /\ j + 1 <= NumItems
          /\ (j - c.count) - c.index \in 0 .. (item_count - (c.index + c.count)) - 1
          /\ (j - c.count) - c.index + (c.index + c.count) = j /\ (j + 1) - 1 = j
      BY <1>1, <1>4 DEF Places
    <3>2. buf'[j - c.count] = buf[j]
      BY <2>2, <3>1
    <3>3. before[j + 1] = buf[j]
      BY <2>1, <3>1 DEF Same
    <3>4. QED
      BY <3>2, <3>3
  <2>5. CopiedOut(t, c.index)'
    BY <1>2, <2>1 DEF CopiedOut
  <2>6. Removing(t)'
    BY <1>2, <1>4, <2>3, <2>4, <2>5 DEF Removing
  <2>7. QED
    BY <1>2, <1>4, <2>1, <2>6 DEF Progress
<1>5. QED
  BY <1>3, <1>4, MoveTurn

LEMMA CopyNothingProgress ==
  ASSUME NEW bound \in Nat, Small(bound), Inv(bound), NEW t \in Threads,
         outcome = "running", CopyNothing(t)
  PROVE  Progress(t)'
<1> DEFINE c == call[t]
<1>1. pc[t] = "copying" /\ pc[t] \in Inside /\ c.mem = NULL
  BY DEF CopyNothing, Inside
<1>2. Progress(t) /\ c \in Calls
  BY <1>1, Holder
<1>3. /\ UNCHANGED <<buf, item_count, call, at, dst, before>>
      /\ pc'[t] = IF c.op = "remove" THEN "moving" ELSE "leaving"
  BY DEF CopyNothing, Goto, AfterCopy, listVars, Inv, Typed, TypeOK
<1>4. UNCHANGED <<Same(item_count), Same(c.index), CopiedOut(t, 0), CopiedOut(t, c.index)>>
  BY <1>3 DEF Same, CopiedOut
<1>5. CopiedIn(t)'
  BY <1>1, <1>3 DEF CopiedIn
<1>6. CASE c.op = "push_back"
  BY <1>1, <1>2, <1>3, <1>4, <1>5, <1>6 DEF Progress, Pushing
<1>7. CASE c.op = "insert"
  BY <1>1, <1>2, <1>3, <1>4, <1>5, <1>7 DEF Progress, Inserting
<1>8. CASE c.op = "pop_back"
  BY <1>1, <1>2, <1>3, <1>4, <1>8 DEF Progress, Popping
<1>9. CASE c.op = "remove"
  BY <1>1, <1>2, <1>3, <1>4, <1>9 DEF Progress, Removing
<1>10. QED
  BY <1>2, <1>6, <1>7, <1>8, <1>9, CallFields

LEMMA CopyProgress ==
  ASSUME NEW bound \in Nat, Small(bound), Inv(bound), NEW t \in Threads,
         outcome = "running", Copy(t), outcome' = "running"
  PROVE  Progress(t)'
<1> DEFINE c == call[t]
           i == Start(c) + at[t]
<1>1. /\ c \in Calls /\ c.index \in Nat /\ c.count \in Nat /\ c.mem # NULL
      /\ item_count \in Nat /\ Progress(t) /\ pc[t] = "copying" /\ NumItems \in Nat
      /\ at[t] \in Nat /\ at[t] < c.count
  <2>1. pc[t] = "copying" /\ pc[t] \in Inside /\ c.mem # NULL /\ Control(t)
    BY DEF Copy, Inside, Inv, Typed
  <2>2. c \in Calls /\ Progress(t) /\ at[t] \in Nat
    BY <2>1, Holder
  <2>3. item_count \in Nat /\ c.index \in Nat /\ c.count \in Nat /\ NumItems \in Nat
    BY <2>2, Sizes, Words DEF Inv
  <2>4. QED
    BY <2>1, <2>2, <2>3 DEF Control
<1>2. /\ c.op = "pop_back" => item_count <= c.count
      /\ c.op = "remove" => c.index + c.count <= item_count
  <2>1. ~Refused(c)
    BY <1>1, Holder DEF Inside
  <2>2. /\ c.op = "pop_back" => ~(item_count > c.count)
        /\ c.op = "remove" => ~(c.index + c.count > item_count)
    BY <1>1, <2>1, Sizes DEF Inv
  <2>3. QED
    BY <1>1, <2>2
<1>3. /\ Start(c) \in Nat /\ Plus(at[t], Start(c)) = i /\ i \in Places
      /\ c.op = "pop_back" => item_count = c.count /\ Start(c) = 0
  BY CopyTurn
<1>4. /\ UNCHANGED <<item_count, call, before>>
      /\ at'[t] = at[t] + 1
      /\ pc'[t] = IF at[t] + 1 = c.count
                  THEN IF c.op = "remove" THEN "moving" ELSE "leaving"
                  ELSE "copying"
      /\ IF c.op \in {"push_back", "insert"}
         THEN buf' = [buf EXCEPT ![i] = Element(c.mem, Start(c))] /\ dst' = dst
         ELSE dst'[t] = Append(dst[t], buf[i]) /\ buf' = buf
  <2>1. TypeOK
    BY DEF Inv, Typed
  <2>2. /\ UNCHANGED <<item_count, call, before>>
        /\ at' = [at EXCEPT ![t] = @ + 1]
        /\ pc' = [pc EXCEPT ![t] = IF Copied(at'[t], c.count) THEN AfterCopy(c) ELSE "copying"]
        /\ IF c.op \in {"push_back", "insert"}
           THEN CpyIn(i, Element(c.mem, Start(c))) /\ UNCHANGED dst
           ELSE dst' = [dst EXCEPT ![t] = Append(@, buf[i])] /\ UNCHANGED buf
    BY <1>3 DEF Copy, Goto
  <2>3. at'[t] = at[t] + 1
    BY <2>1, <2>2 DEF TypeOK
  <2>4. pc'[t] = IF at[t] + 1 = c.count
                  THEN IF c.op = "remove" THEN "moving" ELSE "leaving"
                  ELSE "copying"
    BY <2>1, <2>2, <2>3 DEF TypeOK, Copied, AfterCopy
  <2>5. CASE c.op \in {"push_back", "insert"}
    BY <2>2, <2>3, <2>4, <2>5 DEF CpyIn
  <2>6. CASE c.op \notin {"push_back", "insert"}
    <3>1. dst'[t] = Append(dst[t], buf[i])
      BY <2>1, <2>2, <2>6 DEF TypeOK
    <3>2. QED
      BY <2>2, <2>3, <2>4, <2>6, <3>1
  <2>7. QED
    BY <2>5, <2>6
<1>5. /\ Start(c)' = Start(c)
      /\ Done(t)' => at'[t] = c.count
      /\ Len(before') = item_count'
  BY <1>1, <1>4 DEF Start, Done, Progress
<1>6. ASSUME c.op \in {"push_back", "insert"}, CopiedIn(t)
      PROVE  /\ CopiedIn(t)'
             /\ \A j \in Places \ {i} : buf'[j] = buf[j]
  <2>1. buf' = [buf EXCEPT ![i] = Element(c.mem, Start(c))] /\ buf \in [Places -> Data]
    BY <1>4, <1>6 DEF Inv, Typed, TypeOK
  <2>2. buf'[i] = Element(c.mem, Start(c)) /\ \A j \in Places \ {i} : buf'[j] = buf[j]
    BY <1>3, <2>1
  <2>3. ASSUME NEW j \in 0 .. at'[t] - 1 PROVE buf'[Start(c) + j] = Element(c.mem, Start(c))
    <3>1. CASE j = at[t]
      BY <2>2, <3>1
    <3>2. CASE j # at[t]
      <4>1. j \in 0 .. at[t] - 1
        BY <1>1, <1>4, <3>2
      <4>2. Start(c) + j \in Places \ {i}
        BY <1>1, <1>3, <4>1 DEF Places
      <4>3. buf[Start(c) + j] = Element(c.mem, Start(c))
        BY <1>1, <1>6, <4>1 DEF CopiedIn
      <4>4. QED
        BY <2>2, <4>2, <4>3
    <3>3. QED
      BY <3>1, <3>2
  <2>4. CopiedIn(t)'
    BY <1>4, <1>5, <2>3 DEF CopiedIn
  <2>5. QED
    BY <2>2, <2>4
<1>7. ASSUME NEW n \in Nat, n <= i, c.op \in {"push_back", "insert"}, CopiedIn(t), Same(n) PROVE Same(n)'
  <2>1. ASSUME NEW k \in 1 .. n, k <= NumItems PROVE buf'[k - 1] = buf[k - 1]
    <3>1. k - 1 \in Places \ {i}
      BY <1>1, <1>3, <1>7, <2>1 DEF Places
    <3>2. QED
      BY <1>6, <1>7, <3>1
  <2>2. QED
    BY <1>4, <1>7, <2>1 DEF Same
<1>8. ASSUME NEW from \in Nat, c.op \in {"pop_back", "remove"}, from = Start(c), CopiedOut(t, from),
             Same(item_count), from + at[t] + 1 <= item_count
      PROVE  CopiedOut(t, from)'
  <2>1. before[from + at[t] + 1] = buf[i]
    <3>1. PICK k \in 1 .. item_count : k = from + at[t] + 1 /\ k - 1 = i /\ k <= NumItems
      BY <1>1, <1>3, <1>8 DEF Places
    <3>2. QED
      BY <1>8, <3>1 DEF Same
  <2>2. dst[t] \in Seq(Data) /\ dst'[t] = Append(dst[t], buf[i]) /\ Len(dst[t]) = at[t]
    BY <1>4, <1>8 DEF Inv, Typed, TypeOK, CopiedOut
  <2>3. Len(dst'[t]) = at[t] + 1 /\ dst'[t][at[t] + 1] = buf[i]
        /\ \A j \in 1 .. at[t] : dst'[t][j] = dst[t][j]
    BY <2>2
  <2>4. ASSUME NEW j \in 1 .. at[t] + 1 PROVE dst'[t][j] = before[from + j]
    <3>1. CASE j = at[t] + 1
      <4>1. from + j = from + at[t] + 1
        BY <1>1, <3>1
      <4>2. QED
        BY <2>1, <2>3, <3>1, <4>1
    <3>2. CASE j # at[t] + 1
      <4>1. j \in 1 .. at[t]
        BY <1>1, <3>2
      <4>2. dst'[t][j] = dst[t][j] /\ dst[t][j] = before[from + j]
        BY <1>8, <2>3, <4>1 DEF CopiedOut
      <4>3. QED
        BY <4>2
    <3>3. QED
      BY <3>1, <3>2
  <2>5. QED
    BY <1>4, <2>3, <2>4 DEF CopiedOut
<1>9. CASE c.op = "push_back"
  <2>1. Start(c) = item_count /\ Same(item_count) /\ CopiedIn(t) /\ dst[t] = <<>>
    BY <1>1, <1>9 DEF Start, Progress, Pushing
  <2>2. Same(item_count)'
    <3>1. item_count <= i
      BY <1>1, <2>1
    <3>2. QED
      BY <1>1, <1>4, <1>7, <1>9, <2>1, <3>1 DEF Same
  <2>3. CopiedIn(t)'
    BY <1>6, <1>9, <2>1
  <2>4. QED
    BY <1>1, <1>4, <1>5, <1>9, <2>1, <2>2, <2>3 DEF Progress, Pushing
<1>10. CASE c.op = "insert"
  <2>1. /\ Start(c) = c.index /\ Same(c.index) /\ CopiedIn(t) /\ dst[t] = <<>> /\ c.index <= item_count
        /\ \A j \in c.index .. item_count - 1 : buf[j + c.count] = before[j + 1]
    BY <1>1, <1>10 DEF Start, Progress, Inserting
  <2>2. Same(c.index)' /\ CopiedIn(t)'
    <3>1. c.index <= i
      BY <1>1, <2>1
    <3>2. QED
      BY <1>1, <1>4, <1>6, <1>7, <1>10, <2>1, <3>1 DEF Same
  <2>3. ASSUME NEW j \in c.index .. item_count - 1 PROVE buf'[j + c.count] = before[j + 1]
    <3>1. j + c.count \in Places \ {i}
      <4>1. item_count + c.count <= NumItems
        <5>1. ~Refused(c)
          BY <1>1, Holder DEF Inside
        <5>2. ~(item_count + c.count > NumItems)
          BY <1>1, <1>10, <5>1, Sizes DEF Inv
        <5>3. QED
          BY <1>1, <5>2
      <4>2. j + c.count \in Places
        BY <1>1, <4>1 DEF Places
      <4>3. j + c.count # i
        <5>1. PICK x \in Nat, n \in Nat, v \in Nat : x = c.index /\ n = c.count /\ v = at[t]
          BY <1>1
        <5>2. i = x + v /\ v < n
          BY <1>1, <2>1, <5>1
        <5>3. j \in Nat /\ j >= x
          BY <1>1, <5>1
        <5>4. QED
          BY ONLY <5>1, <5>2, <5>3, x \in Nat, n \in Nat, v \in Nat
      <4>4. QED
        BY <1>1, <4>2, <4>3
    <3>2. QED
      BY <1>6, <1>10, <2>1, <3>1
  <2>4. pc'[t] # "moving"
    BY <1>4, <1>10
  <2>5. Inserting(t)'
    BY <1>4, <1>10, <2>1, <2>2, <2>3, <2>4 DEF Inserting
  <2>6. QED
    BY <1>1, <1>4, <1>5, <1>10, <2>5 DEF Progress
<1>11. CASE c.op = "pop_back"
  <2>1. /\ Start(c) = 0 /\ Same(item_count) /\ CopiedOut(t, 0) /\ item_count = c.count
    BY <1>1, <1>3, <1>11 DEF Progress, Popping
  <2>2. 0 + at[t] + 1 <= item_count
    BY <1>1, <2>1
  <2>3. CopiedOut(t, 0)' /\ Same(item_count)'
    BY <1>4, <1>8, <1>11, <2>1, <2>2 DEF Same
  <2>4. QED
    BY <1>1, <1>4, <1>5, <1>11, <2>1, <2>3 DEF Progress, Popping
<1>12. CASE c.op = "remove"
  <2>1. Start(c) = c.index /\ Same(item_count) /\ CopiedOut(t, c.index)
    BY <1>1, <1>12 DEF Start, Progress, Removing
  <2>2. c.index + at[t] + 1 <= item_count
    BY <1>1, <1>2, <1>12
  <2>3. CopiedOut(t, c.index)' /\ Same(item_count)'
    BY <1>1, <1>4, <1>8, <1>12, <2>1, <2>2 DEF Same
  <2>4. pc'[t] # "leaving"
    BY <1>4, <1>12
  <2>5. QED
    BY <1>1, <1>4, <1>5, <1>12, <2>3, <2>4 DEF Progress, Removing
<1>13. QED
  BY <1>1, <1>9, <1>10, <1>11, <1>12, CallFields

-----------------------------------------------------------------------------
LEMMA InitInv == ASSUME NEW bound \in Nat PROVE Init => Inv(bound)
<1> SUFFICES ASSUME Init PROVE Inv(bound)
  OBVIOUS
<1>1. Typed
  BY InitTyped
<1>2. Counts(bound)
  BY Words DEF Init, Counts
<1>3. InProgress /\ WildOnlyPastEnd
  BY NullAssumption DEF Init, InProgress, WildOnlyPastEnd
<1>4. QED
  BY <1>1, <1>2, <1>3 DEF Inv

(* What a call adds to item_count. *)
LEMMA CountsStep ==
  ASSUME NEW bound \in Nat, Small(bound), Inv(bound), NEW t \in Threads, Leave(t)
  PROVE  /\ Counts(bound)'
         /\ item_count' = IF call[t].op = "remove" THEN item_count - call[t].count
                                                    ELSE item_count + call[t].count
<1> DEFINE c == call[t]
<1>1. c \in Calls /\ ~Refused(c) /\ item_count' = Counted(c)
  BY Holder DEF Leave, Inside
<1>2. /\ item_count \in Nat /\ c.index \in Nat /\ c.count \in Nat /\ NumItems \in Nat
      /\ c.op \in {"push_back", "insert"} => ~(item_count + c.count > NumItems)
      /\ c.op = "pop_back" => ~(item_count > c.count)
      /\ c.op = "remove" => ~(c.index + c.count > item_count)
  BY <1>1, Sizes, Words DEF Inv
<1>3. /\ c.index + c.count <= bound /\ item_count <= NumItems + 2 * bound
      /\ Plus(item_count, c.count) = item_count + c.count
  BY <1>1, Sizes DEF Inv
<1>4. item_count < W
  BY <1>2, <1>3, Assertions
<1>5. CASE c.op = "remove"
  <2>1. c.count <= item_count
    BY <1>2, <1>5
  <2>2. item_count' = item_count - c.count
    BY <1>1, <1>2, <1>4, <1>5, <2>1, Words DEF Counted
  <2>3. QED
    BY <1>2, <1>3, <1>5, <2>1, <2>2, Words DEF Counts
<1>6. CASE c.op # "remove"
  <2>1. item_count' = item_count + c.count
    BY <1>1, <1>3, <1>6 DEF Counted
  <2>2. item_count + c.count <= NumItems + 2 * bound
    BY <1>1, <1>2, <1>3, <1>6, CallFields
  <2>3. QED
    BY <1>6, <2>1, <2>2, Words DEF Counts
<1>7. QED
  BY <1>5, <1>6

LEMMA InvStep ==
  ASSUME NEW bound \in Nat, Small(bound)
  PROVE  Inv(bound) /\ [Next]_vars => Inv(bound)'
<1> SUFFICES ASSUME Inv(bound), [Next]_vars PROVE Inv(bound)'
  OBVIOUS
<1>1. Typed'
  BY TypedStep DEF Inv
<1>2. CASE UNCHANGED vars
  <2>1. Counts(bound)' /\ WildOnlyPastEnd'
    BY <1>2 DEF Inv, Counts, WildOnlyPastEnd, vars, listVars
  <2>2. ASSUME NEW s \in Threads, rwlock' = s, outcome' = "running" PROVE Progress(s)'
    <3>1. Progress(s)
      BY <1>2, <2>2 DEF Inv, InProgress, vars, listVars
    <3>2. QED
      BY <1>2, <3>1, ProgressStays DEF vars, listVars
  <2>3. QED
    BY <1>1, <2>1, <2>2 DEF Inv, InProgress
<1>3. ASSUME NEW t \in Threads, outcome = "running",
             (\E c \in Calls : Call(t, c)) \/ Skip(t) \/ Refuse(t)
      PROVE  Inv(bound)'
  <2>1. /\ UNCHANGED <<buf, item_count, rwlock, at, outcome, before>>
        /\ \A s \in Threads \ {t} : pc'[s] = pc[s] /\ call'[s] = call[s] /\ dst'[s] = dst[s]
        /\ pc[t] \notin Inside
    BY <1>3 DEF Call, Skip, Refuse, Return, Goto, listVars, Inv, Typed, TypeOK, Inside
  <2>2. rwlock # t
    BY <2>1 DEF Inv, Typed, Control
  <2>3. ASSUME NEW s \in Threads, rwlock' = s, outcome' = "running" PROVE Progress(s)'
    <3>1. s # t /\ Progress(s)
      BY <2>1, <2>2, <2>3 DEF Inv, InProgress
    <3>2. QED
      BY <2>1, <3>1, ProgressStays
  <2>4. Counts(bound)' /\ WildOnlyPastEnd'
    BY <1>3, <2>1 DEF Inv, Counts, WildOnlyPastEnd
  <2>5. QED
    BY <1>1, <2>3, <2>4 DEF Inv, InProgress
<1>4. ASSUME NEW t \in Threads, outcome = "running", Begin(t) PROVE Inv(bound)'
  <2>1. rwlock' = t /\ item_count' = item_count /\ outcome' = "running"
    BY <1>4 DEF Begin
  <2>2. Progress(t)'
    BY <1>4, BeginProgress DEF Inv
  <2>3. QED
    BY <1>1, <2>1, <2>2 DEF Inv, InProgress, Counts, WildOnlyPastEnd
<1>5. ASSUME NEW t \in Threads, outcome = "running", Copy(t) \/ CopyNothing(t) \/ Move(t)
      PROVE  Inv(bound)'
  <2>1. /\ pc[t] \in Inside /\ UNCHANGED <<item_count, rwlock, call>>
    BY <1>5 DEF Copy, CopyNothing, Move, Inside, listVars
  <2>2. rwlock = t
    BY <2>1, Holder
  <2>3. outcome' = "running" => Progress(t)'
    BY <1>5, CopyProgress, CopyNothingProgress, MoveProgress
  <2>4. CopyNothing(t) => outcome' # "wild"
    BY DEF CopyNothing, CopyingNothing, Outcome
  <2>5. outcome' = "wild" => call[t].op = "insert" /\ call[t].index > item_count
    BY <1>5, <2>4, CopyTurn, MoveTurn
  <2>6. QED
    BY <1>1, <2>1, <2>2, <2>3, <2>5 DEF Inv, InProgress, Counts, WildOnlyPastEnd
<1>6. ASSUME NEW t \in Threads, outcome = "running", Leave(t) PROVE Inv(bound)'
  <2>1. rwlock' = NULL /\ outcome' = "running"
    BY <1>6 DEF Leave
  <2>2. Counts(bound)'
    BY <1>6, CountsStep
  <2>3. QED
    BY <1>1, <2>1, <2>2, NullAssumption DEF Inv, InProgress, WildOnlyPastEnd
<1>7. QED
  BY <1>2, <1>3, <1>4, <1>5, <1>6 DEF Next

LEMMA Invariance ==
  ASSUME NEW bound \in Nat, Small(bound)
  PROVE  Spec => []Inv(bound)
<1>1. Init => Inv(bound)
  BY InitInv
<1>2. Inv(bound) /\ [Next]_vars => Inv(bound)'
  BY InvStep
<1>3. QED
  BY <1>1, <1>2, PTL DEF Spec

(* As long as no arithmetic overflows, the assertions of pool.c stop every *)
(* access beyond its buffer that arraylist.c would make, item_count wrong  *)
(* or not, but for an insert behind the end of the list.                   *)
THEOREM WildOnlyPastEndCorrect ==
  ASSUME SmallCalls
  PROVE  Spec => []WildOnlyPastEnd
<1>1. PICK bound \in Nat : Small(bound)
  BY DEF SmallCalls
<1>2. Spec => []Inv(bound)
  BY <1>1, Invariance
<1>3. Inv(bound) => WildOnlyPastEnd
  BY DEF Inv
<1>4. QED
  BY <1>2, <1>3, PTL

-----------------------------------------------------------------------------
(* Sequences that are put together, and taken apart. *)
LEMMA Two ==
  ASSUME NEW S, NEW s \in Seq(S), NEW t \in Seq(S), NEW r \in Seq(S),
         Len(r) = Len(s) + Len(t),
         \A i \in 1 .. Len(r) : r[i] = IF i <= Len(s) THEN s[i] ELSE t[i - Len(s)]
  PROVE  r = s \o t
<1>1. /\ s \o t \in Seq(S) /\ Len(s \o t) = Len(s) + Len(t)
      /\ \A i \in 1 .. Len(s) + Len(t) :
           (s \o t)[i] = IF i <= Len(s) THEN s[i] ELSE t[i - Len(s)]
  BY ConcatProperties
<1> DEFINE b == s \o t
<1> HIDE DEF b
<1>2. b \in Seq(S) /\ Len(r) = Len(b) /\ \A i \in 1 .. Len(r) : r[i] = b[i]
  BY <1>1 DEF b
<1>3. r = b
  BY <1>2, SeqEqual
<1>4. QED
  BY <1>3 DEF b

LEMMA Three ==
  ASSUME NEW S, NEW s \in Seq(S), NEW t \in Seq(S), NEW u \in Seq(S), NEW r \in Seq(S),
         Len(r) = Len(s) + Len(t) + Len(u),
         \A i \in 1 .. Len(r) : r[i] = IF i <= Len(s) THEN s[i]
                                       ELSE IF i <= Len(s) + Len(t) THEN t[i - Len(s)]
                                       ELSE u[i - (Len(s) + Len(t))]
  PROVE  r = s \o t \o u
<1> DEFINE b == s \o t
<1>1. /\ b \in Seq(S) /\ Len(b) = Len(s) + Len(t)
      /\ \A i \in 1 .. Len(s) + Len(t) : b[i] = IF i <= Len(s) THEN s[i] ELSE t[i - Len(s)]
  BY ConcatProperties
<1> HIDE DEF b
<1>2. Len(s) \in Nat /\ Len(t) \in Nat /\ Len(u) \in Nat
  OBVIOUS
<1>3. Len(r) = Len(b) + Len(u)
  BY <1>1
<1>4. ASSUME NEW i \in 1 .. Len(r) PROVE r[i] = IF i <= Len(b) THEN b[i] ELSE u[i - Len(b)]
  <2>1. CASE i <= Len(b)
    <3>1. i \in 1 .. Len(s) + Len(t) /\ i <= Len(s) + Len(t)
      BY <1>1, <1>2, <2>1
    <3>2. b[i] = IF i <= Len(s) THEN s[i] ELSE t[i - Len(s)]
      BY <1>1, <3>1
    <3>3. QED
      BY <2>1, <3>1, <3>2
  <2>2. CASE ~(i <= Len(b))
    <3>1. ~(i <= Len(s) + Len(t)) /\ ~(i <= Len(s)) /\ Len(b) = Len(s) + Len(t)
      BY <1>1, <1>2, <2>2
    <3>2. QED
      BY <2>2, <3>1
  <2>3. QED
    BY <2>1, <2>2
<1>5. r = b \o u
  BY <1>1, <1>3, <1>4, Two
<1>6. QED
  BY <1>5 DEF b

LEMMA Parts ==
  ASSUME NEW S, NEW l \in Seq(S), NEW w \in 0 .. Len(l)
  PROVE  /\ SubSeq(l, 1, w) \in Seq(S) /\ Len(SubSeq(l, 1, w)) = w
         /\ \A i \in 1 .. w : SubSeq(l, 1, w)[i] = l[i]
         /\ SubSeq(l, w + 1, Len(l)) \in Seq(S) /\ Len(SubSeq(l, w + 1, Len(l))) = Len(l) - w
         /\ \A i \in 1 .. Len(l) - w : SubSeq(l, w + 1, Len(l))[i] = l[w + i]
OBVIOUS

LEMMA Spliced ==
  ASSUME NEW S, NEW l \in Seq(S), NEW w \in 0 .. Len(l), NEW s \in Seq(S), NEW r \in Seq(S),
         Len(r) = Len(l) + Len(s),
         \A i \in 1 .. Len(r) : r[i] = IF i <= w THEN l[i]
                                       ELSE IF i <= w + Len(s) THEN s[i - w]
                                       ELSE l[i - Len(s)]
  PROVE  r = SubSeq(l, 1, w) \o s \o SubSeq(l, w + 1, Len(l))
<1> DEFINE front == SubSeq(l, 1, w)
           back == SubSeq(l, w + 1, Len(l))
<1>1. front \in Seq(S) /\ Len(front) = w /\ \A i \in 1 .. w : front[i] = l[i]
  BY Parts
<1>2. /\ back \in Seq(S) /\ Len(back) = Len(l) - w
      /\ \A i \in 1 .. Len(l) - w : back[i] = l[w + i]
  BY Parts
<1> HIDE DEF front, back
<1>3. Len(r) = Len(front) + Len(s) + Len(back)
  BY <1>1, <1>2
<1>4. ASSUME NEW i \in 1 .. Len(r)
      PROVE  r[i] = IF i <= Len(front) THEN front[i]
                    ELSE IF i <= Len(front) + Len(s) THEN s[i - Len(front)]
                    ELSE back[i - (Len(front) + Len(s))]
  <2>1. CASE i <= w + Len(s)
    BY <1>1, <2>1
  <2>2. CASE i > w + Len(s)
    <3>1. PICK j \in 1 .. Len(l) - w : j = i - (w + Len(s)) /\ w + j = i - Len(s)
      <4>1. i - (w + Len(s)) \in 1 .. Len(l) - w /\ w + (i - (w + Len(s))) = i - Len(s)
        BY <2>2
      <4>2. QED
        BY <4>1
    <3>2. back[j] = l[w + j]
      BY <1>2
    <3>3. r[i] = l[i - Len(s)]
      BY <2>2
    <3>4. QED
      BY <1>1, <2>2, <3>1, <3>2, <3>3
  <2>3. QED
    BY <2>1, <2>2
<1>5. r = front \o s \o back
  <2>1. front \in Seq(S) /\ back \in Seq(S)
    BY <1>1, <1>2
  <2>2. QED
    BY ONLY s \in Seq(S), r \in Seq(S), <1>3, <1>4, <2>1, Three
<1>6. QED
  BY <1>5 DEF front, back

LEMMA Cut ==
  ASSUME NEW S, NEW l \in Seq(S), NEW w \in Nat, NEW n \in Nat, w + n <= Len(l), NEW r \in Seq(S),
         Len(r) = Len(l) - n,
         \A i \in 1 .. Len(r) : r[i] = IF i <= w THEN l[i] ELSE l[i + n]
  PROVE  r = SubSeq(l, 1, w) \o SubSeq(l, w + n + 1, Len(l))
<1> DEFINE front == SubSeq(l, 1, w)
           back == SubSeq(l, w + n + 1, Len(l))
<1>0. w \in 0 .. Len(l) /\ w + n \in 0 .. Len(l)
  OBVIOUS
<1>1. front \in Seq(S) /\ Len(front) = w /\ \A i \in 1 .. w : front[i] = l[i]
  BY <1>0, Parts
<1>2. /\ back \in Seq(S) /\ Len(back) = Len(l) - (w + n)
      /\ \A i \in 1 .. Len(l) - (w + n) : back[i] = l[w + n + i]
  BY <1>0, Parts
<1> HIDE DEF front, back
<1>3. Len(r) = Len(front) + Len(back)
  BY <1>1, <1>2
<1>4. ASSUME NEW i \in 1 .. Len(r)
      PROVE  r[i] = IF i <= Len(front) THEN front[i] ELSE back[i - Len(front)]
  <2>1. CASE i <= w
    BY <1>1, <2>1
  <2>2. CASE i > w
    <3>1. PICK j \in 1 .. Len(l) - (w + n) : j = i - w /\ w + n + j = i + n
      <4>1. i - w \in 1 .. Len(l) - (w + n) /\ w + n + (i - w) = i + n
        BY <2>2
      <4>2. QED
        BY <4>1
    <3>2. back[j] = l[w + n + j]
      BY <1>2
    <3>3. r[i] = l[i + n]
      BY <2>2
    <3>4. QED
      BY <1>1, <2>2, <3>1, <3>2, <3>3
  <2>3. QED
    BY <2>1, <2>2
<1>5. r = front \o back
  BY <1>1, <1>2, <1>3, <1>4, Two
<1>6. QED
  BY <1>5 DEF front, back

LEMMA Part ==
  ASSUME NEW S, NEW l \in Seq(S), NEW w \in Nat, NEW n \in Nat, w + n <= Len(l), NEW r \in Seq(S),
         Len(r) = n, \A j \in 1 .. n : r[j] = l[w + j]
  PROVE  r = SubSeq(l, w + 1, w + n)
<1>1. SubSeq(l, w + 1, w + n) \in Seq(S) /\ Len(SubSeq(l, w + 1, w + n)) = n
  OBVIOUS
<1>2. \A j \in 1 .. n : SubSeq(l, w + 1, w + n)[j] = l[w + j]
  OBVIOUS
<1> DEFINE part == SubSeq(l, w + 1, w + n)
<1>3. part \in Seq(S) /\ Len(part) = n /\ \A j \in 1 .. n : part[j] = r[j]
  BY <1>1, <1>2
<1> HIDE DEF part
<1>4. part = r
  BY <1>3
<1>5. QED
  BY <1>4 DEF part

-----------------------------------------------------------------------------
ItemsOK ==
  /\ Items \in Seq(Data) /\ Len(Items) = item_count /\ item_count \in Nat
  /\ \A i \in 1 .. item_count : Items[i] = IF i <= NumItems THEN buf[i - 1] ELSE Junk

LEMMA ItemsType == Typed => ItemsOK
<1> SUFFICES ASSUME Typed PROVE ItemsOK
  OBVIOUS
<1>1. \A i \in 1 .. item_count : i <= NumItems => i - 1 \in Places
  BY Words DEF Places, Typed, TypeOK
<1>2. item_count \in Nat
  BY DEF Typed, TypeOK
<1>3. Items \in [1 .. item_count -> Data]
  BY <1>1 DEF Items, Typed, TypeOK, Data
<1>4. Items \in Seq(Data) /\ Len(Items) = item_count
  BY <1>2, <1>3
<1>5. QED
  BY <1>2, <1>4 DEF ItemsOK, Items

(* The list, to others than the thread inside the lock. *)
Seen == IF rwlock = NULL THEN Items ELSE before

LEMMA Answers ==
  ASSUME Typed, NEW t \in Threads, NEW r,
         pc' = [pc EXCEPT ![t] = "idle"], call' = [call EXCEPT ![t] = NULL],
         ret' = [ret EXCEPT ![t] = r], dst' = dst
  PROVE  L!Return(t, r, dst[t])
<1> DEFINE answer == [s \in Threads |-> IF pc[s] = "idle" THEN [ret |-> ret[s], items |-> dst[s]]
                                                         ELSE NULL]
<1>1. \A s \in Threads :
         (IF pc'[s] = "idle" THEN [ret |-> ret'[s], items |-> dst'[s]] ELSE NULL)
           = IF s = t THEN [ret |-> r, items |-> dst[t]] ELSE answer[s]
  BY DEF Typed, TypeOK
<1>2. answer' = [answer EXCEPT ![t] = [ret |-> r, items |-> dst[t]]]
  BY <1>1
<1>3. QED
  BY <1>2 DEF L!Return

LEMMA CallSimulation ==
  ASSUME Typed, NEW t \in Threads, NEW c \in Calls, Call(t, c)
  PROVE  L!Invoke(t)
<1> DEFINE answer == [s \in Threads |-> IF pc[s] = "idle" THEN [ret |-> ret[s], items |-> dst[s]]
                                                         ELSE NULL]
<1>1. /\ call[t] = NULL /\ call' = [call EXCEPT ![t] = c]
      /\ UNCHANGED <<buf, item_count, rwlock, before, ret>>
      /\ pc' = [pc EXCEPT ![t] = IF c.count = 0 THEN "skipping" ELSE "locking"]
      /\ dst' = [dst EXCEPT ![t] = <<>>]
  BY DEF Call, Goto, listVars, Typed, Control
<1>2. \A s \in Threads :
         (IF pc'[s] = "idle" THEN [ret |-> ret'[s], items |-> dst'[s]] ELSE NULL)
           = IF s = t THEN NULL ELSE answer[s]
  BY <1>1 DEF Typed, TypeOK
<1>3. answer' = [answer EXCEPT ![t] = NULL]
  BY <1>2
<1>4. UNCHANGED Seen
  BY <1>1 DEF Seen, Items
<1>5. QED
  BY <1>1, <1>3, <1>4 DEF L!Invoke, Seen

LEMMA SkipSimulation ==
  ASSUME Typed, NEW t \in Threads, Skip(t)
  PROVE  call[t] # NULL /\ L!Skip(t)
<1>1. /\ call[t] # NULL /\ call[t].count = 0 /\ dst[t] = <<>>
      /\ UNCHANGED <<buf, item_count, rwlock, before, dst>>
      /\ pc' = [pc EXCEPT ![t] = "idle"] /\ call' = [call EXCEPT ![t] = NULL]
      /\ ret' = [ret EXCEPT ![t] = "success"]
  BY DEF Skip, Return, Goto, listVars, Typed, Control
<1>2. L!Return(t, "success", dst[t])
  BY <1>1, Answers
<1>3. UNCHANGED Seen
  BY <1>1 DEF Seen, Items
<1>4. QED
  BY <1>1, <1>2, <1>3 DEF L!Skip, L!Return, Seen

LEMMA RefuseSimulation ==
  ASSUME NEW bound \in Nat, Small(bound), Inv(bound), NEW t \in Threads, Refuse(t)
  PROVE  call[t] # NULL /\ L!Refuse(t)
<1> DEFINE c == call[t]
<1>1. /\ c # NULL /\ dst[t] = <<>> /\ rwlock = NULL /\ Refused(c)
      /\ UNCHANGED <<buf, item_count, rwlock, before, dst>>
      /\ pc' = [pc EXCEPT ![t] = "idle"] /\ call' = [call EXCEPT ![t] = NULL]
      /\ ret' = [ret EXCEPT ![t] = "EINVAL"]
  BY DEF Refuse, Return, Goto, listVars, Inv, Typed, Control, MayLock
<1>2. c \in Calls
  BY <1>1 DEF Inv, Typed, TypeOK
<1>3. L!Return(t, "EINVAL", dst[t])
  BY <1>1, Answers DEF Inv
<1>4. UNCHANGED Seen
  BY <1>1 DEF Seen, Items
<1>5. Seen = Items /\ Len(Items) = item_count /\ item_count \in Nat
  BY <1>1, ItemsType DEF Inv, Seen, ItemsOK
<1>6. L!Refused(c)
  <2>1. /\ item_count \in Nat /\ c.index \in Nat /\ c.count \in Nat /\ MaxCount = NumItems
        /\ NumItems \in Nat
        /\ c.op \in {"push_back", "insert"} => item_count + c.count > NumItems
        /\ c.op = "pop_back" => item_count > c.count
        /\ c.op = "remove" => c.index + c.count > item_count
    BY <1>1, <1>2, Sizes, Words DEF Inv
  <2>2. Len(Seen) = item_count
    BY <1>5
  <2>3. QED
    BY <1>2, <2>1, <2>2, CallFields DEF L!Refused, Seen
<1>7. QED
  BY <1>1, <1>3, <1>4, <1>6 DEF L!Refuse, L!Return, Seen

(* What t leaves behind. *)
LEMMA Left ==
  ASSUME NEW bound \in Nat, Small(bound), Inv(bound), NEW t \in Threads,
         outcome = "running", Leave(t)
  PROVE  /\ call[t] # NULL /\ call[t] \in Calls /\ Progress(t) /\ pc[t] = "leaving"
         /\ IF call[t].mem = NULL THEN at[t] = 0 ELSE at[t] = call[t].count
         /\ Seen = before /\ before \in Seq(Data) /\ Len(before) = item_count
         /\ item_count \in Nat
         /\ Seen' = Items' /\ ItemsOK' /\ UNCHANGED buf
         /\ L!Return(t, "success", dst[t])
<1>1. /\ rwlock = t /\ call[t] \in Calls /\ Progress(t) /\ pc[t] = "leaving"
      /\ call[t] # NULL /\ rwlock # NULL
  <2>1. pc[t] = "leaving" /\ pc[t] \in Inside
    BY DEF Leave, Inside
  <2>2. QED
    BY <2>1, Holder, NullAssumption
<1>2. /\ pc' = [pc EXCEPT ![t] = "idle"] /\ call' = [call EXCEPT ![t] = NULL]
      /\ ret' = [ret EXCEPT ![t] = "success"] /\ rwlock' = NULL
      /\ UNCHANGED <<buf, dst, outcome>>
  BY DEF Leave, Return, Goto
<1>3. Typed /\ before \in Seq(Data) /\ item_count \in Nat
  BY DEF Inv, Typed, TypeOK
<1>4. Typed'
  BY <1>3, TypedLeave
<1>5. ItemsOK'
  BY <1>4, ItemsType, PTL
<1>6. L!Return(t, "success", dst[t])
  BY <1>2, <1>3, Answers
<1>7. Seen = before /\ Seen' = Items'
  BY <1>1, <1>2 DEF Seen
<1>8. QED
  BY <1>1, <1>2, <1>3, <1>5, <1>6, <1>7 DEF Progress, Done

(* Where memmove took an item from, up and down. *)
LEMMA Up ==
  ASSUME NEW i \in Nat, NEW w \in Nat, NEW n \in Nat, NEW m \in Nat, i > w + n, i <= m + n
  PROVE  \E j \in w .. m - 1 : j + 1 = i - n /\ j + n = i - 1
<1>1. /\ i - n - 1 \in w .. m - 1
      /\ (i - n - 1) + 1 = i - n /\ (i - n - 1) + n = i - 1
  OBVIOUS
<1>2. QED
  BY <1>1

LEMMA Down ==
  ASSUME NEW i \in Nat, NEW w \in Nat, NEW n \in Nat, NEW m \in Nat, i > w, i <= m - n
  PROVE  \E j \in w + n .. m - 1 : j - n = i - 1 /\ j + 1 = i + n
<1>1. /\ i + n - 1 \in w + n .. m - 1
      /\ (i + n - 1) - n = i - 1 /\ (i + n - 1) + 1 = i + n
  OBVIOUS
<1>2. QED
  BY <1>1

LEMMA PutSimulation ==
  ASSUME NEW bound \in Nat, Small(bound), Inv(bound), NEW t \in Threads,
         outcome = "running", Leave(t), call[t].op \in {"push_back", "insert"}
  PROVE  L!Put(t)
<1> DEFINE c == call[t]
           w == Start(c)
           s == [k \in 1 .. c.count |-> buf[w + k - 1]]
<1>1. /\ c \in Calls /\ c.index \in Nat /\ c.count \in Nat /\ c.mem \in Seq(Values) \cup {NULL}
      /\ item_count \in Nat /\ NumItems \in Nat /\ item_count + c.count <= NumItems
      /\ MaxCount = NumItems /\ buf \in [Places -> Data]
  <2>1. c \in Calls /\ ~Refused(c) /\ buf \in [Places -> Data]
    BY Holder DEF Leave, Inside, Inv, Typed, TypeOK
  <2>2. /\ item_count \in Nat /\ c.index \in Nat /\ c.count \in Nat /\ NumItems \in Nat
        /\ ~(item_count + c.count > NumItems) /\ MaxCount = NumItems
    BY <2>1, Sizes, Words DEF Inv
  <2>3. QED
    BY <2>1, <2>2, CallFields
<1>2. /\ Seen = before /\ before \in Seq(Data) /\ Len(before) = item_count
      /\ L!Return(t, "success", dst[t]) /\ dst[t] = <<>>
      /\ CopiedIn(t) /\ IF c.mem = NULL THEN at[t] = 0 ELSE at[t] = c.count
  BY Left DEF Progress, Pushing, Inserting
<1>3. PICK new : new = Items'
  OBVIOUS
<1>4. /\ Seen' = new /\ new \in Seq(Data) /\ Len(new) = item_count + c.count
      /\ \A i \in 1 .. item_count + c.count : new[i] = IF i <= NumItems THEN buf[i - 1] ELSE Junk
  <2>1. item_count' = item_count + c.count
    BY CountsStep
  <2>2. QED
    BY <1>3, <2>1, Left DEF ItemsOK
<1>5. /\ w \in Nat /\ w <= item_count /\ w = IF c.op = "push_back" THEN item_count ELSE c.index
      /\ Same(w)
      /\ \A j \in w .. item_count - 1 : buf[j + c.count] = before[j + 1]
  <2>1. CASE c.op = "push_back"
    <3>1. w = item_count /\ Same(w)
      BY <2>1, Left DEF Start, Progress, Pushing
    <3>2. w .. item_count - 1 = {}
      BY <1>1, <3>1
    <3>3. QED
      BY <1>1, <2>1, <3>1, <3>2
  <2>2. CASE c.op = "insert"
    BY <1>1, <2>2, Left DEF Start, Progress, Inserting
  <2>3. QED
    BY <2>1, <2>2
<1> HIDE DEF w
<1>g. /\ w \in Nat /\ item_count \in Nat /\ c.count \in Nat /\ NumItems \in Nat
      /\ w <= item_count /\ item_count + c.count <= NumItems
  BY <1>1, <1>5
<1>6. ASSUME NEW k \in 1 .. c.count
      PROVE  /\ buf[w + k - 1] \in Data
             /\ c.mem # NULL => buf[w + k - 1] = Element(c.mem, w)
  <2>1. PICK j \in 0 .. c.count - 1 : j = k - 1 /\ w + j = w + k - 1
    BY <1>g
  <2>2. w + j \in Places
    BY <1>g DEF Places
  <2>3. c.mem # NULL => buf[w + j] = Element(c.mem, w)
    BY <1>2 DEF CopiedIn, w
  <2>4. QED
    BY <1>1, <2>1, <2>2, <2>3
<1>7. s \in [1 .. c.count -> L!Element(c)]
  <2>1. L!Where(c) = w
    BY <1>2, <1>5 DEF L!Where, Seen
  <2>2. c.mem # NULL => L!Element(c) = {Element(c.mem, w)}
    BY <2>1 DEF L!Element, Element
  <2>3. c.mem = NULL => L!Element(c) = Data
    BY DEF L!Element
  <2>4. \A k \in 1 .. c.count : buf[w + k - 1] \in L!Element(c)
    BY <1>6, <2>2, <2>3
  <2>5. QED
    BY <2>4
<1>s. s \in [1 .. c.count -> Data] /\ \A k \in 1 .. c.count : s[k] = buf[w + k - 1]
  BY <1>6
<1> HIDE DEF s
<1>8. /\ s \in Seq(Data) /\ Len(s) = c.count
      /\ \A k \in 1 .. c.count : s[k] = buf[w + k - 1]
  <2>1. s \in Seq(Data) /\ Len(s) = c.count
    BY ONLY <1>g, <1>s
  <2>2. QED
    BY <1>s, <2>1
<1>9. ASSUME NEW i \in 1 .. Len(new)
      PROVE  new[i] = IF i <= w THEN before[i]
                      ELSE IF i <= w + Len(s) THEN s[i - w]
                      ELSE before[i - Len(s)]
  <2>0. i \in 1 .. item_count + c.count /\ i \in Nat /\ i <= item_count + c.count /\ i >= 1
    BY <1>4, <1>g
  <2>1. new[i] = buf[i - 1] /\ i \in Nat /\ i <= item_count + c.count /\ i >= 1
    BY <1>4, <1>g, <2>0
  <2>2. CASE i <= w
    <3>1. i \in 1 .. w /\ i <= NumItems
      BY <1>1, <1>5, <2>1, <2>2
    <3>2. before[i] = buf[i - 1]
      BY <1>5, <3>1 DEF Same
    <3>3. QED
      BY <2>1, <2>2, <3>2
  <2>3. CASE i > w /\ i <= w + c.count
    <3>1. PICK k \in 1 .. c.count : k = i - w /\ w + k - 1 = i - 1
      <4>1. PICK h \in Nat, v \in Nat, n \in Nat : h = i /\ v = w /\ n = c.count
        BY <1>g, <2>0
      <4>2. h > v /\ h <= v + n
        BY <2>3, <4>1
      <4>3. h - v \in 1 .. n /\ v + (h - v) - 1 = h - 1
        BY <4>2
      <4>4. QED
        BY <4>1, <4>3
    <3>2. s[k] = buf[w + k - 1]
      BY <1>8
    <3>3. ~(i <= w) /\ i <= w + Len(s)
      BY <1>5, <1>8, <2>1, <2>3
    <3>4. QED
      BY <2>1, <3>1, <3>2, <3>3
  <2>4. CASE i > w + c.count
    <3>1. PICK j \in w .. item_count - 1 : j + 1 = i - c.count /\ j + c.count = i - 1
      <4>1. PICK h \in Nat, v \in Nat, n \in Nat, m \in Nat :
               h = i /\ v = w /\ n = c.count /\ m = item_count
        BY <1>g, <2>0
      <4>2. h > v + n /\ h <= m + n
        BY <2>0, <2>4, <4>1
      <4>3. PICK j \in v .. m - 1 : j + 1 = h - n /\ j + n = h - 1
        BY <4>2, Up
      <4>4. QED
        BY <4>1, <4>3
    <3>2. buf[j + c.count] = before[j + 1]
      BY <1>5
    <3>3. ~(i <= w) /\ ~(i <= w + Len(s))
      <4>1. ~(i <= w) /\ ~(i <= w + c.count)
        BY <1>g, <2>0, <2>4
      <4>2. QED
        BY <1>8, <4>1
    <3>4. QED
      BY <1>8, <2>1, <3>1, <3>2, <3>3
  <2>5. i <= w \/ (i > w /\ i <= w + c.count) \/ i > w + c.count
    BY <1>g, <2>0
  <2>6. QED
    BY <2>2, <2>3, <2>4, <2>5
<1>10. new = SubSeq(before, 1, w) \o s \o SubSeq(before, w + 1, Len(before))
  <2>1. w \in 0 .. Len(before) /\ Len(new) = Len(before) + Len(s)
    BY <1>1, <1>2, <1>4, <1>5, <1>8
  <2>2. QED
    BY <1>2, <1>4, <1>8, <1>9, <2>1, Spliced
<1>11. L!Where(c) = w /\ L!Where(c) <= Len(Seen) /\ Len(Seen) + c.count <= MaxCount
  BY <1>1, <1>2, <1>5 DEF L!Where, Seen
<1>12. Seen' = L!Upto(L!Where(c)) \o s \o L!Behind(L!Where(c))
  BY <1>2, <1>4, <1>10, <1>11 DEF L!Upto, L!Behind, Seen
<1>13. QED
  BY <1>2, <1>7, <1>11, <1>12 DEF L!Put, L!Return, Seen

LEMMA RemoveSimulation ==
  ASSUME NEW bound \in Nat, Small(bound), Inv(bound), NEW t \in Threads,
         outcome = "running", Leave(t), call[t].op = "remove"
  PROVE  L!Remove(t)
<1> DEFINE c == call[t]
<1>1. /\ c \in Calls /\ c.index \in Nat /\ c.count \in Nat
      /\ item_count \in Nat /\ NumItems \in Nat /\ c.index + c.count <= item_count
  <2>1. c \in Calls /\ ~Refused(c)
    BY Holder DEF Leave, Inside
  <2>2. /\ item_count \in Nat /\ c.index \in Nat /\ c.count \in Nat /\ NumItems \in Nat
        /\ ~(c.index + c.count > item_count)
    BY <2>1, Sizes, Words DEF Inv
  <2>3. QED
    BY <2>1, <2>2
<1>2. /\ Seen = before /\ before \in Seq(Data) /\ Len(before) = item_count
      /\ L!Return(t, "success", dst[t]) /\ pc[t] = "leaving"
      /\ CopiedOut(t, c.index) /\ IF c.mem = NULL THEN at[t] = 0 ELSE at[t] = c.count
      /\ item_count <= NumItems /\ Same(c.index)
      /\ \A j \in c.index + c.count .. item_count - 1 : buf[j - c.count] = before[j + 1]
  BY Left DEF Progress, Removing
<1>3. PICK new : new = Items'
  OBVIOUS
<1>4. /\ Seen' = new /\ new \in Seq(Data) /\ Len(new) = item_count - c.count
      /\ \A i \in 1 .. item_count - c.count : new[i] = IF i <= NumItems THEN buf[i - 1] ELSE Junk
  <2>1. item_count' = item_count - c.count
    BY CountsStep
  <2>2. QED
    BY <1>3, <2>1, Left DEF ItemsOK
<1>5. ASSUME NEW i \in 1 .. Len(new)
      PROVE  new[i] = IF i <= c.index THEN before[i] ELSE before[i + c.count]
  <2>1. new[i] = buf[i - 1] /\ i \in Nat /\ i <= item_count - c.count /\ i >= 1
    BY <1>1, <1>2, <1>4
  <2>2. CASE i <= c.index
    <3>1. i \in 1 .. c.index /\ i <= NumItems
      BY <1>1, <1>2, <2>1, <2>2
    <3>2. before[i] = buf[i - 1]
      BY <1>2, <3>1 DEF Same
    <3>3. QED
      BY <2>1, <2>2, <3>2
  <2>3. CASE i > c.index
    <3>1. PICK j \in c.index + c.count .. item_count - 1 : j - c.count = i - 1 /\ j + 1 = i + c.count
      <4>1. /\ c.index \in Nat /\ c.count \in Nat /\ item_count \in Nat /\ i \in Nat
            /\ i > c.index /\ i <= item_count - c.count
        BY <1>1, <2>1, <2>3
      <4>2. PICK h \in Nat, v \in Nat, n \in Nat, m \in Nat :
               h = i /\ v = c.index /\ n = c.count /\ m = item_count
        BY <4>1
      <4>3. h > v /\ h <= m - n
        BY <4>1, <4>2
      <4>4. PICK j \in v + n .. m - 1 : j - n = h - 1 /\ j + 1 = h + n
        BY <4>3, Down
      <4>5. QED
        BY <4>2, <4>4
    <3>2. buf[j - c.count] = before[j + 1]
      BY <1>2
    <3>3. ~(i <= c.index)
      BY <1>1, <2>1, <2>3
    <3>4. QED
      BY <2>1, <3>1, <3>2, <3>3
  <2>4. QED
    BY <1>1, <2>1, <2>2, <2>3
<1>6. new = SubSeq(before, 1, c.index) \o SubSeq(before, c.index + c.count + 1, Len(before))
  <2>1. /\ before \in Seq(Data) /\ new \in Seq(Data) /\ c.index \in Nat /\ c.count \in Nat
        /\ c.index + c.count <= Len(before) /\ Len(new) = Len(before) - c.count
    <3>1. Len(before) = item_count /\ Len(new) = item_count - c.count
      BY <1>2, <1>4
    <3>2. QED
      BY <1>1, <1>2, <1>4, <3>1
  <2>2. QED
    BY <1>5, <2>1, Cut
<1>7. dst[t] = L!Out(c, SubSeq(before, c.index + 1, c.index + c.count))
  <2>1. Len(dst[t]) = at[t] /\ \A j \in 1 .. at[t] : dst[t][j] = before[c.index + j]
    BY <1>2 DEF CopiedOut
  <2>2. dst[t] \in Seq(Data)
    BY DEF Inv, Typed, TypeOK
  <2>3. CASE c.mem = NULL
    <3>1. Len(dst[t]) = 0
      BY <1>2, <2>1, <2>3
    <3>2. dst[t] = <<>>
      BY <2>2, <3>1
    <3>3. QED
      BY <2>3, <3>2 DEF L!Out
  <2>4. CASE c.mem # NULL
    <3>1. at[t] = c.count
      BY <1>2, <2>4
    <3>2. /\ before \in Seq(Data) /\ c.index \in Nat /\ c.count \in Nat
          /\ c.index + c.count <= Len(before)
      BY <1>1, <1>2
    <3>4. Len(dst[t]) = c.count /\ \A j \in 1 .. c.count : dst[t][j] = before[c.index + j]
      BY <2>1, <3>1
    <3>5. dst[t] = SubSeq(before, c.index + 1, c.index + c.count)
      BY <2>2, <3>2, <3>4, Part
    <3>6. QED
      BY <2>4, <3>5 DEF L!Out
  <2>5. QED
    BY <2>3, <2>4
<1>8. Seen' = L!Upto(c.index) \o L!Behind(c.index + c.count) /\ c.index + c.count <= Len(Seen)
  BY <1>1, <1>2, <1>4, <1>6 DEF L!Upto, L!Behind, Seen
<1>9. QED
  BY <1>2, <1>7, <1>8 DEF L!Remove, L!Return, Seen

LEMMA PopBackSimulation ==
  ASSUME NEW bound \in Nat, Small(bound), Inv(bound), NEW t \in Threads,
         outcome = "running", Leave(t), call[t].op = "pop_back"
  PROVE  L!PopBack(t)
<1> DEFINE c == call[t]
<1>1. /\ c \in Calls /\ c.count \in Nat /\ c.count # 0
      /\ item_count \in Nat /\ item_count <= c.count
  <2>1. c \in Calls /\ ~Refused(c) /\ c.count # 0
    BY Holder DEF Leave, Inside
  <2>2. /\ item_count \in Nat /\ c.count \in Nat
        /\ ~(item_count > c.count)
    BY <2>1, Sizes DEF Inv
  <2>3. QED
    BY <2>1, <2>2
<1>2. /\ Seen = before /\ before \in Seq(Data) /\ Len(before) = item_count
      /\ L!Return(t, "success", dst[t])
      /\ Same(item_count) /\ CopiedOut(t, 0) /\ (at[t] # 0 => item_count = c.count)
      /\ IF c.mem = NULL THEN at[t] = 0 ELSE at[t] = c.count
  BY Left DEF Progress, Popping
<1>3. PICK new : new = Items'
  OBVIOUS
<1>4. /\ Seen' = new /\ new \in Seq(Data) /\ Len(new) = item_count + c.count
      /\ \A i \in 1 .. item_count + c.count : new[i] = IF i <= NumItems THEN buf[i - 1] ELSE Junk
  <2>1. item_count' = item_count + c.count
    BY CountsStep
  <2>2. QED
    BY <1>3, <2>1, Left DEF ItemsOK
<1> DEFINE s == [k \in 1 .. c.count |-> new[item_count + k]]
<1>5. \A k \in 1 .. c.count : new[item_count + k] \in Data
  <2>1. \A k \in 1 .. c.count : item_count + k \in 1 .. item_count + c.count
    BY <1>1
  <2>2. \A i \in 1 .. item_count + c.count : new[i] \in Data
    BY <1>4
  <2>3. QED
    BY <2>1, <2>2
<1>6. s \in [1 .. c.count -> Data]
  BY <1>5
<1>a. \A k \in 1 .. c.count : s[k] = new[item_count + k]
  OBVIOUS
<1> HIDE DEF s
<1>7. s \in Seq(Data) /\ Len(s) = c.count /\ \A k \in 1 .. c.count : s[k] = new[item_count + k]
  <2>1. c.count \in Nat
    BY <1>1
  <2>2. s \in Seq(Data) /\ Len(s) = c.count
    BY <1>6, <2>1
  <2>3. QED
    BY <1>a, <2>2
<1>8. ASSUME NEW i \in 1 .. Len(new)
      PROVE  new[i] = IF i <= Len(before) THEN before[i] ELSE s[i - Len(before)]
  <2>1. i \in Nat /\ i >= 1 /\ i <= item_count + c.count /\ i \in 1 .. item_count + c.count
    BY <1>1, <1>4
  <2>2. CASE i <= item_count
    <3>1. i \in 1 .. item_count
      BY <1>1, <2>1, <2>2
    <3>2. new[i] = before[i]
      BY <1>2, <1>4, <2>1, <3>1 DEF Same
    <3>3. QED
      BY <1>2, <2>2, <3>2
  <2>3. CASE i > item_count
    <3>1. PICK k \in 1 .. c.count : k = i - item_count /\ item_count + k = i
      <4>1. i - item_count \in 1 .. c.count /\ item_count + (i - item_count) = i
        BY <1>1, <2>1, <2>3
      <4>2. QED
        BY <4>1
    <3>2. s[k] = new[item_count + k]
      BY <1>7
    <3>3. ~(i <= item_count)
      BY <1>1, <2>1, <2>3
    <3>4. QED
      BY <1>2, <3>1, <3>2, <3>3
  <2>4. QED
    BY <1>1, <2>1, <2>2, <2>3
<1>9. new = before \o s
  <2>1. Len(new) = Len(before) + Len(s)
    BY <1>2, <1>4, <1>7
  <2>2. QED
    BY <1>2, <1>4, <1>7, <1>8, <2>1, Two
<1>10. /\ c.count = Len(Seen) \/ (c.count > Len(Seen) /\ c.mem = NULL)
       /\ dst[t] = L!Out(c, before)
  <2>1. Len(dst[t]) = at[t] /\ (\A j \in 1 .. at[t] : dst[t][j] = before[0 + j]) /\ dst[t] \in Seq(Data)
    BY <1>2 DEF CopiedOut, Inv, Typed, TypeOK
  <2>2. CASE c.mem = NULL
    <3>1. Len(dst[t]) = 0
      BY <1>2, <2>1, <2>2
    <3>2. dst[t] = <<>>
      BY <2>1, <3>1
    <3>3. QED
      BY <1>1, <1>2, <2>2, <3>2 DEF L!Out
  <2>3. CASE c.mem # NULL
    <3>1. at[t] = c.count /\ item_count = c.count
      BY <1>1, <1>2, <2>3
    <3>2. Len(dst[t]) = Len(before) /\ \A j \in 1 .. Len(before) : dst[t][j] = before[j]
      BY <1>1, <1>2, <2>1, <3>1
    <3>3. dst[t] = before
      BY <1>2, <2>1, <3>2
    <3>4. QED
      BY <1>2, <2>3, <3>1, <3>3 DEF L!Out
  <2>4. QED
    BY <2>2, <2>3
<1>11. QED
  <2>1. Seen' = Seen \o s
    BY <1>2, <1>4, <1>9
  <2>2. L!Return(t, "success", L!Out(c, Seen))
    BY <1>2, <1>10 DEF L!Return
  <2>3. QED
    BY <1>6, <1>10, <2>1, <2>2 DEF L!PopBack, Seen

(* The other steps inside the lock are not seen: what others know of the   *)
(* list is what it was before.                                             *)
LEMMA HiddenSteps ==
  ASSUME NEW bound \in Nat, Small(bound), Inv(bound), NEW t \in Threads,
         Begin(t) \/ Copy(t) \/ CopyNothing(t) \/ Move(t)
  PROVE  UNCHANGED L!vars
<1> DEFINE answer == [s \in Threads |-> IF pc[s] = "idle" THEN [ret |-> ret[s], items |-> dst[s]]
                                                         ELSE NULL]
<1>1. /\ call' = call /\ ret' = ret
      /\ \A s \in Threads \ {t} : pc'[s] = pc[s] /\ dst'[s] = dst[s]
      /\ pc[t] # "idle" /\ pc'[t] # "idle"
  BY DEF Begin, Copy, CopyNothing, Move, Goto, listVars, AfterCopy, Inv, Typed, TypeOK
<1>2. UNCHANGED Seen
  <2>1. CASE Begin(t)
    BY <2>1, NullAssumption DEF Begin, MayLock, Seen
  <2>2. CASE Copy(t) \/ CopyNothing(t) \/ Move(t)
    <3>1. pc[t] \in Inside /\ UNCHANGED <<rwlock, before>>
      BY <2>2 DEF Copy, CopyNothing, Move, Inside, listVars
    <3>2. rwlock = t
      BY <3>1, Holder
    <3>3. QED
      BY <3>1, <3>2, NullAssumption DEF Seen
  <2>3. QED
    BY <2>1, <2>2
<1>3. \A s \in Threads :
         (IF pc'[s] = "idle" THEN [ret |-> ret'[s], items |-> dst'[s]] ELSE NULL) = answer[s]
  BY <1>1
<1>4. answer' = answer
  BY <1>3
<1>5. QED
  BY <1>1, <1>2, <1>4 DEF L!vars, Seen

LEMMA ListInit == Init => L!Init
<1> SUFFICES ASSUME Init PROVE L!Init
  OBVIOUS
<1>1. Items = <<>>
  BY DEF Init, Items
<1>2. QED
  BY <1>1 DEF Init, L!Init

LEMMA ListStep ==
  ASSUME NEW bound \in Nat, Small(bound)
  PROVE  Inv(bound) /\ [Next]_vars => [L!Next]_(L!vars)
<1> SUFFICES ASSUME Inv(bound), [Next]_vars PROVE [L!Next]_(L!vars)
  OBVIOUS
<1>1. CASE UNCHANGED vars
  BY <1>1 DEF vars, listVars, L!vars, Items
<1>2. ASSUME NEW t \in Threads, NEW c \in Calls, Call(t, c) PROVE L!Next
  BY <1>2, CallSimulation DEF L!Next, Inv
<1>3. ASSUME NEW t \in Threads, Skip(t) \/ Refuse(t) PROVE L!Next
  BY <1>3, SkipSimulation, RefuseSimulation DEF L!Next, L!Finish, Inv
<1>4. ASSUME NEW t \in Threads, Begin(t) \/ Copy(t) \/ CopyNothing(t) \/ Move(t)
      PROVE  UNCHANGED L!vars
  BY <1>4, HiddenSteps
<1>5. ASSUME NEW t \in Threads, outcome = "running", Leave(t) PROVE L!Next
  <2>1. call[t] # NULL /\ call[t].op \in {"push_back", "pop_back", "insert", "remove"}
    BY <1>5, Left, CallFields
  <2>2. L!Put(t) \/ L!Remove(t) \/ L!PopBack(t)
    BY <1>5, <2>1, PutSimulation, RemoveSimulation, PopBackSimulation
  <2>3. QED
    BY <2>1, <2>2 DEF L!Next, L!Finish
<1>6. QED
  BY <1>1, <1>2, <1>3, <1>4, <1>5 DEF Next

(* The calls of arraylist.c that return take effect one at a time, between *)
(* the call and its return, and do to the list what List says: its rwlock, *)
(* the order of copies and memmove, and the places they come to are right  *)
(* for every size of the buffer and every calls that are small.            *)
THEOREM ListCorrect ==
  ASSUME SmallCalls
  PROVE  Spec => ListSpec
<1>1. PICK bound \in Nat : Small(bound)
  BY DEF SmallCalls
<1>2. Spec => []Inv(bound)
  BY <1>1, Invariance
<1>3. Init => L!Init
  BY ListInit
<1>4. Inv(bound) /\ [Next]_vars => [L!Next]_(L!vars)
  BY <1>1, ListStep
<1>5. QED
  BY <1>2, <1>3, <1>4, PTL DEF Spec, ListSpec, L!Spec
=============================================================================
