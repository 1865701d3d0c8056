------------------------------ MODULE Swapchain -----------------------------
(***************************************************************************)
(* src/swapchain.c: links that hold the versions of one datum, chained     *)
(* from the oldest to the newest.  A writer takes the oldest link out of   *)
(* the chain, fills it and appends it as the newest; readers read the      *)
(* newest, or go from one link to the next.  The clients are those of      *)
(* src/swapchainTests.c, in any number.                                    *)
(*                                                                         *)
(* Every lock of the code is here.  A critical section that only touches   *)
(* what its locks protect is one step, taken when its last lock is.  The   *)
(* pthread rwlocks prefer readers, as they do by default.  read_close's    *)
(* broadcast of done_read_cond is left out, since nobody waits on it: in   *)
(* write_back, lines 127-141 follow a break that the first EBUSY takes.    *)
(***************************************************************************)
EXTENDS Naturals, Sequences

CONSTANTS
  Writers,    \* the threads that write
  Readers,    \* the threads that read
  NumLinks,   \* how many links fit in the backing buffer
  MaxWrites,  \* bound: how many versions are written
  FrontOnly,  \* whether readers use read_front only, never read_next
  NULL        \* nobody, or no link

ASSUME LinksAssumption == NumLinks \in Nat \ {0} /\ FrontOnly \in BOOLEAN
ASSUME NullAssumption == NULL \notin Writers \cup Readers \cup Nat
ASSUME RolesAssumption == Writers \cap Readers = {}

Links == 1 .. NumLinks
Threads == Writers \cup Readers

VARIABLES
  oldest, newest,  \* the ends of the chain
  newer,           \* link |-> the next newer one, or NULL
  oldest_rwlock,   \* the thread that holds the mutex on oldest
  newer_rwlock,    \* link |-> the thread that holds the mutex on its newer
  newest_w, newest_r,  \* newest_rwlock: the writer, and the readers, that hold it
  data_w, data_r,      \* link |-> the same of its data_rwlock
  first, second,   \* link |-> the two halves of its data, as versions
  pc,              \* thread |-> where it is
  link,            \* thread |-> its link_ptr
  got,             \* reader |-> the halves it has read
  floor,           \* reader |-> the version published when it called read_front,
                   \* or read before it called read_next (history)
  published,       \* the version last published (history)
  writes,          \* how many versions have been started
  crashed          \* the program has dereferenced NULL

locks == <<oldest_rwlock, newer_rwlock, newest_w, newest_r, data_w, data_r>>
chain == <<oldest, newest, newer>>
data == <<first, second, writes>>
readerVars == <<got, floor>>
vars == <<chain, locks, data, readerVars, pc, link, published, crashed>>

At(t, p) == ~crashed /\ pc[t] = p
Goto(t, p) == pc' = [pc EXCEPT ![t] = p]

(* swapchain_init chains the links in the order of their addresses. *)
Init ==
  /\ oldest = 1 /\ newest = NumLinks
  /\ newer = [l \in Links |-> IF l < NumLinks THEN l + 1 ELSE NULL]
  /\ oldest_rwlock = NULL /\ newer_rwlock = [l \in Links |-> NULL]
  /\ newest_w = NULL /\ newest_r = {}
  /\ data_w = [l \in Links |-> NULL] /\ data_r = [l \in Links |-> {}]
  /\ first = [l \in Links |-> 0] /\ second = [l \in Links |-> 0] /\ writes = 0
  /\ got = [r \in Readers |-> <<>>] /\ floor = [r \in Readers |-> 0]
  /\ pc = [t \in Threads |-> "idle"] /\ link = [t \in Threads |-> NULL]
  /\ published = 0
  /\ crashed = FALSE

-----------------------------------------------------------------------------
(* Plausible slips of this code, named so that every property can be shown *)
(* to notice one.                                                          *)

(* trywrlock only minds other writers. *)
SlipIgnoreReaders(l) == data_w[l] = NULL

(* write_back does not end the chain at the link it takes. *)
SlipKeepNewer(l) == newer

(* write_close leaves the data locked. *)
SlipStayLocked(w) ==
  /\ At(w, "written")
  /\ Goto(w, "publish")
  /\ UNCHANGED <<chain, locks, data, readerVars, link, published, crashed>>

(* write_close does not look whether the chain was empty. *)
SlipStayEmpty(w) ==
  /\ At(w, "closing")
  /\ oldest_rwlock = NULL
  /\ Goto(w, "idle") /\ link' = [link EXCEPT ![w] = NULL]
  /\ UNCHANGED <<chain, locks, data, readerVars, published, crashed>>

(* It moves newest on along newer instead of to the new link. *)
SlipAdvance(w) ==
  /\ At(w, "link")
  /\ newest' = newer[newest] /\ newest_w' = NULL
  /\ published' = first[link[w]]
  /\ Goto(w, "closing")
  /\ UNCHANGED <<oldest, newer, oldest_rwlock, newer_rwlock, newest_r, data_w, data_r,
                 data, readerVars, link, crashed>>

(* read_front opens the other end of the chain. *)
SlipBack == oldest

-----------------------------------------------------------------------------
(* write_back called without a link, or going on after it has closed one. *)
WriteBack(w) ==
  /\ At(w, "idle") /\ writes < MaxWrites
  /\ Goto(w, "take")
  /\ UNCHANGED <<chain, locks, data, readerVars, link, published, crashed>>

(* pthread_rwlock_trywrlock would not say EBUSY. *)
Free(l) == data_w[l] = NULL /\ data_r[l] = {}

(* Lock oldest_rwlock and try to write-lock the oldest link.  On EBUSY,    *)
(* write_back returns with oldest_rwlock locked; its caller gives up.      *)
Take(w) ==
  /\ At(w, "take")
  /\ oldest_rwlock = NULL
  /\ oldest_rwlock' = w
  /\ \/ /\ oldest = NULL
        /\ crashed' = TRUE
        /\ UNCHANGED <<pc, data_w>>
     \/ /\ oldest # NULL
        /\ Free(oldest)
        /\ data_w' = [data_w EXCEPT ![oldest] = w]
        /\ Goto(w, "taking")
        /\ UNCHANGED crashed
     \/ /\ oldest # NULL
        /\ ~Free(oldest)
        /\ Goto(w, "quit")
        /\ UNCHANGED <<data_w, crashed>>
  /\ UNCHANGED <<chain, newer_rwlock, newest_w, newest_r, data_r, data, readerVars,
                 link, published>>

(* The chain's links to newer ones without l. *)
Unlinked(l) == [newer EXCEPT ![l] = NULL]

(* Lock newer_rwlock of the link, take the link out of the chain. *)
Taking(w) ==
  /\ At(w, "taking")
  /\ newer_rwlock[oldest] = NULL
  /\ oldest' = newer[oldest]
  /\ newer' = Unlinked(oldest)
  /\ oldest_rwlock' = NULL
  /\ link' = [link EXCEPT ![w] = oldest]
  /\ Goto(w, "write")
  /\ UNCHANGED <<newest, newer_rwlock, newest_w, newest_r, data_w, data_r, data,
                 readerVars, published, crashed>>

(* The client fills the link, buffer[0] and then buffer[1]. *)
WriteFirst(w) ==
  /\ At(w, "write")
  /\ writes' = writes + 1
  /\ first' = [first EXCEPT ![link[w]] = writes + 1]
  /\ Goto(w, "writing")
  /\ UNCHANGED <<chain, locks, second, readerVars, link, published, crashed>>

WriteSecond(w) ==
  /\ At(w, "writing")
  /\ second' = [second EXCEPT ![link[w]] = first[link[w]]]
  /\ Goto(w, "written")
  /\ UNCHANGED <<chain, locks, first, writes, readerVars, link, published, crashed>>

(* write_close, called by the client or by write_back: unlock the data, *)
WriteClose(w) ==
  /\ At(w, "written")
  /\ data_w' = [data_w EXCEPT ![link[w]] = NULL]
  /\ Goto(w, "publish")
  /\ UNCHANGED <<chain, oldest_rwlock, newer_rwlock, newest_w, newest_r, data_r, data,
                 readerVars, link, published, crashed>>

(* write-lock newest_rwlock, *)
Publish(w) ==
  /\ At(w, "publish")
  /\ newest_w = NULL /\ newest_r = {}
  /\ newest_w' = w
  /\ Goto(w, "link")
  /\ UNCHANGED <<chain, oldest_rwlock, newer_rwlock, newest_r, data_w, data_r, data,
                 readerVars, link, published, crashed>>

(* append the link behind the newest one, under that one's newer_rwlock,   *)
(* and unlock newest_rwlock (newest is never NULL once initialised),       *)
Link(w) ==
  /\ At(w, "link")
  /\ newer_rwlock[newest] = NULL
  /\ newer' = [newer EXCEPT ![newest] = link[w]]
  /\ newest' = link[w]
  /\ newest_w' = NULL
  /\ published' = first[link[w]]
  /\ Goto(w, "closing")
  /\ UNCHANGED <<oldest, oldest_rwlock, newer_rwlock, newest_r, data_w, data_r, data,
                 readerVars, link, crashed>>

(* make it the oldest when there was none.  Then write_close returns to    *)
(* its client, which forgets the link, or to write_back.                   *)
WriteClosed(w) ==
  /\ At(w, "closing")
  /\ oldest_rwlock = NULL
  /\ oldest' = IF oldest = NULL THEN link[w] ELSE oldest
  /\ \/ Goto(w, "idle") /\ link' = [link EXCEPT ![w] = NULL]
     \/ Goto(w, "take") /\ writes < MaxWrites /\ UNCHANGED link
  /\ UNCHANGED <<newest, newer, locks, data, readerVars, published, crashed>>

-----------------------------------------------------------------------------
(* A reader starts read_front. *)
ReadFront(r) ==
  /\ At(r, "idle")
  /\ Goto(r, "front")
  /\ floor' = [floor EXCEPT ![r] = published]
  /\ UNCHANGED <<chain, locks, data, got, link, published, crashed>>

(* Read-lock newest_rwlock, *)
FrontLock(r) ==
  /\ At(r, "front")
  /\ newest_w = NULL
  /\ newest_r' = newest_r \cup {r}
  /\ Goto(r, "fronting")
  /\ UNCHANGED <<chain, oldest_rwlock, newer_rwlock, newest_w, data_w, data_r, data,
                 readerVars, link, published, crashed>>

(* Reader r gets the read lock of link l. *)
Open(r, l) ==
  /\ data_w[l] = NULL
  /\ data_r' = [data_r EXCEPT ![l] = @ \cup {r}]
  /\ link' = [link EXCEPT ![r] = l]
  /\ got' = [got EXCEPT ![r] = <<>>]
  /\ Goto(r, "reading")

(* The link read_front opens. *)
Front == newest

(* then its data, and unlock newest_rwlock. *)
FrontOpen(r) ==
  /\ At(r, "fronting")
  /\ Open(r, Front)
  /\ newest_r' = newest_r \ {r}
  /\ UNCHANGED <<chain, oldest_rwlock, newer_rwlock, newest_w, data_w, data, floor,
                 published, crashed>>

(* The client reads the two halves. *)
Read(r) ==
  /\ At(r, "reading")
  /\ \/ got[r] = <<>> /\ got' = [got EXCEPT ![r] = <<first[link[r]]>>]
     \/ Len(got[r]) = 1 /\ got' = [got EXCEPT ![r] = Append(@, second[link[r]])]
  /\ UNCHANGED <<chain, locks, data, floor, pc, link, published, crashed>>

(* read_close, called by a client, which then forgets the link, or by      *)
(* read_front, or by read_next, which goes on with the link.               *)
ReadClose(r) ==
  /\ At(r, "reading") /\ Len(got[r]) = 2
  /\ data_r' = [data_r EXCEPT ![link[r]] = @ \ {r}]
  /\ got' = [got EXCEPT ![r] = <<>>]
  /\ \/ /\ Goto(r, "idle")
        /\ link' = [link EXCEPT ![r] = NULL]
        /\ UNCHANGED floor
     \/ /\ ~FrontOnly
        /\ Goto(r, "next")
        /\ UNCHANGED link
        /\ floor' = [floor EXCEPT ![r] = first[link[r]]]
  /\ UNCHANGED <<chain, oldest_rwlock, newer_rwlock, newest_w, newest_r, data_w, data,
                 published, crashed>>

(* read_next locks newer_rwlock of its former link, *)
NextLock(r) ==
  /\ At(r, "next")
  /\ newer_rwlock[link[r]] = NULL
  /\ newer_rwlock' = [newer_rwlock EXCEPT ![link[r]] = r]
  /\ Goto(r, "nexting")
  /\ UNCHANGED <<chain, oldest_rwlock, newest_w, newest_r, data_w, data_r, data,
                 readerVars, link, published, crashed>>

(* and opens the newer link, if any; it does not check that there is one. *)
NextOpen(r) ==
  /\ At(r, "nexting")
  /\ LET l == newer[link[r]] IN
     \/ /\ l = NULL
        /\ crashed' = TRUE
        /\ UNCHANGED <<newer_rwlock, data_r, link, got, pc>>
     \/ /\ l # NULL
        /\ Open(r, l)
        /\ newer_rwlock' = [newer_rwlock EXCEPT ![link[r]] = NULL]
        /\ UNCHANGED crashed
  /\ UNCHANGED <<chain, oldest_rwlock, newest_w, newest_r, data_w, data, floor, published>>

-----------------------------------------------------------------------------
WriterStep(w) ==
  Take(w) \/ Taking(w) \/ WriteFirst(w) \/ WriteSecond(w) \/ WriteClose(w)
    \/ Publish(w) \/ Link(w) \/ WriteClosed(w)

ReaderStep(r) ==
  FrontLock(r) \/ FrontOpen(r) \/ Read(r) \/ ReadClose(r) \/ NextLock(r) \/ NextOpen(r)

Next ==
  \/ \E w \in Writers : WriteBack(w) \/ WriterStep(w)
  \/ \E r \in Readers : ReadFront(r) \/ ReaderStep(r)

Spec == Init /\ [][Next]_vars

(* A thread inside a call keeps running; it need not make another.  A      *)
(* reader that waits for newest_rwlock gets it in the end, however often a *)
(* writer takes it in between: a pthread rwlock that prefers readers is    *)
(* handed over to those that wait when its writer unlocks it.              *)
Fairness ==
  /\ \A w \in Writers : WF_vars(WriterStep(w))
  /\ \A r \in Readers : WF_vars(ReaderStep(r)) /\ SF_vars(FrontLock(r))

-----------------------------------------------------------------------------
Maybe(S) == S \cup {NULL}

TypeOK ==
  /\ oldest \in Maybe(Links) /\ newest \in Links
  /\ newer \in [Links -> Maybe(Links)]
  /\ oldest_rwlock \in Maybe(Writers)
  /\ newer_rwlock \in [Links -> Maybe(Readers)]
  /\ newest_w \in Maybe(Writers) /\ newest_r \subseteq Readers
  /\ data_w \in [Links -> Maybe(Writers)] /\ data_r \in [Links -> SUBSET Readers]
  /\ first \in [Links -> Nat] /\ second \in [Links -> Nat] /\ writes \in Nat
  /\ published \in Nat /\ floor \in [Readers -> Nat]
  /\ got \in [Readers -> Seq(Nat)]
  /\ pc \in [Threads -> {"idle", "take", "taking", "quit", "write", "writing", "written",
                         "publish", "link", "closing", "front", "fronting", "reading",
                         "next", "nexting"}]
  /\ link \in [Threads -> Maybe(Links)]
  /\ crashed \in BOOLEAN

(* No reader sees half of one version and half of another, however many    *)
(* readers and writers there are and whatever becomes of the chain.        *)
NoTornRead == \A r \in Readers : Len(got[r]) = 2 => got[r][1] = got[r][2]

(* The links a writer has taken and not yet put back. *)
InHand == {link[w] : w \in {v \in Writers : pc[v] \in {"write", "writing", "written",
                                                       "publish", "link"}}}

(* The links no writer has in hand form one chain from oldest to newest,   *)
(* without a gap or a cycle and each version newer than the one before:    *)
(* no link is ever lost, and a writer always takes the oldest version.     *)
ChainOK ==
  LET n == NumLinks - (IF InHand = {} THEN 0 ELSE 1) IN
  \E s \in [1 .. n -> Links \ InHand] :
    /\ \A i, j \in 1 .. n : s[i] = s[j] => i = j
    /\ s[1] = oldest /\ s[n] = newest /\ newer[newest] = NULL
    /\ \A i \in 1 .. n - 1 : /\ newer[s[i]] = s[i + 1]
                             /\ first[s[i]] < first[s[i + 1]] \/ first[s[i]] = 0

(* No reader goes back in time: read_front opens a version at least as new *)
(* as the one published when it was called, and read_next one at least as  *)
(* new as the one its reader comes from, though that link was unlocked in  *)
(* between and may have been recycled.                                     *)
Fresh == \A r \in Readers : pc[r] = "reading" => first[link[r]] >= floor[r]

(* As long as one thread writes and the others read the front, nobody      *)
(* dereferences NULL, though write_back takes oldest as it finds it: even  *)
(* a chain of one link, empty while it is written, is never empty when     *)
(* write_back looks.                                                       *)
NoCrash == ~crashed

(* read_front returns, though the writer may write for ever and take       *)
(* newest_rwlock and the data of the only link again and again, and also   *)
(* when write_back has given up for good with oldest_rwlock locked.        *)
ReadsReturn ==
  \A r \in Readers : pc[r] \in {"front", "fronting"} ~> pc[r] \notin {"front", "fronting"}

(* The writing thread of swapchainTests.c runs until it is told to stop.   *)
WritersKeepWriting == \A w \in Writers : pc[w] # "quit"
=============================================================================
