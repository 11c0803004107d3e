------------------------------ MODULE SkipList ------------------------------
(***************************************************************************)
(* The lock-free skiplist memtable of src/skl/mod.rs: SkipList::put        *)
(* (_put) run concurrently by several threads over one shared arena.       *)
(*                                                                         *)
(* The arena is a sequence of nodes; a node's offset is its index, offset  *)
(* 0 is the null sentinel and offset 1 is the head node that              *)
(* SkipList::new allocates first.  Keys are the naturals 1..; the head's   *)
(* empty key is 0, which sorts before every key as b"" does.               *)
(*                                                                         *)
(* Every atomic access of the code (a tower load, a tower CAS, the height  *)
(* load and CAS, the value store) is its own step.  Steps that touch only  *)
(* thread-local data or a node not yet published are folded into the      *)
(* neighbouring atomic step.  A panic (failed unwrap or assert) stops the  *)
(* panicking thread; the other threads go on.                              *)
(***************************************************************************)
EXTENDS Naturals, Sequences, FiniteSets, Functions

CONSTANTS
  Threads,     \* writer threads calling SkipList::put
  Keys,        \* keys, a set of positive naturals ordered like their bytes
  Vals,        \* values (ValueStruct payloads)
  NoVal,       \* ValueStruct::default(), the head's value
  MaxHeight,   \* MAX_HEIGHT, lowered from 20 to keep towers small
  MaxPuts,     \* puts each thread performs
  Readers,     \* reader threads calling SkipList::get
  MaxGets      \* gets each reader performs

ASSUME Keys \subseteq Nat \ {0}
ASSUME NoVal \notin Vals
ASSUME MaxHeight \in Nat \ {0}
ASSUME MaxPuts \in Nat

Null == 0
HeadNode == 1
Levels == 0 .. MaxHeight - 1

VARIABLES
  arena,    \* the nodes allocated so far, indexed by offset
  height,   \* SkipList.height
  pc,       \* where each thread is in _put
  pkey,     \* the key and value of each thread's current put
  pval,
  lh,       \* the thread's local list_height
  prev,     \* prev[0..MaxHeight] of _put
  next,     \* next[0..MaxHeight] of _put
  lvl,      \* the level i the thread is working on
  cur,      \* the `before` cursor of find_splice_for_level
  x,        \* offset of the node the thread allocated
  h,        \* its random height
  puts,     \* number of puts each thread has started
  panicAt,  \* the source line of each thread's panic, 0 if none
  done,     \* history: <<key, value>> of every put that returned
  overlap,  \* history: threads whose put of the same key overlapped
  rpc,      \* where each reader is in get: idle, near (find_near), value
  rkey,     \* the key of the reader's current get
  rx,       \* find_near's x
  rlevel,   \* find_near's level
  gets,     \* number of gets each reader has started
  got       \* the answer of the reader's last get, NoVal for None

thread == <<pc, pkey, pval, lh, prev, next, lvl, cur, x, h, puts, panicAt>>
reader == <<rpc, rkey, rx, rlevel, gets, got>>
vars == <<arena, height, thread, done, overlap, reader>>

Node == [key: {0} \cup Keys, height: 1 .. MaxHeight, value: Vals \cup {NoVal},
         tower: [Levels -> Nat]]

NewNode(k, v, ht) == [key |-> k, height |-> ht, value |-> v,
                      tower |-> [l \in Levels |-> Null]]

Tower(n, l) == arena[n].tower[l]
KeyOf(n) == arena[n].key

Busy(t) == pc[t] \notin {"idle", "panicked"}

(* find_splice_for_level's `key.cmp(next_key)` is Less: the splice ends   *)
(* before node n.                                                          *)
SpliceBeforeMutant(k, n) == k <= KeyOf(n)
SpliceBefore(k, n) == k < KeyOf(n)

(* Node::cas_next_offset: compare_exchange of tower[i] succeeds when it    *)
(* still holds the expected offset.                                        *)
CasTowerMutant(p, i, old) == TRUE
CasTower(p, i, old) == Tower(p, i) = old

-----------------------------------------------------------------------------
(* SkipList::new: the head node of full height, height 1.                  *)
Init ==
  /\ arena = << NewNode(0, NoVal, MaxHeight) >>
  /\ height = 1
  /\ pc = [t \in Threads |-> "idle"]
  /\ pkey = [t \in Threads |-> CHOOSE k \in Keys : TRUE]
  /\ pval = [t \in Threads |-> CHOOSE v \in Vals : TRUE]
  /\ lh = [t \in Threads |-> 1]
  /\ prev = [t \in Threads |-> [l \in 0 .. MaxHeight |-> Null]]
  /\ next = [t \in Threads |-> [l \in 0 .. MaxHeight |-> Null]]
  /\ lvl = [t \in Threads |-> 0]
  /\ cur = [t \in Threads |-> HeadNode]
  /\ x = [t \in Threads |-> Null]
  /\ h = [t \in Threads |-> 1]
  /\ puts = [t \in Threads |-> 0]
  /\ panicAt = [t \in Threads |-> 0]
  /\ done = {}
  /\ overlap = [t \in Threads |-> {}]
  /\ rpc = [r \in Readers |-> "idle"]
  /\ rkey = [r \in Readers |-> CHOOSE k \in Keys : TRUE]
  /\ rx = [r \in Readers |-> HeadNode]
  /\ rlevel = [r \in Readers |-> 0]
  /\ gets = [r \in Readers |-> 0]
  /\ got = [r \in Readers |-> NoVal]

(* The locals of _put are dead once it returns or panics; they are set   *)
(* back to their initial values so that finished puts do not multiply the *)
(* states.                                                                 *)
locals == <<lh, prev, next, lvl, cur, x, h>>

Forget(t) ==
  /\ lh' = [lh EXCEPT ![t] = 1]
  /\ prev' = [prev EXCEPT ![t] = [l \in 0 .. MaxHeight |-> Null]]
  /\ next' = [next EXCEPT ![t] = [l \in 0 .. MaxHeight |-> Null]]
  /\ lvl' = [lvl EXCEPT ![t] = 0]
  /\ cur' = [cur EXCEPT ![t] = HeadNode]
  /\ x' = [x EXCEPT ![t] = Null]
  /\ h' = [h EXCEPT ![t] = 1]

Panic(t, line) ==
  /\ pc' = [pc EXCEPT ![t] = "panicked"]
  /\ panicAt' = [panicAt EXCEPT ![t] = line]
  /\ Forget(t)
  /\ UNCHANGED done

Return(t) ==
  /\ pc' = [pc EXCEPT ![t] = "idle"]
  /\ done' = done \cup {<<pkey[t], pval[t]>>}
  /\ Forget(t)
  /\ UNCHANGED panicAt

(* _put, lines 352-355: a splice collapsed to an equal key calls          *)
(* set_value on prev[i], which is still null: the unwrap panics.           *)
OverwriteFoundMutant(t) == Return(t)
OverwriteFound(t) == Panic(t, 353)

(* put -> _put entry: read list_height, prev[list_height] = head.          *)
Start(t) ==
  /\ pc[t] = "idle"
  /\ puts[t] < MaxPuts
  /\ \E k \in Keys, v \in Vals :
       LET rivals == {u \in Threads : Busy(u) /\ pkey[u] = k}
       IN /\ pkey' = [pkey EXCEPT ![t] = k]
          /\ pval' = [pval EXCEPT ![t] = v]
          /\ overlap' = [u \in Threads |->
                           IF u = t THEN rivals
                           ELSE IF u \in rivals THEN overlap[u] \cup {t}
                           ELSE overlap[u]]
  /\ lh' = [lh EXCEPT ![t] = height]
  /\ prev' = [prev EXCEPT ![t] = [l \in 0 .. MaxHeight |->
                                    IF l = height THEN HeadNode ELSE Null]]
  /\ next' = [next EXCEPT ![t] = [l \in 0 .. MaxHeight |-> Null]]
  /\ lvl' = [lvl EXCEPT ![t] = height - 1]
  /\ cur' = [cur EXCEPT ![t] = HeadNode]
  /\ puts' = [puts EXCEPT ![t] = @ + 1]
  /\ pc' = [pc EXCEPT ![t] = "search"]
  /\ UNCHANGED <<arena, height, x, h, panicAt, done>>

(* One iteration of find_splice_for_level inside the search loop of _put,  *)
(* at level lvl from `before` = cur.  When the level's splice is found,    *)
(* prev/next are recorded and the loop descends, starting the next level   *)
(* from prev[i]; after level 0 the thread goes on to allocate.  An equal   *)
(* key reaches prev[i].as_ref().unwrap() while prev[i] is still null.      *)
Search(t) ==
  LET i == lvl[t]
      n == Tower(cur[t], i)
      Found(nx) ==
        /\ prev' = [prev EXCEPT ![t][i] = cur[t]]
        /\ next' = [next EXCEPT ![t][i] = nx]
        /\ IF i = 0
             THEN pc' = [pc EXCEPT ![t] = "alloc"] /\ lvl' = lvl
             ELSE lvl' = [lvl EXCEPT ![t] = i - 1] /\ pc' = pc
        /\ UNCHANGED <<lh, cur, x, h, panicAt, done>>
  IN
  /\ pc[t] = "search"
  /\ \/ n = Null /\ Found(Null)
     \/ n # Null /\ SpliceBefore(pkey[t], n) /\ Found(n)
     \/ n # Null /\ pkey[t] > KeyOf(n)
        /\ cur' = [cur EXCEPT ![t] = n]
        /\ UNCHANGED <<pc, lh, prev, next, lvl, x, h, panicAt, done>>
     \/ n # Null /\ pkey[t] = KeyOf(n) /\ prev[t][i] = Null
        /\ OverwriteFound(t)
  /\ UNCHANGED <<arena, height, pkey, pval, puts, overlap>>

(* random_height, Node::new (put_node, put_key, set_value on the fresh     *)
(* node) and the re-read of the list height.  The node is private to the  *)
(* thread until it is linked, so these form one step.                      *)
Alloc(t) ==
  /\ pc[t] = "alloc"
  /\ \E ht \in 1 .. MaxHeight :
       /\ arena' = Append(arena, NewNode(pkey[t], pval[t], ht))
       /\ h' = [h EXCEPT ![t] = ht]
  /\ x' = [x EXCEPT ![t] = Len(arena) + 1]
  /\ lh' = [lh EXCEPT ![t] = height]
  /\ pc' = [pc EXCEPT ![t] = "raise"]
  /\ UNCHANGED <<height, pkey, pval, prev, next, lvl, cur, puts, panicAt,
                 done, overlap>>

(* get_height after a failed height CAS refreshes list_height.            *)
RereadHeightMutant(t) == UNCHANGED lh
RereadHeight(t) == lh' = [lh EXCEPT ![t] = height]

(* The `while height > list_height` loop: compare_and_swap of the list    *)
(* height; on failure list_height is re-read.                              *)
Raise(t) ==
  /\ pc[t] = "raise"
  /\ \/ /\ h[t] <= lh[t]
        /\ pc' = [pc EXCEPT ![t] = "link"]
        /\ lvl' = [lvl EXCEPT ![t] = 0]
        /\ UNCHANGED <<height, lh>>
     \/ /\ h[t] > lh[t]
        /\ height = lh[t]
        /\ height' = h[t]
        /\ pc' = [pc EXCEPT ![t] = "link"]
        /\ lvl' = [lvl EXCEPT ![t] = 0]
        /\ UNCHANGED lh
     \/ /\ h[t] > lh[t]
        /\ height # lh[t]
        /\ RereadHeight(t)
        /\ UNCHANGED <<height, pc, lvl>>
  /\ UNCHANGED <<arena, pkey, pval, prev, next, cur, x, h, puts, panicAt,
                 done, overlap>>

(* After a successful tower CAS: the next level, or return after h-1.     *)
LinkedLevelMutant(t) ==
  IF lvl[t] + 1 > h[t]
    THEN Return(t)
    ELSE /\ lvl' = [lvl EXCEPT ![t] = lvl[t] + 1]
         /\ UNCHANGED <<pc, lh, prev, next, cur, x, h, panicAt, done>>
LinkedLevel(t) ==
  IF lvl[t] + 1 = h[t]
    THEN Return(t)
    ELSE /\ lvl' = [lvl EXCEPT ![t] = lvl[t] + 1]
         /\ UNCHANGED <<pc, lh, prev, next, cur, x, h, panicAt, done>>

(* After a failed tower CAS: recompute the splice from prev[i].           *)
RetrySpliceMutant(t, p) ==
  IF lvl[t] > 0 THEN LinkedLevel(t)
  ELSE /\ pc' = [pc EXCEPT ![t] = "resplice"]
       /\ cur' = [cur EXCEPT ![t] = p]
       /\ UNCHANGED <<lh, prev, next, lvl, x, h, panicAt, done>>
RetrySplice(t, p) ==
  /\ pc' = [pc EXCEPT ![t] = "resplice"]
  /\ cur' = [cur EXCEPT ![t] = p]
  /\ UNCHANGED <<lh, prev, next, lvl, x, h, panicAt, done>>

(* One pass of the linking loop at level i: a level above the old list     *)
(* height has no prev yet and is searched from the head; otherwise         *)
(* x.tower[i] is stored and prev[i].tower[i] is CASed from next[i] to x.   *)
(* Linking level h-1 ends the put.                                         *)
Link(t) ==
  LET i == lvl[t]
      p == prev[t][i]
  IN
  /\ pc[t] = "link"
  /\ \/ /\ p = Null
        /\ pc' = [pc EXCEPT ![t] = "hsplice"]
        /\ cur' = [cur EXCEPT ![t] = HeadNode]
        /\ UNCHANGED <<arena, lh, prev, next, lvl, x, h, panicAt, done>>
     \/ /\ p # Null
        /\ CasTower(p, i, next[t][i])
        /\ arena' = [arena EXCEPT ![x[t]].tower[i] = next[t][i],
                                  ![p].tower[i] = x[t]]
        /\ LinkedLevel(t)
     \/ /\ p # Null
        /\ ~CasTower(p, i, next[t][i])
        /\ arena' = [arena EXCEPT ![x[t]].tower[i] = next[t][i]]
        /\ RetrySplice(t, p)
  /\ UNCHANGED <<height, pkey, pval, puts, overlap>>

(* One iteration of find_splice_for_level from the head at a level the    *)
(* search did not cover.  The result's next is unwrapped (panics on end of *)
(* list).  The assert that prev differs from next (an equal key) cannot    *)
(* fire: only the node a put links on level 0 ever goes higher, and no    *)
(* other node of the key is on level 0 (LevelsSorted, TowerNested).        *)
HSplice(t) ==
  LET i == lvl[t]
      n == Tower(cur[t], i)
  IN
  /\ pc[t] = "hsplice"
  /\ \/ n = Null /\ Panic(t, 394)
     \/ n # Null /\ SpliceBefore(pkey[t], n)
        /\ prev' = [prev EXCEPT ![t][i] = cur[t]]
        /\ next' = [next EXCEPT ![t][i] = n]
        /\ pc' = [pc EXCEPT ![t] = "link"]
        /\ UNCHANGED <<lh, lvl, cur, x, h, panicAt, done>>
     \/ n # Null /\ pkey[t] > KeyOf(n)
        /\ cur' = [cur EXCEPT ![t] = n]
        /\ UNCHANGED <<pc, lh, prev, next, lvl, x, h, panicAt, done>>
  /\ UNCHANGED <<arena, height, pkey, pval, puts, overlap>>

(* One iteration of the find_splice_for_level that follows a failed CAS,  *)
(* from prev[i].  next[i] = _next.unwrap() panics at the end of the list   *)
(* (the FIXME); an equal key has its value overwritten with set_value and  *)
(* the put returns.  An equal key is met on level 0 only, for the reason   *)
(* given at HSplice, so the assert_eq!(i, 0) of the code always holds.     *)
ReSplice(t) ==
  LET i == lvl[t]
      n == Tower(cur[t], i)
  IN
  /\ pc[t] = "resplice"
  /\ \/ n = Null /\ Panic(t, 419) /\ UNCHANGED arena
     \/ n # Null /\ pkey[t] = KeyOf(n)
        /\ arena' = [arena EXCEPT ![n].value = pval[t]]
        /\ Return(t)
     \/ n # Null /\ SpliceBefore(pkey[t], n)
        /\ prev' = [prev EXCEPT ![t][i] = cur[t]]
        /\ next' = [next EXCEPT ![t][i] = n]
        /\ pc' = [pc EXCEPT ![t] = "link"]
        /\ UNCHANGED <<arena, lh, lvl, cur, x, h, panicAt, done>>
     \/ n # Null /\ pkey[t] > KeyOf(n)
        /\ cur' = [cur EXCEPT ![t] = n]
        /\ UNCHANGED <<arena, pc, lh, prev, next, lvl, x, h, panicAt, done>>
  /\ UNCHANGED <<height, pkey, pval, puts, overlap>>

-----------------------------------------------------------------------------
(* SkipList::get run by reader threads concurrently with the puts: the     *)
(* loop of find_near(key, false, true), one tower load per step, then the  *)
(* load of the found node's value.                                         *)

(* get -> find_near entry: x = head, level = get_height() - 1.             *)
GetStart(r) ==
  /\ rpc[r] = "idle"
  /\ gets[r] < MaxGets
  /\ \E k \in Keys : rkey' = [rkey EXCEPT ![r] = k]
  /\ rx' = [rx EXCEPT ![r] = HeadNode]
  /\ rlevel' = [rlevel EXCEPT ![r] = height - 1]
  /\ gets' = [gets EXCEPT ![r] = @ + 1]
  /\ rpc' = [rpc EXCEPT ![r] = "near"]
  /\ UNCHANGED <<got, arena, height, thread, done, overlap>>

(* `level -= 1; continue`                                                  *)
Descend(r) ==
  /\ rlevel' = [rlevel EXCEPT ![r] = @ - 1]
  /\ UNCHANGED <<rpc, rx, got>>

(* find_near returns (None, false) or (Some(next), false): get answers None. *)
NotFound(r) ==
  /\ rpc' = [rpc EXCEPT ![r] = "idle"]
  /\ got' = [got EXCEPT ![r] = NoVal]
  /\ UNCHANGED <<rx, rlevel>>

(* The Less arm: key < next.key.                                           *)
LessThanNextMutant(r) == NotFound(r)
LessThanNext(r) == IF rlevel[r] > 0 THEN Descend(r) ELSE NotFound(r)

(* One iteration of the find_near loop, with less = false and             *)
(* allow_equal = true as get calls it.                                     *)
GetStep(r) ==
  LET n == Tower(rx[r], rlevel[r]) IN
  /\ rpc[r] = "near"
  /\ \/ n = Null /\ rlevel[r] > 0 /\ Descend(r)
     \/ n = Null /\ rlevel[r] = 0 /\ NotFound(r)
     \/ n # Null /\ rkey[r] > KeyOf(n)
        /\ rx' = [rx EXCEPT ![r] = n]
        /\ UNCHANGED <<rpc, rlevel, got>>
     \/ n # Null /\ rkey[r] = KeyOf(n)
        /\ rx' = [rx EXCEPT ![r] = n]
        /\ rpc' = [rpc EXCEPT ![r] = "value"]
        /\ UNCHANGED <<rlevel, got>>
     \/ n # Null /\ rkey[r] < KeyOf(n) /\ LessThanNext(r)
  /\ UNCHANGED <<rkey, gets, arena, height, thread, done, overlap>>

(* get_value_offset: the Acquire load of the node's value.                 *)
GetValue(r) ==
  /\ rpc[r] = "value"
  /\ got' = [got EXCEPT ![r] = arena[rx[r]].value]
  /\ rpc' = [rpc EXCEPT ![r] = "idle"]
  /\ UNCHANGED <<rkey, rx, rlevel, gets, arena, height, thread, done, overlap>>

-----------------------------------------------------------------------------
(* Every thread has made its puts (or panicked) and its gets: the program  *)
(* stops.                                                                  *)
Finished ==
  /\ \A t \in Threads : pc[t] = "panicked" \/ (pc[t] = "idle" /\ puts[t] = MaxPuts)
  /\ \A r \in Readers : rpc[r] = "idle" /\ gets[r] = MaxGets
  /\ UNCHANGED vars

(* The steps of a put after its call.                                      *)
PutStep(t) ==
  /\ Search(t) \/ Alloc(t) \/ Raise(t) \/ Link(t) \/ HSplice(t) \/ ReSplice(t)
  /\ UNCHANGED reader

Next ==
  \/ \E t \in Threads : (Start(t) /\ UNCHANGED reader) \/ PutStep(t)
  \/ \E r \in Readers : GetStart(r) \/ GetStep(r) \/ GetValue(r)
  \/ Finished

(* Threads are scheduled by the OS: each one that can step eventually does. *)
Fairness ==
  /\ \A t \in Threads : WF_vars(PutStep(t))
  /\ \A r \in Readers : WF_vars(GetStep(r) \/ GetValue(r))

Spec == Init /\ [][Next]_vars /\ Fairness
-----------------------------------------------------------------------------
(* Readers of the structure: get_next walks, find_near and find_last.      *)

(* The nodes met following tower level l from node n, at most `fuel` of   *)
(* them (the bound only matters if a level were to contain a cycle).       *)
RECURSIVE Walk(_, _, _)
Walk(n, l, fuel) ==
  IF n = Null \/ fuel = 0 THEN << >>
  ELSE << n >> \o Walk(Tower(n, l), l, fuel - 1)

LevelList(l) == Walk(Tower(HeadNode, l), l, Len(arena))

(* find_near(key, less, allow_equal), one loop iteration per call; the    *)
(* result is <<node, found>> with Null for None.                           *)
(* find_near wanting > of an equal key: the base-level successor.         *)
SuccessorMutant(nx) == nx
Successor(nx) == Tower(nx, 0)

RECURSIVE FindNearFrom(_, _, _, _, _)
FindNearFrom(n, level, key, less, allowEqual) ==
  LET nx == Tower(n, level)
      Here == IF n = HeadNode THEN << Null, FALSE >> ELSE << n, FALSE >>
  IN
  CASE nx = Null ->
         IF level > 0 THEN FindNearFrom(n, level - 1, key, less, allowEqual)
         ELSE IF ~less THEN << Null, FALSE >> ELSE Here
    [] key > KeyOf(nx) -> FindNearFrom(nx, level, key, less, allowEqual)
    [] key = KeyOf(nx) ->
         IF allowEqual THEN << nx, TRUE >>
         ELSE IF ~less THEN << Successor(nx), FALSE >>
         ELSE IF level > 0 THEN FindNearFrom(n, level - 1, key, less, allowEqual)
         ELSE Here
    [] key < KeyOf(nx) ->
         IF level > 0 THEN FindNearFrom(n, level - 1, key, less, allowEqual)
         ELSE IF ~less THEN << nx, FALSE >>
         ELSE Here

FindNear(key, less, allowEqual) ==
  FindNearFrom(HeadNode, height - 1, key, less, allowEqual)

(* find_last: down-right from the top of the head; None for the head.      *)
RECURSIVE FindLastFrom(_, _)
FindLastFrom(n, level) ==
  IF Tower(n, level) # Null THEN FindLastFrom(Tower(n, level), level)
  ELSE IF level > 0 THEN FindLastFrom(n, level - 1)
  ELSE IF n = HeadNode THEN Null ELSE n

FindLast == FindLastFrom(HeadNode, height - 1)

-----------------------------------------------------------------------------
(* Properties.                                                             *)

(* The refinement mapping to KVMap: the map is what the base level holds;  *)
(* a put has taken effect once its node is linked on the base level.       *)
Applied(t) == x[t] # Null /\ x[t] \in Range(LevelList(0))

WriterState(t) ==
  CASE pc[t] = "idle" -> "idle"
    [] pc[t] = "panicked" -> "panicked"
    [] Applied(t) -> "applied"
    [] OTHER -> "pending"

LevelMap ==
  [k \in Keys |->
     LET ns == {n \in Range(LevelList(0)) : KeyOf(n) = k}
     IN IF ns = {} THEN NoVal ELSE arena[CHOOSE n \in ns : TRUE].value]

AbsMap == INSTANCE KVMap WITH
  Writers <- Threads,
  kv <- LevelMap,
  wst <- [t \in Threads |-> WriterState(t)],
  warg <- [t \in Threads |-> <<pkey[t], pval[t]>>],
  rst <- [r \in Readers |-> IF rpc[r] = "idle" THEN "idle" ELSE "pending"],
  rarg <- rkey,
  rres <- got

(* Linearizability of put and get: every behaviour of concurrent puts and  *)
(* gets is one of KVMap, where each call takes effect at a single instant  *)
(* between call and return (the base-level CAS or set_value of a put; the *)
(* last tower load or the value load of a get).                            *)
KVMapRefinement == AbsMap!Spec

TypeOK ==
  /\ arena \in Seq(Node)
  /\ height \in 1 .. MaxHeight
  /\ pc \in [Threads -> {"idle", "search", "alloc", "raise", "link",
                         "hsplice", "resplice", "panicked"}]
  /\ x \in [Threads -> 0 .. Len(arena)]
  /\ lvl \in [Threads -> Levels]
  /\ done \subseteq Keys \X Vals
  /\ rpc \in [Readers -> {"idle", "near", "value"}]
  /\ rlevel \in [Readers -> Levels]
  /\ got \in [Readers -> Vals \cup {NoVal}]

(* Every level, walked from the head, ends and has strictly increasing     *)
(* keys: no concurrent interleaving of find_splice_for_level and the tower *)
(* CAS in _put links a node out of order or twice.                         *)
LevelsSorted ==
  \A l \in Levels :
    LET s == LevelList(l) IN
    /\ \A j \in 1 .. Len(s) - 1 : KeyOf(s[j]) < KeyOf(s[j + 1])
    /\ s # << >> => Tower(s[Len(s)], l) = Null

(* A node reachable on level l > 0 is reachable on level l - 1: _put links *)
(* a tower from the base level up, so search on an upper level never      *)
(* skips to a node the levels below do not have.                           *)
TowerNested ==
  \A l \in Levels \ {0} : Range(LevelList(l)) \subseteq Range(LevelList(l - 1))

(* Once a put has returned, its key stays on the base level whatever other *)
(* threads' CASes do afterwards.                                           *)
NoLostInsert ==
  \A d \in done : \E n \in Range(LevelList(0)) : KeyOf(n) = d[1]

(* When a put returns, its key is on the base level carrying its value,    *)
(* unless a put of the same key by another thread overlapped it.           *)
Visible(k, v) ==
  \E n \in Range(LevelList(0)) : KeyOf(n) = k /\ arena[n].value = v

PutVisible ==
  [][\A t \in Threads :
       (Busy(t) /\ pc'[t] = "idle")
         => (Visible(pkey[t], pval[t])' \/ overlap[t] # {})]_vars

(* find_near and find_last, run on any state concurrent puts leave behind, *)
(* answer as their doc comment says of the base level: the rightmost node *)
(* below (or at) the key when less, else the leftmost node above (or at).  *)
SearchKeys == {0} \cup Keys \cup {k + 1 : k \in Keys}

RefFindNear(key, less, allowEqual) ==
  LET s == LevelList(0)
      Fits(n) == CASE less /\ allowEqual -> KeyOf(n) <= key
                   [] less -> KeyOf(n) < key
                   [] allowEqual -> KeyOf(n) >= key
                   [] OTHER -> KeyOf(n) > key
      js == {j \in DOMAIN s : Fits(s[j])}
      pick == IF less THEN CHOOSE j \in js : \A i \in js : i <= j
              ELSE CHOOSE j \in js : \A i \in js : i >= j
  IN IF js = {} THEN << Null, FALSE >>
     ELSE << s[pick], allowEqual /\ KeyOf(s[pick]) = key >>

SearchesCorrect ==
  /\ \A key \in SearchKeys, less, allowEqual \in BOOLEAN :
       FindNear(key, less, allowEqual) = RefFindNear(key, less, allowEqual)
  /\ FindLast = IF LevelList(0) = << >> THEN Null
                ELSE LevelList(0)[Len(LevelList(0))]

(* A put of a key already present overwrites its value: spec section 7    *)
(* lists a redundant insert as "not an error", and section 4.3 step 2 has *)
(* the search phase rewrite the existing node's value slot.                *)
OverwriteNoPanic == \A t \in Threads : panicAt[t] # 353

(* A node taller than the list links its new upper levels after searching *)
(* them from the head (spec 4.3 step 5), also when those levels are empty. *)
TallTowerNoPanic == \A t \in Threads : panicAt[t] # 394

(* A failed tower CAS re-runs the splice from prev[i] and retries (spec    *)
(* 4.3 step 6), also when the new splice ends at the end of the level.    *)
RetryNoPanic == \A t \in Threads : panicAt[t] # 419

(* Lock freedom with bounded work: every started put eventually returns or *)
(* panics; the height CAS loop and the link CAS loop do not spin forever.  *)
PutsTerminate == \A t \in Threads : [](Busy(t) => <>~Busy(t))
=============================================================================
