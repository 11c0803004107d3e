------------------------------- MODULE KVMap --------------------------------
(***************************************************************************)
(* What the skiplist memtable promises its callers: a map from keys to     *)
(* values on which every put and every get takes effect atomically at one  *)
(* instant between its call and its return.  A put that panics may have   *)
(* taken effect or not; it never returns.  SkipList.tla is shown to        *)
(* implement this specification (SkipList!KVMapRefinement).                *)
(***************************************************************************)
CONSTANTS
  Writers,   \* threads calling put
  Readers,   \* threads calling get
  Keys,
  Vals,
  NoVal      \* the answer of get for an absent key (None)

VARIABLES
  kv,        \* the map
  wst,       \* per writer: idle, pending (called), applied (took effect), panicked
  warg,      \* per writer: the <<key, value>> of its current or last put
  rst,       \* per reader: idle or pending
  rarg,      \* per reader: the key of its current or last get
  rres       \* per reader: the answer of its last get

vars == <<kv, wst, warg, rst, rarg, rres>>

Init ==
  /\ kv = [k \in Keys |-> NoVal]
  /\ wst = [t \in Writers |-> "idle"]
  /\ warg \in [Writers -> Keys \X Vals]
  /\ rst = [r \in Readers |-> "idle"]
  /\ rarg \in [Readers -> Keys]
  /\ rres = [r \in Readers |-> NoVal]

Write(t) == kv' = [kv EXCEPT ![warg[t][1]] = warg[t][2]]

PutCall(t) ==
  /\ wst[t] = "idle"
  /\ wst' = [wst EXCEPT ![t] = "pending"]
  /\ \E k \in Keys, v \in Vals : warg' = [warg EXCEPT ![t] = <<k, v>>]
  /\ UNCHANGED <<kv, rst, rarg, rres>>

PutEffect(t) ==
  /\ wst[t] = "pending"
  /\ Write(t)
  /\ wst' = [wst EXCEPT ![t] = "applied"]
  /\ UNCHANGED <<warg, rst, rarg, rres>>

PutReturn(t) ==
  /\ wst[t] = "applied"
  /\ wst' = [wst EXCEPT ![t] = "idle"]
  /\ UNCHANGED <<kv, warg, rst, rarg, rres>>

(* Taking effect and returning in one instant.                             *)
PutEffectReturn(t) ==
  /\ wst[t] = "pending"
  /\ Write(t)
  /\ wst' = [wst EXCEPT ![t] = "idle"]
  /\ UNCHANGED <<warg, rst, rarg, rres>>

PutPanic(t) ==
  /\ wst[t] \in {"pending", "applied"}
  /\ wst' = [wst EXCEPT ![t] = "panicked"]
  /\ UNCHANGED <<kv, warg, rst, rarg, rres>>

GetCall(r) ==
  /\ rst[r] = "idle"
  /\ rst' = [rst EXCEPT ![r] = "pending"]
  /\ \E k \in Keys : rarg' = [rarg EXCEPT ![r] = k]
  /\ UNCHANGED <<kv, wst, warg, rres>>

(* A get reads the map and returns in one instant.                         *)
GetReturn(r) ==
  /\ rst[r] = "pending"
  /\ rres' = [rres EXCEPT ![r] = kv[rarg[r]]]
  /\ rst' = [rst EXCEPT ![r] = "idle"]
  /\ UNCHANGED <<kv, wst, warg, rarg>>

Next ==
  \/ \E t \in Writers :
       PutCall(t) \/ PutEffect(t) \/ PutReturn(t) \/ PutEffectReturn(t) \/ PutPanic(t)
  \/ \E r \in Readers : GetCall(r) \/ GetReturn(r)

Spec == Init /\ [][Next]_vars
=============================================================================
