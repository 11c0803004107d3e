------------------------------ MODULE RefCount ------------------------------
(***************************************************************************)
(* The reference-counted lifecycle of a SkipList (src/skl/mod.rs): the     *)
(* owner holds the reference SkipList::new starts _ref with; new_cursor    *)
(* takes one more with incr_ref; SkipList::close and Cursor::close give    *)
(* one back with decr_ref, and the decr_ref that finds the old count at    *)
(* most 1 resets the arena.  fetch_sub and arena.reset are two steps, so   *)
(* other threads run between them.                                         *)
(*                                                                         *)
(* Callers follow the rule of spec.md 4.3: a thread opens a cursor only   *)
(* while some reference is held (the owner's, or another cursor's that    *)
(* outlives the call), and closes each cursor once.  A reader thread may  *)
(* open and close cursors again and again.                                 *)
(***************************************************************************)
EXTENDS Integers

CONSTANTS
  Owner,      \* the memtable that created the skiplist
  Cursors,    \* reader threads, each holding at most one cursor at a time
  MaxCursors  \* cursors each reader opens per run

Holders == {Owner} \cup Cursors

VARIABLES
  ref,       \* SkipList._ref
  st,        \* per holder: none, held, resetting (fetch_sub saw old <= 1), released
  opened,    \* per reader: cursors opened so far
  resets     \* arena.reset calls so far

vars == <<ref, st, opened, resets>>

(* SkipList::new: _ref = 1, held by the owner.                             *)
Init ==
  /\ ref = 1
  /\ st = [h \in Holders |-> IF h = Owner THEN "held" ELSE "none"]
  /\ opened = [c \in Cursors |-> 0]
  /\ resets = 0

(* new_cursor called by a thread holding a reference: incr_ref, then      *)
(* Cursor::new keeps the new reference.                                    *)
NewCursor(c) ==
  /\ st[c] \in {"none", "released"}
  /\ opened[c] < MaxCursors
  /\ \E h \in Holders \ {c} : st[h] = "held"
  /\ ref' = ref + 1
  /\ st' = [st EXCEPT ![c] = "held"]
  /\ opened' = [opened EXCEPT ![c] = @ + 1]
  /\ UNCHANGED resets

(* decr_ref, first step: old = _ref.fetch_sub(1); return if old > 1.     *)
ReleasedEarly(old) == IF old > 2 THEN "released" ELSE "resetting"
ReleasedNever(old) == "released"
Released(old) == IF old > 1 THEN "released" ELSE "resetting"

DecrRef(h) ==
  /\ st[h] = "held"
  /\ ref' = ref - 1
  /\ st' = [st EXCEPT ![h] = Released(ref)]
  /\ UNCHANGED <<opened, resets>>

(* decr_ref, second step: self.arena.reset().                             *)
ResetArena(h) ==
  /\ st[h] = "resetting"
  /\ resets' = resets + 1
  /\ st' = [st EXCEPT ![h] = "released"]
  /\ UNCHANGED <<ref, opened>>

(* Every reference given back: nothing more happens.                      *)
Done ==
  /\ \A h \in Holders : st[h] \in {"none", "released"}
  /\ UNCHANGED vars

Next ==
  \/ \E c \in Cursors : NewCursor(c)
  \/ \E h \in Holders : DecrRef(h) \/ ResetArena(h)
  \/ Done

(* A thread that has started decr_ref finishes it; giving a reference     *)
(* back is the caller's choice and not assumed.                            *)
Spec == Init /\ [][Next]_vars /\ \A h \in Holders : WF_vars(ResetArena(h))

-----------------------------------------------------------------------------
(* Properties.                                                             *)

(* Spec 4.3 and the t_empty test (decr_ref by the owner, then             *)
(* assert!(st.valid()) while the cursor is open): decr_ref resets the     *)
(* arena only after every reference, the owner's and each cursor's, has   *)
(* been given back, and only once.                                        *)
NoResetWhileHeld ==
  resets > 0 => /\ \A h \in Holders : st[h] # "held"
                /\ resets = 1

(* Spec 4.3: when the count reaches zero the arena is reset: once every   *)
(* holder has called decr_ref, some decr_ref calls arena.reset.           *)
ResetWhenUnreferenced ==
  (\A h \in Holders : st[h] \in {"none", "released", "resetting"}) ~> (resets > 0)
=============================================================================
