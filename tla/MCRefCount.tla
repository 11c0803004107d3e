----------------------------- MODULE MCRefCount -----------------------------
(* Model values for the RefCount run: an owner and three reader threads. *)
EXTENDS RefCount

CONSTANTS c1, c2, c3

MCCursors == {c1, c2, c3}
=============================================================================
